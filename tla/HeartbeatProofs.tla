-------------------------- MODULE HeartbeatProofs --------------------------
(***************************************************************************)
(* The invariants of Heartbeat and of the alert path it uses, for any      *)
(* callers, channels, severities and hours.  The first part is about one   *)
(* call of notify by itself, whoever makes it; the second says how the     *)
(* heartbeat's stage, its call of notify and the day fit together, and     *)
(* what the mark of the day stands for.                                    *)
(***************************************************************************)
EXTENDS Heartbeat, SequenceTheorems, TLAPS

Elements(s) == {s[i] : i \in DOMAIN s}

\* The channels a call is to ask.
Eligible(n) == {c \in Enabled \cap Configured : SeverityOk(c, n.sev)}

\* A call still has every channel before it that it has not asked, and reports
\* a delivery only where there was one.
Round(n) ==
    /\ n.at \in {"ask", "send"} =>
           ~n.skipped /\ Eligible(n) \subseteq n.tried \cup Elements(n.todo)
    /\ n.at = "done" /\ ~n.skipped => Eligible(n) \subseteq n.tried
    /\ \A c \in Channel : n.result[c] = "true" => c \in n.arrived

\* A heartbeat is for today until midnight, and none sees two midnights: the
\* loop does not pass while one is in progress, and the hours it does not pass
\* in are those the monitor is down, without a heartbeat.
OneMidnight ==
    /\ ~up => beat.at = "idle"
    /\ beat.at = "idle" <=> beat.key = NoKey
    /\ beat.at # "idle" /\ visited => beat.key = "today"

\* The monitor calls notify for its heartbeat alone and under its key, the
\* others without one.
OwnCalls ==
    /\ beat.at # "notify" => note[Monitor] = NoNote
    /\ beat.at = "notify" => /\ note[Monitor].key = beat.key
                             /\ note[Monitor].at # "idle"
    /\ \A p \in Testers : note[p].key = NoKey /\ note[p].at # "ask"

Sending == note[Monitor].at = "send" /\ note[Monitor].key = "today"

\* The mark of the day stands for a round that is over, broken off or under
\* way; so does a call that is over, and a heartbeat that is about to be noted.
MarkStands ==
    /\ "today" \in muted => told \/ lost \/ Sending
    /\ Today(Monitor) /\ note[Monitor].at = "done" => told \/ lost
    /\ beat.at = "meta" /\ beat.key = "today" => told \/ lost
    /\ DoneWasTold

\* Before the mark every round of the day was one that could not ask.
Counted ==
    /\ "today" \notin muted => begun <= unasked
    /\ OncePerDay

IInv ==
    /\ TypeOK
    /\ \A p \in Callers : Round(note[p])
    /\ OneMidnight
    /\ OwnCalls
    /\ MarkStands
    /\ Counted

-----------------------------------------------------------------------------
(* The channels.                                                           *)

\* The channels, written out.
LEMMA ChannelIs == Channel = {"telegram", "email", "webhook"}
<1>1. DOMAIN Channels = 1..3
    BY DEF Channels
<1>2. /\ Channels[1] = "telegram" /\ Channels[2] = "email"
      /\ Channels[3] = "webhook"
    BY DEF Channels
<1> QED
    BY <1>1, <1>2 DEF Channel, ToSet

\* What a concatenation holds.
LEMMA ElementsOfConcat ==
    ASSUME NEW S, NEW s \in Seq(S), NEW t \in Seq(S)
    PROVE  Elements(s \o t) = Elements(s) \cup Elements(t)
<1>1. /\ s \o t \in Seq(S) /\ Len(s \o t) = Len(s) + Len(t)
      /\ \A i \in 1 .. Len(s) + Len(t) :
            (s \o t)[i] = IF i <= Len(s) THEN s[i] ELSE t[i - Len(s)]
    BY ConcatProperties
<1>2. /\ Len(s) \in Nat /\ Len(t) \in Nat
      /\ DOMAIN s = 1..Len(s) /\ DOMAIN t = 1..Len(t)
      /\ DOMAIN (s \o t) = 1..(Len(s) + Len(t))
    BY <1>1, LenProperties
<1>3. \A i \in 1..Len(t) : (s \o t)[i + Len(s)] = t[i]
                           /\ i + Len(s) \in 1..(Len(s) + Len(t))
    BY <1>1, <1>2
<1>4. Elements(s) \subseteq Elements(s \o t)
    <2>1. \A i \in 1..Len(s) : (s \o t)[i] = s[i] /\ i \in 1..(Len(s) + Len(t))
        BY <1>1, <1>2
    <2> QED
        BY <1>2, <2>1 DEF Elements
<1>5. Elements(t) \subseteq Elements(s \o t)
    BY <1>2, <1>3 DEF Elements
<1>6. Elements(s \o t) \subseteq Elements(s) \cup Elements(t)
    <2> SUFFICES ASSUME NEW i \in 1..(Len(s) + Len(t))
                 PROVE  (s \o t)[i] \in Elements(s) \cup Elements(t)
        BY <1>2 DEF Elements
    <2>1. CASE i <= Len(s)
        BY <1>1, <1>2, <2>1 DEF Elements
    <2>2. CASE ~(i <= Len(s))
        <3>1. i - Len(s) \in 1..Len(t)
            BY <1>2, <2>2
        <3> QED
            BY <1>1, <1>2, <2>2, <3>1 DEF Elements
    <2> QED
        BY <2>1, <2>2
<1> QED
    BY <1>4, <1>5, <1>6

\* A call starts with the channels that are on before it.
LEMMA ActiveAreEnabled ==
    /\ ActiveChannels \in Seq(Channel)
    /\ Elements(ActiveChannels) = Enabled
<1>1. ASSUME NEW c \in Channel
      PROVE  IfOn(c) \in Seq(Channel) /\ Elements(IfOn(c)) = Enabled \cap {c}
    <2>1. CASE c \in Enabled
        <3>1. IfOn(c) = <<c>> /\ <<c>> \in Seq(Channel) /\ DOMAIN <<c>> = {1}
              /\ <<c>>[1] = c
            BY <2>1 DEF IfOn
        <3> QED
            BY <2>1, <3>1 DEF Elements
    <2>2. CASE c \notin Enabled
        <3>1. IfOn(c) = <<>> /\ <<>> \in Seq(Channel) /\ DOMAIN <<>> = {}
            BY <2>2 DEF IfOn
        <3> QED
            BY <2>2, <3>1 DEF Elements
    <2> QED
        BY <2>1, <2>2
<1> DEFINE two == IfOn("telegram") \o IfOn("email")
<1>2. /\ two \in Seq(Channel)
      /\ Elements(two) = (Enabled \cap {"telegram"}) \cup (Enabled \cap {"email"})
    BY <1>1, ChannelIs, ConcatProperties, ElementsOfConcat
<1>3. /\ two \o IfOn("webhook") \in Seq(Channel)
      /\ Elements(two \o IfOn("webhook"))
            = Elements(two) \cup (Enabled \cap {"webhook"})
    <2> HIDE DEF two
    <2>1. /\ two \in Seq(Channel) /\ IfOn("webhook") \in Seq(Channel)
          /\ Elements(IfOn("webhook")) = Enabled \cap {"webhook"}
        BY <1>1, <1>2, ChannelIs
    <2> QED
        BY <2>1, ConcatProperties, ElementsOfConcat
<1> QED
    BY <1>2, <1>3, ChannelIs, ChannelsAssumption DEF ActiveChannels

\* The next channel and those after it are the ones a call has before it.
LEMMA HeadThenTail ==
    ASSUME NEW S, NEW s \in Seq(S), s # <<>>
    PROVE  /\ Head(s) \in S /\ Tail(s) \in Seq(S)
           /\ Elements(s) = {Head(s)} \cup Elements(Tail(s))
<1>1. /\ Len(s) \in Nat \ {0} /\ Head(s) = s[1] /\ Head(s) \in S
      /\ Tail(s) \in Seq(S) /\ Len(Tail(s)) = Len(s) - 1
      /\ \A i \in 1..(Len(s) - 1) : Tail(s)[i] = s[i + 1]
    BY HeadTailProperties, EmptySeq
<1>2. DOMAIN s = 1..Len(s) /\ DOMAIN Tail(s) = 1..(Len(s) - 1)
    BY <1>1, LenProperties
<1>3. \A i \in 2..Len(s) : Tail(s)[i - 1] = s[i] /\ i - 1 \in 1..(Len(s) - 1)
    BY <1>1
<1>4. Elements(s) \subseteq {Head(s)} \cup Elements(Tail(s))
    <2> SUFFICES ASSUME NEW i \in 1..Len(s)
                 PROVE  s[i] \in {Head(s)} \cup Elements(Tail(s))
        BY <1>2 DEF Elements
    <2>1. CASE i = 1
        BY <1>1, <2>1
    <2>2. CASE i # 1
        <3>1. Tail(s)[i - 1] = s[i] /\ i - 1 \in DOMAIN Tail(s)
            BY <1>1, <1>2, <1>3, <2>2
        <3> QED
            BY <3>1 DEF Elements
    <2> QED
        BY <2>1, <2>2
<1>5. {Head(s)} \cup Elements(Tail(s)) \subseteq Elements(s)
    BY <1>1, <1>2 DEF Elements
<1> QED
    BY <1>1, <1>4, <1>5

-----------------------------------------------------------------------------
(* One call of notify.                                                     *)

\* No call is a round that has nothing to answer for.
LEMMA NoNoteIsFine ==
    NoNote \in Note(Keys) /\ Round(NoNote)
    /\ NoNote.at = "idle" /\ NoNote.key = NoKey
<1>1. <<>> \in Seq(Channel) /\ 0 \in 0..(MaxTries - 1) /\ "INFO" \in DOMAIN Order
    BY DEF MaxTries, Order
<1>2. [c \in Channel |-> "none"] \in [Channel -> Results]
    BY DEF Results
<1> QED
    BY <1>1, <1>2 DEF NoNote, Note, Round, Keys, NoKey

\* A call begins with every channel it is to ask before it.
LEMMA NewNoteIsFine ==
    ASSUME NEW key \in Keys, NEW sev \in DOMAIN Order
    PROVE  /\ NewNote(key, sev) \in Note(Keys)
           /\ Round(NewNote(key, sev))
           /\ NewNote(key, sev).key = key
           /\ NewNote(key, sev).at = IF key = NoKey THEN "send" ELSE "ask"
<1>1. ActiveChannels \in Seq(Channel) /\ Elements(ActiveChannels) = Enabled
    BY ActiveAreEnabled
<1>2. NewNote(key, sev) \in Note(Keys)
    BY <1>1, NoNoteIsFine DEF NewNote, Note
<1>3. /\ ~NewNote(key, sev).skipped
      /\ NewNote(key, sev).todo = ActiveChannels
      /\ NewNote(key, sev).at = IF key = NoKey THEN "send" ELSE "ask"
      /\ NewNote(key, sev).key = key
      /\ NewNote(key, sev).result = [c \in Channel |-> "none"]
    BY DEF NewNote, NoNote
<1>4. Eligible(NewNote(key, sev)) \subseteq Enabled
    BY DEF Eligible
<1> QED
    BY <1>1, <1>2, <1>3, <1>4 DEF Round

\* Asking a channel changes what was tried and what arrived, and nothing else.
LEMMA TriedEffect ==
    ASSUME NEW n \in Note(Keys), n.todo # <<>>, NEW reply
    PROVE  /\ Tried(n, reply) \in Note(Keys)
           /\ Tried(n, reply).at = n.at /\ Tried(n, reply).key = n.key
           /\ Tried(n, reply).sev = n.sev /\ Tried(n, reply).todo = n.todo
           /\ Tried(n, reply).tries = n.tries
           /\ Tried(n, reply).result = n.result
           /\ Tried(n, reply).skipped = n.skipped
           /\ Tried(n, reply).tried = n.tried \cup {Head(n.todo)}
           /\ n.arrived \subseteq Tried(n, reply).arrived
           /\ reply = "accepted" => Head(n.todo) \in Tried(n, reply).arrived
<1>1. n.todo \in Seq(Channel) /\ Head(n.todo) \in Channel
    BY HeadThenTail DEF Note
<1> QED
    BY <1>1 DEF Tried, Note

\* A channel that is done with is before the call no longer, whatever it did.
LEMMA EndedEffect ==
    ASSUME NEW n \in Note(Keys), n.todo # <<>>, NEW r \in Results
    PROVE  /\ Ended(n, r) \in Note(Keys)
           /\ Ended(n, r).at = n.at /\ Ended(n, r).key = n.key
           /\ Ended(n, r).sev = n.sev /\ Ended(n, r).todo = Tail(n.todo)
           /\ Ended(n, r).skipped = n.skipped
           /\ Ended(n, r).tried = n.tried /\ Ended(n, r).arrived = n.arrived
           /\ \A c \in Channel : Ended(n, r).result[c]
                                    = IF c = Head(n.todo) THEN r ELSE n.result[c]
<1>1. /\ n.todo \in Seq(Channel) /\ Head(n.todo) \in Channel
      /\ Tail(n.todo) \in Seq(Channel) /\ n.result \in [Channel -> Results]
    BY HeadThenTail DEF Note
<1>2. 0 \in 0..(MaxTries - 1)
    BY DEF MaxTries
<1> DEFINE result == [n.result EXCEPT ![Head(n.todo)] = r]
<1>3. /\ result \in [Channel -> Results]
      /\ \A c \in Channel : result[c] = IF c = Head(n.todo) THEN r ELSE n.result[c]
    BY <1>1
<1>4. Ended(n, r) = [n EXCEPT !.result = result, !.tries = 0,
                              !.todo = Tail(n.todo)]
    BY DEF Ended, AfterError, Note
<1> HIDE DEF result
<1> QED
    BY <1>1, <1>2, <1>3, <1>4 DEF Note

\* A round stays in order when its first channel was asked, or could not be,
\* and "true" is said of a copy that arrived only.
LEMMA EndedIsFine ==
    ASSUME NEW n \in Note(Keys), n.at = "send", n.todo # <<>>, NEW r \in Results,
           Round(n),
           Head(n.todo) \in Eligible(n) => Head(n.todo) \in n.tried,
           r = "true" => Head(n.todo) \in n.arrived
    PROVE  Round(Ended(n, r))
<1>1. Elements(n.todo) = {Head(n.todo)} \cup Elements(Tail(n.todo))
    BY HeadThenTail DEF Note
<1>2. Eligible(Ended(n, r)) = Eligible(n)
    BY EndedEffect DEF Eligible
<1>3. Eligible(n) \subseteq n.tried \cup Elements(Tail(n.todo))
    BY <1>1 DEF Round
<1> QED
    BY <1>2, <1>3, EndedEffect DEF Round

\* To be asked does a round no harm.
LEMMA TriedIsFine ==
    ASSUME NEW n \in Note(Keys), n.at = "send", n.todo # <<>>, NEW reply,
           Round(n)
    PROVE  Round(Tried(n, reply))
<1>1. Eligible(Tried(n, reply)) = Eligible(n)
    BY TriedEffect DEF Eligible
<1> QED
    BY <1>1, TriedEffect DEF Round

\* What a step of notify does to the call it belongs to: n before, m after.
Fine(n, m) ==
    /\ m \in Note(Keys) /\ Round(m)
    /\ m.key = n.key

\* A request leaves the round in order, whatever came of it.
LEMMA RequestIsFine ==
    ASSUME NEW n \in Note(Keys), n.at = "send", n.todo # <<>>, Round(n),
           NEW reply, NEW r \in Results, r = "true" => reply = "accepted"
    PROVE  /\ Fine(n, Ended(Tried(n, reply), r))
           /\ Ended(Tried(n, reply), r).at = "send"
<1> DEFINE t == Tried(n, reply)
<1>1. /\ t \in Note(Keys) /\ t.todo = n.todo /\ t.todo # <<>> /\ t.at = "send"
      /\ t.key = n.key /\ Head(t.todo) \in t.tried
      /\ r = "true" => Head(t.todo) \in t.arrived
    BY TriedEffect
<1>2. Round(t)
    BY TriedIsFine
<1> HIDE DEF t
<1>3. Round(Ended(t, r))
    BY <1>1, <1>2, EndedIsFine
<1>4. Ended(t, r) \in Note(Keys) /\ Ended(t, r).key = n.key
      /\ Ended(t, r).at = "send"
    BY <1>1, EndedEffect
<1> QED
    BY <1>3, <1>4 DEF Fine, t

\* A step of a round that has begun.
Sends(p) ==
    \/ Misconfigured(p) \/ BelowSeverity(p) \/ Accepted(p)
    \/ \E reply \in {"refused", "lost", "limited"} :
          TelegramFails(p, reply) \/ Raises(p, reply)

Notes == note \in [Callers -> Note(Keys)]

\* A channel's turn leaves the round in order and is nobody else's business.
LEMMA SendsEffect ==
    ASSUME Notes, NEW p \in Callers, Round(note[p]), Sends(p)
    PROVE  /\ note[p].at = "send"
           /\ \E m : /\ note' = [note EXCEPT ![p] = m]
                     /\ Fine(note[p], m) /\ m.at = "send"
           /\ UNCHANGED <<muted, dbOk>>
<1> DEFINE n == note[p]
<1>1. n \in Note(Keys) /\ {"true", "false", "error"} \subseteq Results
    BY DEF Notes, Results
<1>2. n.at = "send" /\ n.todo # <<>> /\ UNCHANGED <<muted, dbOk>>
    BY DEF Sends, Misconfigured, BelowSeverity, Accepted, TelegramFails, Raises, Request
<1>3. CASE Misconfigured(p) \/ BelowSeverity(p)
    <2>1. Head(n.todo) \notin Eligible(n)
        BY <1>3 DEF Misconfigured, BelowSeverity, Current, Eligible
    <2>2. PICK r \in {"false", "error"} : note' = [note EXCEPT ![p] = Ended(n, r)]
        BY <1>3 DEF Misconfigured, BelowSeverity
    <2>3. Fine(n, Ended(n, r)) /\ Ended(n, r).at = "send"
        BY <1>1, <1>2, <2>1, EndedEffect, EndedIsFine DEF Fine
    <2> QED
        BY <1>2, <2>2, <2>3
<1>4. CASE Accepted(p)
    <2> DEFINE m == Ended(Tried(n, "accepted"), "true")
    <2>1. note' = [note EXCEPT ![p] = m]
        BY <1>4 DEF Accepted
    <2>2. Fine(n, m) /\ m.at = "send"
        BY <1>1, <1>2, RequestIsFine
    <2> QED
        BY <1>2, <2>1, <2>2
<1>5. ASSUME NEW reply \in {"refused", "lost", "limited"},
             TelegramFails(p, reply) \/ Raises(p, reply)
      PROVE  \E m : note' = [note EXCEPT ![p] = m] /\ Fine(n, m) /\ m.at = "send"
    <2> DEFINE t == Tried(n, reply)
    <2>1. /\ t \in Note(Keys) /\ Round(t)
          /\ t.key = n.key /\ t.at = "send"
        BY <1>1, <1>2, TriedEffect, TriedIsFine
    <2>2. CASE TelegramFails(p, reply) /\ Again(t.tries)
        <3> DEFINE m == [t EXCEPT !.tries = @ + 1]
        <3>1. note' = [note EXCEPT ![p] = m]
            BY <2>2 DEF TelegramFails
        <3> HIDE DEF t
        <3>2. m \in Note(Keys)
            BY <2>1, <2>2 DEF Again, Note, MaxTries
        <3>3. Round(m) /\ m.key = n.key /\ m.at = "send"
            BY <2>1 DEF Round, Eligible, Note
        <3> QED
            BY <3>1, <3>2, <3>3 DEF Fine
    <2>3. CASE TelegramFails(p, reply) /\ ~Again(t.tries)
        <3>1. note' = [note EXCEPT ![p] = Ended(t, "false")]
            BY <2>3 DEF TelegramFails, GaveUp
        <3> QED
            BY <1>1, <1>2, <3>1, RequestIsFine
    <2>4. CASE Raises(p, reply)
        <3>1. note' = [note EXCEPT ![p] = Ended(t, "error")]
            BY <2>4 DEF Raises
        <3> QED
            BY <1>1, <1>2, <3>1, RequestIsFine
    <2> QED
        BY <1>5, <2>2, <2>3, <2>4
<1> QED
    BY <1>2, <1>3, <1>4, <1>5 DEF Sends

\* The question to the dedupe table: its answer decides between the round and
\* the end of the call, and marks the key.
LEMMA AskEffect ==
    ASSUME Notes, NEW p \in Callers, Round(note[p]), Ask(p)
    PROVE  /\ note[p].at = "ask"
           /\ \E m : /\ note' = [note EXCEPT ![p] = m]
                     /\ Fine(note[p], m)
                     /\ m.at = IF dbOk /\ note[p].key \in muted
                               THEN "done" ELSE "send"
           /\ muted' = IF dbOk THEN muted \cup {note[p].key} ELSE muted
           /\ dbOk' = dbOk
<1> DEFINE n == note[p]
           to == IF ~dbOk THEN Unasked
                 ELSE IF Suppressed(n.key) THEN [at |-> "done", skipped |-> TRUE]
                 ELSE [at |-> "send", skipped |-> FALSE]
           m  == [n EXCEPT !.at = to.at, !.skipped = to.skipped]
<1>1. n \in Note(Keys) /\ n.at = "ask"
    BY DEF Notes, Ask
<1>2. note' = [note EXCEPT ![p] = m]
    BY <1>1 DEF Ask, Note, Notes
<1>3. \/ dbOk /\ n.key \in muted /\ to.at = "done" /\ to.skipped = TRUE
      \/ ~(dbOk /\ n.key \in muted) /\ to.at = "send" /\ to.skipped = FALSE
    BY DEF Unasked, Suppressed
<1> HIDE DEF to
<1>4. m \in Note(Keys) /\ m.at = to.at /\ m.skipped = to.skipped
      /\ m.key = n.key /\ m.sev = n.sev /\ m.todo = n.todo
      /\ m.tried = n.tried /\ m.arrived = n.arrived /\ m.result = n.result
    BY <1>1, <1>3 DEF Note
<1>5. Round(m)
    BY <1>1, <1>3, <1>4 DEF Round, Eligible
<1> QED
    BY <1>1, <1>2, <1>3, <1>4, <1>5 DEF Ask, Fine

\* After the last channel every channel the call was to ask has been asked.
LEMMA AllTriedEffect ==
    ASSUME Notes, NEW p \in Callers, Round(note[p]), AllTried(p)
    PROVE  /\ note[p].at = "send"
           /\ \E m : /\ note' = [note EXCEPT ![p] = m]
                     /\ Fine(note[p], m) /\ m.at = "done"
           /\ UNCHANGED <<muted, dbOk>>
<1> DEFINE n == note[p]
           m == [n EXCEPT !.at = "done"]
<1>1. n \in Note(Keys) /\ n.at = "send" /\ n.todo = <<>>
    BY DEF Notes, AllTried
<1>2. note' = [note EXCEPT ![p] = m]
    BY DEF AllTried
<1>3. m \in Note(Keys) /\ m.at = "done" /\ m.skipped = n.skipped
      /\ m.key = n.key /\ m.sev = n.sev
      /\ m.tried = n.tried /\ m.arrived = n.arrived /\ m.result = n.result
    BY <1>1 DEF Note
<1>4. Elements(n.todo) = {}
    BY <1>1 DEF Elements
<1>5. Round(m)
    BY <1>1, <1>3, <1>4 DEF Round, Eligible
<1> QED
    BY <1>1, <1>2, <1>3, <1>5 DEF Fine, AllTried

\* A step of notify: the question, or a step of the round.
LEMMA NotifyEffect ==
    ASSUME Notes, NEW p \in Callers, Round(note[p]), NotifyStep(p)
    PROVE  /\ Notes' /\ Fine(note[p], note'[p])
           /\ \A q \in Callers \ {p} : note'[q] = note[q]
           /\ dbOk' = dbOk
           /\ \/ /\ note[p].at = "ask"
                 /\ note'[p].at = IF dbOk /\ note[p].key \in muted
                                  THEN "done" ELSE "send"
                 /\ muted' = IF dbOk THEN muted \cup {note[p].key} ELSE muted
              \/ /\ note[p].at = "send" /\ note'[p].at \in {"send", "done"}
                 /\ muted' = muted
<1> DEFINE Put(m) == note' = [note EXCEPT ![p] = m] /\ Fine(note[p], m)
<1>1. ASSUME NEW m, Put(m)
      PROVE  /\ Notes' /\ Fine(note[p], note'[p]) /\ note'[p] = m
             /\ \A q \in Callers \ {p} : note'[q] = note[q]
    BY <1>1 DEF Notes, Fine
<1>2. CASE Ask(p)
    BY <1>1, <1>2, AskEffect
<1>3. CASE Sends(p)
    BY <1>1, <1>3, SendsEffect
<1>4. CASE AllTried(p)
    BY <1>1, <1>4, AllTriedEffect
<1> QED
    BY <1>2, <1>3, <1>4 DEF NotifyStep, Sends

-----------------------------------------------------------------------------
(* The heartbeat.                                                          *)

Rounds == \A p \in Callers : Round(note[p])

\* The monitor is a caller, and the testers are the others.
LEMMA WhoCalls ==
    /\ Monitor \in Callers /\ Testers \subseteq Callers
    /\ \A p \in Testers : p # Monitor
    /\ \A p \in Callers : p = Monitor \/ p \in Testers
BY CallersAssumption

\* A step that hands a call to p, or takes one from it, and leaves the others.
LEMMA CallIsPut ==
    ASSUME Notes, Rounds, NEW p \in Callers, NEW m \in Note(Keys), Round(m),
           note' = [note EXCEPT ![p] = m]
    PROVE  /\ Notes' /\ Rounds' /\ note'[p] = m
           /\ \A q \in Callers \ {p} : note'[q] = note[q]
<1>1. /\ Notes' /\ note'[p] = m
      /\ \A q \in Callers \ {p} : note'[q] = note[q]
    BY DEF Notes
<1> QED
    BY <1>1 DEF Rounds

\* The loop passes: a heartbeat begins for today.
LEMMA PassStep ==
    ASSUME IInv, Pass
    PROVE  IInv'
<1>1. /\ up /\ beat.at = "idle" /\ visited' = TRUE
      /\ beat' = NoBeat \/ beat' = [at |-> "rows", key |-> "today"]
      /\ UNCHANGED <<note, muted, dbOk, hour, up, meta, history>>
    BY DEF Pass
<1>2. TypeOK'
    BY <1>1 DEF IInv, TypeOK, history, NoBeat, Keys
<1> QED
    BY <1>1, <1>2 DEF IInv, OneMidnight, OwnCalls, MarkStands, Counted, DoneWasTold, OncePerDay, Sending, Today, history, NoBeat, NoKey

\* The call of notify begins under the heartbeat's key.
LEMMA ComposeStep ==
    ASSUME IInv, Compose
    PROVE  IInv'
<1>1. /\ beat.at = "rows" /\ Notes /\ Rounds
      /\ beat.key \in Keys \ {NoKey}
      /\ beat \in [at : {"idle", "rows", "notify", "meta"}, key : Keys]
      /\ UNCHANGED <<muted, dbOk, hour, up, meta, visited, history>>
    BY DEF Compose, IInv, TypeOK, OneMidnight, Notes, Rounds
<1>2. CASE dbOk
    <2> DEFINE m == NewNote(beat.key, "INFO")
    <2>1. /\ m \in Note(Keys) /\ Round(m) /\ m.key = beat.key /\ m.at = "ask"
        BY <1>1, NewNoteIsFine DEF Order
    <2>2. /\ beat' = [beat EXCEPT !.at = "notify"]
          /\ note' = [note EXCEPT ![Monitor] = m]
        BY <1>2 DEF Compose
    <2>3. /\ beat' \in [at : {"idle", "rows", "notify", "meta"}, key : Keys]
          /\ beat'.at = "notify" /\ beat'.key = beat.key
        BY <1>1, <2>2
    <2> HIDE DEF m
    <2>4. /\ Notes' /\ Rounds' /\ note'[Monitor] = m
          /\ \A p \in Testers : note'[p] = note[p]
        BY <1>1, <2>1, <2>2, CallIsPut, WhoCalls
    <2>5. TypeOK'
        BY <1>1, <2>3, <2>4 DEF IInv, TypeOK, Notes, history
    <2>6. OneMidnight' /\ OwnCalls'
        BY <1>1, <2>1, <2>3, <2>4 DEF IInv, OneMidnight, OwnCalls
    <2>7. ~Sending /\ ~(beat'.at = "meta") /\ note'[Monitor].at # "done"
        BY <1>1, <2>1, <2>3, <2>4, NoNoteIsFine DEF IInv, OwnCalls, Sending
    <2>8. MarkStands' /\ Counted'
        BY <1>1, <2>7 DEF IInv, MarkStands, Counted, DoneWasTold, OncePerDay, Today, history
    <2> QED
        BY <2>4, <2>5, <2>6, <2>8 DEF IInv, Rounds
<1>3. CASE ~dbOk
    <2>1. beat' = NoBeat /\ UNCHANGED note
        BY <1>3 DEF Compose
    <2>2. TypeOK'
        BY <1>1, <2>1 DEF IInv, TypeOK, history, NoBeat, Keys
    <2> QED
        BY <1>1, <2>1, <2>2 DEF IInv, OneMidnight, OwnCalls, MarkStands, Counted, DoneWasTold, OncePerDay, Sending, Today, history, NoBeat
<1> QED
    BY <1>2, <1>3 DEF IInv, TypeOK

\* A count goes up by one, as far as it is kept.
LEMMA CountedToIsCount ==
    ASSUME NEW n \in 0..Cap
    PROVE  CountedTo(n) \in 0..Cap /\ CountedTo(n) >= n
           /\ CountedTo(n) <= n + 1
BY DEF CountedTo, Cap

\* Only the monitor's calls are counted.
LEMMA TesterAlerts ==
    ASSUME IInv, NEW p \in Testers, Alerting(p)
    PROVE  IInv'
<1>1. Notes /\ Rounds /\ p \in Callers /\ p # Monitor
      /\ note[p].at # "ask" /\ note[p].key = NoKey
    BY WhoCalls DEF IInv, TypeOK, Notes, Rounds, OwnCalls
<1>2. /\ Notes' /\ Fine(note[p], note'[p])
      /\ \A q \in Callers \ {p} : note'[q] = note[q]
      /\ dbOk' = dbOk /\ muted' = muted /\ note'[p].at \in {"send", "done"}
    BY <1>1, NotifyEffect DEF Alerting, Rounds
<1>3. /\ begun' = begun /\ unasked' = unasked /\ told' = told
      /\ UNCHANGED <<beatVars, lost>>
    BY <1>1 DEF Alerting, Today, IInv, TypeOK
<1>4. Rounds' /\ note'[Monitor] = note[Monitor]
    BY <1>1, <1>2, WhoCalls DEF Rounds, Fine
<1>5. TypeOK'
    BY <1>2, <1>3 DEF IInv, TypeOK, Notes, beatVars
<1>6. OneMidnight' /\ OwnCalls'
    BY <1>1, <1>2, <1>3, <1>4, WhoCalls DEF IInv, OneMidnight, OwnCalls, Fine, beatVars
<1>7. MarkStands' /\ Counted'
    BY <1>2, <1>3, <1>4 DEF IInv, MarkStands, Counted, DoneWasTold, OncePerDay, Sending, Today, beatVars
<1> QED
    BY <1>4, <1>5, <1>6, <1>7 DEF IInv, Rounds

\* The monitor's question and its round: the mark is made by the round it
\* stands for, and a second round of the day is one that could not ask.
LEMMA MonitorAlerts ==
    ASSUME IInv, Alerting(Monitor)
    PROVE  IInv'
<1> DEFINE n == note[Monitor]
           m == note'[Monitor]
           asks == n.at = "ask"
<1>1. Notes /\ Rounds /\ Monitor \in Callers /\ NotifyStep(Monitor)
      /\ UNCHANGED <<beatVars, lost>>
    BY WhoCalls DEF IInv, TypeOK, Notes, Rounds, Alerting
<1>2. /\ Notes' /\ Fine(n, m)
      /\ \A q \in Callers \ {Monitor} : note'[q] = note[q]
      /\ dbOk' = dbOk
      /\ \/ /\ asks
            /\ m.at = IF dbOk /\ n.key \in muted THEN "done" ELSE "send"
            /\ muted' = IF dbOk THEN muted \cup {n.key} ELSE muted
         \/ /\ n.at = "send" /\ m.at \in {"send", "done"}
            /\ muted' = muted
    BY <1>1, NotifyEffect DEF Rounds
<1>3. beat.at = "notify" /\ n.key = beat.key /\ n.key \in Keys \ {NoKey}
      /\ m.key = n.key
    BY <1>2, NoNoteIsFine DEF IInv, OwnCalls, OneMidnight, TypeOK, Fine
<1>4. Rounds'
    BY <1>1, <1>2 DEF Rounds, Fine
<1>5. /\ told' \in BOOLEAN /\ (told => told')
      /\ n.key = "today" /\ n.at = "send" /\ m.at = "done" => told'
    BY DEF Alerting, Today, IInv, TypeOK
<1>6. /\ begun' = IF n.key = "today" /\ asks /\ m.at = "send"
                  THEN CountedTo(begun) ELSE begun
      /\ unasked' = IF n.key = "today" /\ asks /\ m.at = "send" /\ ~dbOk
                    THEN CountedTo(unasked) ELSE unasked
    BY DEF Alerting, Today
<1>7. begun \in 0..Cap /\ unasked \in 0..Cap /\ dbOk \in BOOLEAN
    BY DEF IInv, TypeOK
<1>8. TypeOK'
    <2>1. begun' \in 0..Cap /\ unasked' \in 0..Cap
        BY <1>6, <1>7, CountedToIsCount
    <2>2. muted' \subseteq Keys \ {NoKey}
        BY <1>2, <1>3 DEF IInv, TypeOK
    <2> QED
        BY <1>1, <1>2, <1>5, <2>1, <2>2 DEF IInv, TypeOK, Notes, beatVars
<1>9. /\ beat' = beat /\ visited' = visited /\ meta' = meta /\ lost' = lost
      /\ up' = up
      /\ m.at \in {"send", "done"} /\ n.at \in {"ask", "send"}
    BY <1>1, <1>2 DEF beatVars
<1>10. OneMidnight' /\ OwnCalls'
    <2>1. OneMidnight'
        BY <1>9 DEF IInv, OneMidnight
    <2>2. \A p \in Testers : note'[p] = note[p]
        BY <1>2, WhoCalls
    <2> QED
        BY <1>3, <1>9, <2>1, <2>2 DEF IInv, OwnCalls
<1>11. MarkStands'
    <2>1. ASSUME told \/ lost PROVE told' \/ lost'
        BY <1>5, <1>9, <2>1
    <2>2. ASSUME n.key = "today", n.at = "send"
          PROVE  told' \/ Sending'
        BY <1>3, <1>5, <1>9, <2>2 DEF Sending
    <2>3. ASSUME "today" \in muted' PROVE told' \/ lost' \/ Sending'
        <3>1. CASE "today" \in muted
            BY <2>1, <2>2, <3>1 DEF IInv, MarkStands, Sending
        <3>2. CASE "today" \notin muted
            <4>1. n.key = "today" /\ m.at = "send"
                BY <1>2, <2>3, <3>2
            <4> QED
                BY <1>3, <4>1 DEF Sending
        <3> QED
            BY <3>1, <3>2
    <2>4. ASSUME m.key = "today", m.at = "done" PROVE told' \/ lost'
        <3>1. CASE n.at = "send"
            BY <1>3, <1>5, <2>4, <3>1
        <3>2. CASE asks
            <4>1. "today" \in muted
                BY <1>2, <1>3, <2>4, <3>2
            <4> QED
                BY <2>1, <3>2, <4>1 DEF IInv, MarkStands, Sending
        <3> QED
            BY <1>9, <3>1, <3>2
    <2>5. ASSUME meta' = "today" PROVE told' \/ lost'
        BY <1>9, <2>1, <2>5 DEF IInv, MarkStands, DoneWasTold
    <2> QED
        BY <1>3, <1>9, <2>3, <2>4, <2>5 DEF MarkStands, DoneWasTold, Today
<1>12. Counted'
    <2>1. CASE n.key = "today" /\ asks /\ m.at = "send" /\ dbOk
        <3>1. "today" \notin muted /\ "today" \in muted'
            BY <1>2, <2>1
        <3>2. begun <= unasked /\ begun' <= begun + 1 /\ unasked' = unasked
            BY <1>6, <1>7, <2>1, <3>1, CountedToIsCount DEF IInv, Counted
        <3>3. begun' \in Int
            BY <1>8 DEF TypeOK
        <3> QED
            BY <1>7, <3>1, <3>2, <3>3 DEF Counted, OncePerDay
    <2>2. CASE n.key = "today" /\ asks /\ m.at = "send" /\ ~dbOk
        <3>1. begun' = CountedTo(begun) /\ unasked' = CountedTo(unasked)
              /\ muted' = muted
            BY <1>2, <1>6, <2>2
        <3> QED
            BY <1>7, <3>1 DEF IInv, Counted, OncePerDay, CountedTo, Cap
    <2>3. CASE ~(n.key = "today" /\ asks /\ m.at = "send")
        <3>1. begun' = begun /\ unasked' = unasked
            BY <1>6, <2>3
        <3>2. "today" \notin muted' => "today" \notin muted
            BY <1>2
        <3> QED
            BY <3>1, <3>2 DEF IInv, Counted, OncePerDay
    <2> QED
        BY <1>7, <2>1, <2>2, <2>3
<1> QED
    BY <1>4, <1>8, <1>10, <1>11, <1>12 DEF IInv, Rounds

\* notify has returned: what it was called for is in the history.
LEMMA NotifiedStep ==
    ASSUME IInv, Notified
    PROVE  IInv'
<1>1. /\ beat.at = "notify" /\ note[Monitor].at = "done" /\ Notes /\ Rounds
      /\ note[Monitor].key = beat.key /\ beat.key \in Keys
      /\ beat' = [beat EXCEPT !.at = "meta"]
      /\ note' = [note EXCEPT ![Monitor] = NoNote]
      /\ UNCHANGED <<muted, dbOk, hour, up, meta, visited, history>>
    BY DEF Notified, IInv, OwnCalls, TypeOK, Notes, Rounds
<1>2. beat' = [at |-> "meta", key |-> beat.key]
    BY <1>1 DEF IInv, TypeOK
<1>3. /\ Notes' /\ Rounds' /\ note'[Monitor] = NoNote
      /\ \A p \in Testers : note'[p] = note[p]
    BY <1>1, CallIsPut, NoNoteIsFine, WhoCalls
<1>4. TypeOK'
    BY <1>1, <1>2, <1>3 DEF IInv, TypeOK, Notes, history
<1>5. OneMidnight' /\ OwnCalls'
    BY <1>1, <1>2, <1>3 DEF IInv, OneMidnight, OwnCalls
<1>6. beat.key = "today" => told \/ lost
    BY <1>1 DEF IInv, MarkStands, Today
<1>7. MarkStands' /\ Counted'
    BY <1>1, <1>2, <1>3, <1>6, NoNoteIsFine DEF IInv, MarkStands, Counted, DoneWasTold, OncePerDay, Sending, Today, history
<1> QED
    BY <1>3, <1>4, <1>5, <1>7 DEF IInv, Rounds

\* The day is noted as done, or the database does not take it.
LEMMA SetMetaStep ==
    ASSUME IInv, SetMeta
    PROVE  IInv'
<1>1. /\ beat.at = "meta" /\ beat' = NoBeat
      /\ meta' = beat.key \/ meta' = meta
      /\ UNCHANGED <<note, muted, dbOk, hour, up, visited, history>>
    BY DEF SetMeta
<1>2. TypeOK'
    BY <1>1 DEF IInv, TypeOK, history, NoBeat, Keys
<1> QED
    BY <1>1, <1>2 DEF IInv, OneMidnight, OwnCalls, MarkStands, Counted, DoneWasTold, OncePerDay, Sending, Today, history, NoBeat

\* The monitor dies: a round of today that was under way is recorded as lost.
LEMMA CrashStep ==
    ASSUME IInv, Crash
    PROVE  IInv'
<1>1. /\ Notes /\ Rounds /\ beat' = NoBeat /\ up' = FALSE
      /\ note' = [note EXCEPT ![Monitor] = NoNote]
      /\ UNCHANGED <<muted, dbOk, hour, meta, visited, begun, unasked, told>>
    BY DEF Crash, IInv, TypeOK, Notes, Rounds
<1>2. lost' \in BOOLEAN /\ (lost => lost') /\ (Sending => lost')
    BY DEF Crash, Today, Sending, IInv, TypeOK
<1>3. /\ Notes' /\ Rounds' /\ note'[Monitor] = NoNote
      /\ \A p \in Testers : note'[p] = note[p]
    BY <1>1, CallIsPut, NoNoteIsFine, WhoCalls
<1>4. TypeOK'
    BY <1>1, <1>2, <1>3 DEF IInv, TypeOK, Notes, NoBeat, Keys
<1>5. OneMidnight' /\ OwnCalls'
    BY <1>1, <1>3 DEF IInv, OneMidnight, OwnCalls, NoBeat
<1>6. MarkStands'
    BY <1>1, <1>2, <1>3, NoNoteIsFine DEF IInv, MarkStands, DoneWasTold, Sending, Today, NoBeat
<1>7. Counted'
    BY <1>1 DEF IInv, Counted, OncePerDay
<1> QED
    BY <1>3, <1>4, <1>5, <1>6, <1>7 DEF IInv, Rounds

\* The monitor and the database come and go.
LEMMA PlantSteps ==
    ASSUME IInv, Restart \/ DbToggle
    PROVE  IInv'
<1>1. /\ up' \in BOOLEAN /\ dbOk' \in BOOLEAN /\ (~up' => ~up)
      /\ UNCHANGED <<note, muted, hour, beat, meta, visited, history>>
    BY DEF Restart, DbToggle, beatVars, IInv, TypeOK
<1>2. TypeOK'
    BY <1>1 DEF IInv, TypeOK, history
<1> QED
    BY <1>1, <1>2 DEF IInv, OneMidnight, OwnCalls, MarkStands, Counted, DoneWasTold, OncePerDay, Sending, Today, history

\* A test of the channels begins, without a key, and is over.
LEMMA TesterSteps ==
    ASSUME IInv, NEW p \in Testers, TestAlerts(p) \/ TestOver(p)
    PROVE  IInv'
<1>1. PICK m \in {NewNote(NoKey, "CRITICAL"), NoNote} :
          note' = [note EXCEPT ![p] = m]
    BY DEF TestAlerts, TestOver
<1>2. m \in Note(Keys) /\ Round(m) /\ m.key = NoKey /\ m.at # "ask"
    BY NewNoteIsFine, NoNoteIsFine DEF Keys, Order
<1>3. /\ Notes /\ Rounds /\ p \in Callers /\ p # Monitor
      /\ UNCHANGED <<muted, dbOk, beatVars, history>>
    BY WhoCalls DEF TestAlerts, TestOver, IInv, TypeOK, Notes, Rounds
<1>4. /\ Notes' /\ Rounds' /\ note'[p] = m
      /\ \A q \in Callers \ {p} : note'[q] = note[q]
    BY <1>1, <1>2, <1>3, CallIsPut
<1>5. note'[Monitor] = note[Monitor]
    BY <1>3, <1>4, WhoCalls
<1>6. TypeOK'
    BY <1>3, <1>4 DEF IInv, TypeOK, Notes, beatVars, history
<1>7. OneMidnight' /\ OwnCalls'
    BY <1>2, <1>3, <1>4, <1>5, WhoCalls DEF IInv, OneMidnight, OwnCalls, beatVars
<1>8. MarkStands' /\ Counted'
    BY <1>3, <1>5 DEF IInv, MarkStands, Counted, DoneWasTold, OncePerDay, Sending, Today, beatVars, history
<1> QED
    BY <1>4, <1>6, <1>7, <1>8 DEF IInv, Rounds

\* Hours are counted from midnight to midnight.
LEMMA HourOfDay ==
    ASSUME NEW h \in Nat
    PROVE  h % HoursPerDay \in 0..(HoursPerDay - 1)
BY HourAssumption

\* Today's key becomes yesterday's, and yesterday's is forgotten.
LEMMA DayBeforeIs ==
    /\ DayBefore("today") = "yesterday"
    /\ DayBefore("yesterday") = NoKey /\ DayBefore(NoKey) = NoKey
    /\ \A k \in Keys : DayBefore(k) \in Keys /\ DayBefore(k) # "today"
BY DEF DayBefore, Keys, NoKey

\* An hour ends: at midnight the history begins anew, and no mark, no call and
\* no heartbeat is of the new day.
LEMMA HourStep ==
    ASSUME IInv, Hour
    PROVE  IInv'
<1>1. /\ hour' \in 0..(HoursPerDay - 1) /\ visited' = FALSE
      /\ UNCHANGED <<dbOk, up>>
      /\ beat.at # "idle" => beat.key = "today"
    <2>1. hour + 1 \in Nat
        BY HourAssumption DEF IInv, TypeOK
    <2>2. (hour + 1) % HoursPerDay \in 0..(HoursPerDay - 1)
        BY <2>1, HourOfDay
    <2> QED
        BY <2>2 DEF Hour, IInv, TypeOK, OneMidnight
<1>2. CASE hour' # 0
    <2>1. UNCHANGED <<note, muted, beat, meta, history>>
        BY <1>2 DEF Hour
    <2>2. TypeOK'
        BY <1>1, <2>1 DEF IInv, TypeOK, history
    <2> QED
        BY <1>1, <2>1, <2>2 DEF IInv, OneMidnight, OwnCalls, MarkStands, Counted, DoneWasTold, OncePerDay, Sending, Today, history
<1>3. CASE hour' = 0
    <2>1. /\ meta' = DayBefore(meta)
          /\ muted' = {DayBefore(k) : k \in muted} \ {NoKey}
          /\ beat' = [beat EXCEPT !.key = DayBefore(@)]
          /\ note' = [note EXCEPT ![Monitor].key = DayBefore(@)]
          /\ begun' = 0 /\ unasked' = 0 /\ told' = FALSE /\ lost' = FALSE
        BY <1>3 DEF Hour
    <2>2. /\ beat' \in [at : {"idle", "rows", "notify", "meta"}, key : Keys]
          /\ beat'.at = beat.at /\ beat'.key = DayBefore(beat.key)
        BY <2>1, DayBeforeIs DEF IInv, TypeOK
    <2> DEFINE n == note[Monitor]
               m == [n EXCEPT !.key = DayBefore(@)]
    <2>3. Notes /\ Rounds /\ n \in Note(Keys) /\ Monitor \in Callers
        BY WhoCalls DEF IInv, TypeOK, Notes, Rounds
    <2>4. /\ m \in Note(Keys) /\ m.key = DayBefore(n.key) /\ m.at = n.at
          /\ m.sev = n.sev /\ m.skipped = n.skipped /\ m.todo = n.todo
          /\ m.tried = n.tried /\ m.arrived = n.arrived /\ m.result = n.result
        BY <2>3, DayBeforeIs DEF Note
    <2>5. Round(m)
        BY <2>3, <2>4 DEF Rounds, Round, Eligible
    <2>6. n = NoNote => m = NoNote
        BY DayBeforeIs, NoNoteIsFine DEF NoNote
    <2>7. note' = [note EXCEPT ![Monitor] = m]
        BY <2>1, <2>3 DEF Notes
    <2> HIDE DEF m
    <2>8. /\ Notes' /\ Rounds' /\ note'[Monitor] = m
          /\ \A p \in Testers : note'[p] = note[p]
        BY <2>3, <2>4, <2>5, <2>7, CallIsPut, WhoCalls
    <2>9. muted' \subseteq Keys \ {NoKey} /\ "today" \notin muted'
          /\ meta' \in Keys /\ meta' # "today"
        BY <2>1, DayBeforeIs DEF IInv, TypeOK
    <2>10. TypeOK'
        <3>1. begun' \in 0..Cap /\ unasked' \in 0..Cap
            BY <2>1 DEF Cap
        <3>2. told' \in BOOLEAN /\ lost' \in BOOLEAN /\ visited' \in BOOLEAN
            BY <1>1, <2>1
        <3> QED
            BY <1>1, <2>2, <2>8, <2>9, <3>1, <3>2 DEF IInv, TypeOK, Notes
    <2>11. OneMidnight'
        BY <1>1, <2>2, DayBeforeIs DEF IInv, OneMidnight, NoKey
    <2>12. OwnCalls'
        BY <2>2, <2>4, <2>6, <2>8 DEF IInv, OwnCalls
    <2>13. beat'.key # "today" /\ note'[Monitor].key # "today"
        BY <2>2, <2>3, <2>4, <2>8, DayBeforeIs DEF IInv, TypeOK, Note
    <2>14. MarkStands' /\ Counted'
        BY <2>1, <2>9, <2>13 DEF MarkStands, Counted, DoneWasTold, OncePerDay, Today
    <2> QED
        BY <2>8, <2>10, <2>11, <2>12, <2>14 DEF IInv, Rounds
<1> QED
    BY <1>2, <1>3

-----------------------------------------------------------------------------
(* The theorems.                                                           *)

\* The invariant holds before anything was sent.
LEMMA InitEstablishes == Init => IInv
<1> SUFFICES ASSUME Init PROVE IInv
    OBVIOUS
<1>1. note = [p \in Callers |-> NoNote] /\ muted = {} /\ dbOk = TRUE
    BY DEF Init, NotifyInit
<1>2. \A p \in Callers : note[p] = NoNote
    BY <1>1
<1>3. TypeOK
    <2>1. note \in [Callers -> Note(Keys)]
        BY <1>1, NoNoteIsFine
    <2>2. begun \in 0..Cap /\ unasked \in 0..Cap /\ hour \in 0..(HoursPerDay - 1)
        BY HourAssumption DEF Init, Cap
    <2>3. /\ up \in BOOLEAN /\ visited \in BOOLEAN /\ told \in BOOLEAN
          /\ lost \in BOOLEAN /\ dbOk \in BOOLEAN
        BY <1>1 DEF Init
    <2>4. meta \in Keys /\ muted \subseteq Keys \ {NoKey}
          /\ beat \in [at : {"idle", "rows", "notify", "meta"}, key : Keys]
        BY <1>1 DEF Init, NoBeat, Keys
    <2> QED
        BY <2>1, <2>2, <2>3, <2>4 DEF TypeOK
<1>4. OneMidnight /\ OwnCalls
    BY <1>2, NoNoteIsFine, WhoCalls DEF Init, OneMidnight, OwnCalls, NoBeat
<1>5. MarkStands /\ Counted
    BY <1>1, <1>2, NoNoteIsFine, WhoCalls DEF Init, MarkStands, Counted, DoneWasTold, OncePerDay, Today, NoBeat, NoKey
<1> QED
    BY <1>2, <1>3, <1>4, <1>5, NoNoteIsFine DEF IInv

\* Every step keeps the invariant.
LEMMA NextKeeps == IInv /\ [Next]_vars => IInv'
<1> SUFFICES ASSUME IInv, [Next]_vars PROVE IInv'
    OBVIOUS
<1>1. CASE Beat
    BY <1>1, PassStep, ComposeStep, MonitorAlerts, NotifiedStep, SetMetaStep DEF Beat
<1>2. CASE Crash \/ Restart \/ DbToggle
    BY <1>2, CrashStep, PlantSteps
<1>3. ASSUME NEW p \in Testers, TestAlerts(p) \/ Alerting(p) \/ TestOver(p)
      PROVE  IInv'
    BY <1>3, TesterSteps, TesterAlerts
<1>4. CASE Hour
    BY <1>4, HourStep
<1>5. CASE UNCHANGED vars
    BY <1>5 DEF IInv, TypeOK, OneMidnight, OwnCalls, MarkStands, Counted, DoneWasTold, OncePerDay, Sending, Today, vars, beatVars, history
<1> QED
    BY <1>1, <1>2, <1>3, <1>4, <1>5 DEF Next

\* The inductive invariant holds in every reachable state, for any callers,
\* channels, severities and hours of the day.
THEOREM Invariance == Spec => []IInv
<1> QED
    BY InitEstablishes, NextKeeps, PTL DEF Spec

\* Types, for every value of the constants.
THEOREM TypeCorrect == Spec => []TypeOK
<1>1. IInv => TypeOK
    BY DEF IInv
<1> QED
    BY <1>1, Invariance, PTL

\* A second round of a day's summary is one that could not ask the table.
THEOREM SummaryOncePerDay == Spec => []OncePerDay
<1>1. IInv => OncePerDay
    BY DEF IInv, Counted
<1> QED
    BY <1>1, Invariance, PTL

\* A day that is noted as done was told, or lost in a round that was broken off.
THEOREM DaysDoneWereTold == Spec => []DoneWasTold
<1>1. IInv => DoneWasTold
    BY DEF IInv, MarkStands
<1> QED
    BY <1>1, Invariance, PTL

\* Every channel a round was to ask was asked, whatever the others did.
THEOREM ChannelsAreIndependent == Spec => []ChannelsIndependent
<1>1. IInv => ChannelsIndependent
    BY DEF IInv, Round, Eligible, ChannelsIndependent, Sent
<1> QED
    BY <1>1, Invariance, PTL

\* notify says "true" of a channel only if a copy arrived through it.
THEOREM ResultsAreHonest == Spec => []ResultsHonest
<1>1. IInv => ResultsHonest
    BY DEF IInv, Round, ResultsHonest
<1> QED
    BY <1>1, Invariance, PTL
=============================================================================
