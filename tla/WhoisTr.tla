------------------------------ MODULE WhoisTr ------------------------------
(***************************************************************************)
(* A lookup of a .tr domain over WHOIS (providers/whois_tr.py): one query, *)
(* the lines that arrive before the connection ends, and what parse makes  *)
(* of them.                                                                *)
(*                                                                         *)
(* The registry is external.  It answers with the domain's record, its     *)
(* sections in any order, with "no match", or with a refusal; the record   *)
(* and "no match" repeat the domain's name.  The connection may end early, *)
(* before the first line or in the middle of one too: the protocol has no  *)
(* length and no end mark, and query_raw takes the end of the stream for   *)
(* the end of the answer.                                                  *)
(***************************************************************************)
EXTENDS Lifecycle, Sequences

CONSTANTS Expiries,   \* where the expiration dates of the records lie
          StatusLists,  \* the status words a record may print, in their order
          Texts   \* of names and addresses; "refusal": one with a word of a
                  \* refusal in it, "blocked" say

ASSUME ExpiriesAssumption == Expiries \subseteq {"past", "soon", "far"}
\* Nobody is called "no match found".
ASSUME TextsAssumption == Texts \subseteq {"plain", "refusal"}
ASSUME StatusAssumption ==
    StatusLists \subseteq Seq({"pendingdelete", "redemptionperiod", "other"})

VARIABLES
    truth,    \* registry: what it answers to the query
    left,     \* sections of the record not sent yet
    got,      \* lines received
    conn,     \* "idle", "open", "eof" or "done"
    whole,    \* the answer arrived whole
    outcome   \* what lookup returned or raised

vars == <<truth, left, got, conn, whole, outcome>>

\* name is that of the domain, text that of the contact.
Truth == [kind : {"taken"}, name : Texts, text : Texts, expiry : Expiries,
          statuses : StatusLists]
         \cup [kind : {"free"}, name : Texts] \cup {[kind |-> "refused"]}

Line(kind, val) == [kind |-> kind, val |-> val]
Header(of) == Line("head", of)
Text(t)    == Line("text", t)
Plain      == Text("plain")

SectionNames == {"domain", "contact", "registrar", "status", "ns", "info"}

\* The record as the registry prints it: the domain's name, and a contact that
\* has an organization too.
Section(name) ==
    CASE name = "domain"    -> <<Header(IF truth.name = "refusal" THEN "refusal"
                                        ELSE "domain")>>
      [] name = "contact"   -> <<Header("contact"), Text(truth.text),
                                   Line("org", "contact")>>
      [] name = "registrar" -> <<Header("registrar"), Plain,
                                   Line("org", "registrar")>>
      [] name = "ns"        -> <<Header("ns"), Line("host", "ns1"),
                                   Line("host", "ns2")>>
      [] name = "status"    -> <<Header("status")>>
                               \o [i \in 1..Len(truth.statuses) |->
                                     Text(truth.statuses[i])]
      [] name = "info"      -> <<Header("info"), Line("created", "past"),
                                 Line("expires", truth.expiry)>>

\* A day that loses its last digit comes earlier by less than a month.
Earlier(date) == CASE date = "far"  -> {"far", "soon"}
                   [] date = "soon" -> {"soon", "past"}
                   [] OTHER         -> {date}

\* What is left of a line that is cut: "2027-Jan-05." may become 2027-Jan-0.
Cut(line) ==
    {Plain} \cup
    CASE line.kind \in {"expires", "created"} ->
            {Line(line.kind, d) : d \in Earlier(line.val)
                                        \cup {"none", "impossible"}}
      [] line.kind = "org"     -> {Line("org", "cut"), Line("org", "none")}
      [] line.kind = "host"    -> {Line("host", "cut")}
      [] line.kind = "head"    -> {line, Header("other")}
      [] line.kind = "nomatch" -> {line, Line("nomatch", "plain"), Header("other")}
      [] OTHER                 -> {line}

-----------------------------------------------------------------------------
(* parse                                                                   *)

\* What parse has read so far; broken: parse_date raised ValueError on a day
\* that does not exist.
NothingYet == [section |-> "none", expiry |-> "none", created |-> FALSE,
               registrar |-> "none", hosts |-> {}, statuses |-> {},
               broken |-> FALSE]

\* Mutant: a header that is not known does not end the section.
SectionAfterKnown(s, of) ==
    IF of \in {"registrar", "ns", "status"} THEN of ELSE s.section

\* A header starts a section that is read, or ends the one before.
SectionAfter(s, of) ==
    IF of \in {"registrar", "ns", "status"} THEN of ELSE "none"

\* Mutant: any date is the expiration.
IsExpiryAny(l) == l.kind \in {"expires", "created"}

IsExpiry(l) == l.kind = "expires"

\* One line of the loop; nothing is read after a ValueError.
ReadLine(s, l) ==
    CASE s.broken -> s
      [] ~s.broken /\ l.kind = "head" ->
            [s EXCEPT !.section = SectionAfter(s, l.val)]
      [] ~s.broken /\ l.kind \in {"expires", "created"} /\ l.val = "impossible" ->
            [s EXCEPT !.broken = TRUE]
      [] ~s.broken /\ IsExpiry(l) /\ l.val # "impossible" ->
            [s EXCEPT !.expiry = l.val]
      [] ~s.broken /\ l.kind = "created" /\ ~IsExpiry(l)
                   /\ l.val # "impossible" ->
            [s EXCEPT !.created = l.val # "none"]
      [] ~s.broken /\ l.kind = "org" /\ s.section = "registrar" ->
            [s EXCEPT !.registrar = l.val]
      [] ~s.broken /\ s.section = "status"
                   /\ l.kind \in {"text", "org", "host"} ->
            [s EXCEPT !.statuses = @ \cup {l.val}]
      [] ~s.broken /\ l.kind = "host" /\ s.section = "ns" ->
            [s EXCEPT !.hosts = @ \cup {l.val}]
      [] OTHER -> s

\* The two searches in the whole text, names included.
Refuses(lines) == \E i \in DOMAIN lines : lines[i].val = "refusal"
NoMatchIn(lines) == \E i \in DOMAIN lines : lines[i].kind = "nomatch"

Raise(error) == [raised |-> error, found |-> "nothing"]
Return(found, registrar, hosts) ==
    [raised |-> "none", found |-> found, registrar |-> registrar, hosts |-> hosts]

NoMatch == Return([available |-> TRUE, words |-> {}, expiry |-> "unknown",
                   statuses |-> TRUE], "none", {})

\* Mutant: a date that is not read stays as it is.
ExpiryReadAsIs(date) == date

ExpiryRead(date) == IF date = "none" THEN "unknown" ELSE date

\* Without any status the domain counts as "registered".
Registered(s) ==
    Return([available |-> FALSE,
            words     |-> s.statuses \cap {"pendingdelete", "redemptionperiod"},
            expiry    |-> ExpiryRead(s.expiry),
            statuses  |-> TRUE],
           s.registrar, s.hosts)

Empty(s) ==
    s.expiry = "none" /\ ~s.created /\ s.registrar = "none"
    /\ s.hosts = {} /\ s.statuses = {}

\* Mutant: an answer with no field in it means that nobody has the domain.
UnparsedIsFree == NoMatch

Unparsed == Raise("Inconclusive")

\* The loop over the lines.
ReadAll(lines) ==
    LET read[n \in 0..Len(lines)] ==
            IF n = 0 THEN NothingYet ELSE ReadLine(read[n - 1], lines[n])
    IN  read[Len(lines)]

\* The refusal comes first, then "no match", wherever it stands in the text.
Parse(lines) ==
    LET s == ReadAll(lines) IN
    IF lines = <<>> THEN Raise("Inconclusive")
    ELSE IF Refuses(lines) THEN Raise("RateLimited")
    ELSE IF NoMatchIn(lines) THEN NoMatch
    ELSE IF s.broken THEN Raise("ValueError")
    ELSE IF Empty(s) THEN Unparsed
    ELSE Registered(s)

-----------------------------------------------------------------------------
Init ==
    /\ truth = [kind |-> "refused"]
    /\ left = {} /\ got = <<>> /\ conn = "idle" /\ whole = FALSE
    /\ outcome = Raise("none")

\* The query is sent; the registry knows its answer.
Query ==
    /\ conn \in {"idle", "done"}
    /\ truth' \in Truth
    /\ left' = IF truth'.kind = "taken" THEN SectionNames ELSE {}
    /\ conn' = "open" /\ got' = <<>> /\ whole' = FALSE /\ outcome' = Raise("none")

\* The short answers are one line; that nobody has the domain is said with its
\* name.
Short == CASE truth.kind = "free"    -> <<Line("nomatch", truth.name)>>
           [] truth.kind = "refused" -> <<Header("refusal")>>
           [] OTHER                  -> <<>>

\* The domain's name comes first, the other sections in any order.
Coming == IF "domain" \in left THEN {"domain"} ELSE left

\* recv returns another section.
Receive ==
    /\ conn = "open"
    /\ \E name \in Coming : got' = got \o Section(name) /\ left' = left \ {name}
    /\ UNCHANGED <<truth, conn, whole, outcome>>

\* recv returns nothing after the last line.
End ==
    /\ conn = "open" /\ left = {}
    /\ got' = got \o Short
    /\ conn' = "eof" /\ whole' = TRUE
    /\ UNCHANGED <<truth, left, outcome>>

\* recv returns nothing too early: between two lines, or within one.
EndEarly ==
    /\ conn = "open"
    /\ \E rest \in {Section(name) : name \in Coming}
                   \cup (IF left = {} THEN {Short} ELSE {}) :
          \E n \in 1..Len(rest) :
             got' \in {got \o SubSeq(rest, 1, n - 1)}
                      \cup {got \o Append(SubSeq(rest, 1, n - 1), l)
                              : l \in Cut(rest[n])}
    /\ conn' = "eof"
    /\ UNCHANGED <<truth, left, whole, outcome>>

\* A timeout or a reset at any point: what has arrived is dropped.
ConnectionFails ==
    /\ conn = "open"
    /\ outcome' = Raise("Inconclusive")
    /\ conn' = "done" /\ got' = <<>> /\ left' = {}
    /\ UNCHANGED <<truth, whole>>

Parsed ==
    /\ conn = "eof"
    /\ outcome' = Parse(got)
    /\ conn' = "done" /\ got' = <<>> /\ left' = {}
    /\ UNCHANGED <<truth, whole>>

Next == Query \/ Receive \/ End \/ EndEarly \/ ConnectionFails \/ Parsed

Spec == Init /\ [][Next]_vars

-----------------------------------------------------------------------------
(* Properties.                                                             *)

Answered == conn = "done" /\ outcome.raised = "none"

\* What lookup returns is a LookupResult that classify can take.
TypeOK ==
    /\ truth \in Truth
    /\ left \subseteq SectionNames
    /\ conn \in {"idle", "open", "eof", "done"}
    /\ whole \in BOOLEAN
    /\ outcome.raised \in {"none", "RateLimited", "Inconclusive", "ValueError"}
    /\ Answered => outcome.found \in LookupResult

\* Fail closed: a lookup says that a domain is free only if the registry said
\* so, however much of the answer arrived.
AvailableIsFree ==
    Answered /\ outcome.found.available => truth.kind = "free"

StatusWords == {truth.statuses[i] : i \in DOMAIN truth.statuses}

\* The registry's answer repeats a name or an address that parse takes for a
\* refusal.
RefusalInName ==
    \/ truth.kind \in {"taken", "free"} /\ truth.name = "refusal"
    \/ truth.kind = "taken" /\ truth.text = "refusal"

\* A whole answer whose names have no word of a refusal is read as it was
\* meant: "no match" as free, a refusal as RateLimited, a record with its date,
\* its status words, its name servers and the registrar's name, whatever
\* sections come before and after.  (With such a word in a name the answer is
\* never read, not even "no match": AvailableIsFree still holds of it.)
ClearAnswerRead ==
    conn = "done" /\ whole /\ ~RefusalInName =>
        CASE truth.kind = "free"    -> Answered /\ outcome.found.available
          [] truth.kind = "refused" -> outcome.raised = "RateLimited"
          [] truth.kind = "taken" ->
                /\ Answered
                /\ ~outcome.found.available
                /\ outcome.found.expiry = truth.expiry
                /\ outcome.found.words = StatusWords \ {"other"}
                /\ outcome.registrar = "registrar"
                /\ outcome.hosts = {"ns1", "ns2"}

TruthResult ==
    [available |-> truth.kind = "free",
     words |-> IF truth.kind = "taken" THEN StatusWords \ {"other"} ELSE {},
     expiry |-> IF truth.kind = "taken" THEN truth.expiry ELSE "unknown",
     statuses |-> TRUE]

\* However much of an answer arrives, lookup puts a domain at most one step
\* nearer to being free than it is (a date that lost its last digit), and in a
\* critical state only if it is in that state or nearer.
CutNeverFarOff ==
    Answered =>
        LET seen == Classify(outcome.found)
            is   == Rank[Classify(TruthResult)]
        IN  /\ Rank[seen] <= is + 1
            /\ seen \in CriticalStates => Rank[seen] <= is
=============================================================================
