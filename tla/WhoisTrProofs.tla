--------------------------- MODULE WhoisTrProofs ---------------------------
(***************************************************************************)
(* Proofs about the WHOIS lookup: what parse makes of an answer, for every *)
(* record the registry may print, in every order of its sections, and for  *)
(* every place where the connection may end.                               *)
(***************************************************************************)
EXTENDS WhoisTr, LeastNumber

-----------------------------------------------------------------------------
(* Lines, and what parse has read of them.                                 *)

Kinds == {"head", "text", "nomatch", "org", "host", "created", "expires"}

Words == {"pendingdelete", "redemptionperiod", "other"}

Dates == {"none", "past", "soon", "far"}

Vals == Words \cup Dates \cup
        {"impossible", "plain", "refusal", "cut", "other", "contact",
         "registrar", "status", "ns", "info", "domain", "ns1", "ns2"}

\* Every line an answer can have.
Lines == {l \in [kind : Kinds, val : Vals] :
             l.kind \in {"expires", "created"} => l.val \in Dates \cup {"impossible"}}

\* Everything parse can have read.
Reads == [section : {"none", "registrar", "ns", "status"}, expiry : Dates,
          created : BOOLEAN, registrar : Vals, hosts : SUBSET Vals,
          statuses : SUBSET Vals, broken : BOOLEAN]

\* One line leaves parse with something it can have read.
LEMMA ReadLineType ==
    ASSUME NEW s \in Reads, NEW l \in Lines
    PROVE  /\ ReadLine(s, l) \in Reads
           /\ ReadLine(s, l).statuses \subseteq s.statuses \cup {l.val}
           /\ \/ ReadLine(s, l).expiry = s.expiry
              \/ l.kind = "expires" /\ ReadLine(s, l).expiry = l.val
<1>1. l.kind \in Kinds /\ l.val \in Vals
      /\ (l.kind \in {"expires", "created"} => l.val \in Dates \cup {"impossible"})
  BY DEF Lines
<1>2. (l.val # "none") \in BOOLEAN /\ s.broken \in BOOLEAN
  BY DEF Reads
<1>3. SectionAfter(s, l.val) \in {"none", "registrar", "ns", "status"}
  BY DEF SectionAfter
<1> HIDE DEF SectionAfter, Vals, Kinds, Dates
<1> USE DEF IsExpiry
<1>4. CASE s.broken
  BY <1>2, <1>4 DEF ReadLine
<1>5. CASE ~s.broken /\ l.kind = "head"
  BY <1>3, <1>5 DEF ReadLine, Reads
<1>6. CASE ~s.broken /\ l.kind \in {"expires", "created"} /\ l.val = "impossible"
  BY <1>6 DEF ReadLine, Reads
<1>7. CASE ~s.broken /\ l.kind = "expires" /\ l.val # "impossible"
  BY <1>1, <1>7 DEF ReadLine, Reads
<1>8. CASE ~s.broken /\ l.kind = "created" /\ l.val # "impossible"
  BY <1>1, <1>2, <1>8 DEF ReadLine, Reads
<1>9. CASE ~s.broken /\ l.kind = "org" /\ s.section = "registrar"
  BY <1>1, <1>9 DEF ReadLine, Reads
<1>10. CASE ~s.broken /\ s.section = "status" /\ l.kind \in {"text", "org", "host"}
  BY <1>1, <1>10 DEF ReadLine, Reads
<1>11. CASE ~s.broken /\ l.kind = "host" /\ s.section = "ns"
  BY <1>1, <1>11 DEF ReadLine, Reads
<1>12. CASE ReadLine(s, l) = s
  BY <1>12
<1>13. QED
  BY <1>2, <1>4, <1>5, <1>6, <1>7, <1>8, <1>9, <1>10, <1>11, <1>12
     DEF ReadLine

\* The state of parse after each of the lines.
Loop(lines, f) ==
    /\ f \in [0..Len(lines) -> Reads]
    /\ f[0] = NothingYet
    /\ \A i \in 1..Len(lines) : f[i] = ReadLine(f[i - 1], lines[i])

\* ReadAll is the loop: it begins with nothing and reads line after line.
LEMMA ReadAllLoop ==
    ASSUME NEW lines \in Seq(Lines)
    PROVE  \E f : Loop(lines, f) /\ ReadAll(lines) = f[Len(lines)]
<1> DEFINE n == Len(lines)
           Rec(g) == [i \in 0..n |-> IF i = 0 THEN NothingYet
                                     ELSE ReadLine(g[i - 1], lines[i])]
<1>1. n \in Nat /\ \A i \in 1..n : lines[i] \in Lines
  OBVIOUS
<1>2. NothingYet \in Reads
  BY DEF NothingYet, Reads, Dates, Vals
<1>3. PICK f : Loop(lines, f)
  <2> DEFINE step == [p \in (1..n) \X Reads |-> ReadLine(p[2], lines[p[1]])]
  <2>1. step \in Steps(n, Reads)
    <3>1. ASSUME NEW p \in (1..n) \X Reads
          PROVE  ReadLine(p[2], lines[p[1]]) \in Reads
      <4>1. p[1] \in 1..n /\ p[2] \in Reads
        OBVIOUS
      <4> HIDE DEF n
      <4>2. QED
        BY <1>1, <4>1, ReadLineType, Zenon
    <3>2. QED
      BY <3>1 DEF Steps
  <2>2. PICK f : Takes(f, n, Reads, NothingYet, step)
    <3> HIDE DEF step, n
    <3>1. QED
      BY <1>1, <1>2, <2>1, StepByStep, Zenon
  <2>3. f \in [0..n -> Reads] /\ f[0] = NothingYet
    BY <2>2 DEF Takes
  <2>4. ASSUME NEW i \in 1..n
        PROVE  f[i] = ReadLine(f[i - 1], lines[i])
    <3>1. i - 1 \in 0..n
      OBVIOUS
    <3>2. f[i - 1] \in Reads
      BY <2>3, <3>1
    <3>3. <<i, f[i - 1]>> \in (1..n) \X Reads
      BY <3>2
    <3>4. step[<<i, f[i - 1]>>] = ReadLine(f[i - 1], lines[i])
      BY <3>3
    <3>5. f[i] = step[<<i, f[i - 1]>>]
      BY <2>2 DEF Takes
    <3>6. QED
      BY <3>4, <3>5, Zenon
  <2>5. QED
    BY <2>3, <2>4 DEF Loop
<1>4. f = Rec(f)
  <2>1. \A i \in 0..n : f[i] = IF i = 0 THEN NothingYet
                               ELSE ReadLine(f[i - 1], lines[i])
    <3> SUFFICES ASSUME NEW i \in 0..n
                 PROVE  f[i] = IF i = 0 THEN NothingYet
                               ELSE ReadLine(f[i - 1], lines[i])
      OBVIOUS
    <3>1. CASE i = 0
      BY <1>3, <3>1 DEF Loop
    <3>2. CASE i # 0
      <4>1. i \in 1..n
        BY <1>1, <3>2
      <4>2. QED
        BY <1>3, <3>2, <4>1, Zenon DEF Loop
    <3>3. QED
      BY <3>1, <3>2
  <2>2. f = [i \in 0..n |-> f[i]]
    BY <1>3 DEF Loop
  <2>3. QED
    BY <2>1, <2>2, Zenon
<1> DEFINE g == CHOOSE g : g = Rec(g)
<1>5. ReadAll(lines) = g[n]
  BY DEF ReadAll
<1>6. g = Rec(g)
  <2> HIDE DEF Rec
  <2>1. QED
    BY <1>4, Zenon
<1>7. Loop(lines, g)
  <2> HIDE DEF g
  <2>1. ASSUME NEW i \in 0..n
        PROVE  g[i] = IF i = 0 THEN NothingYet
                      ELSE ReadLine(g[i - 1], lines[i])
    <3>1. g[i] = Rec(g)[i]
      <4> HIDE DEF Rec
      <4>1. QED
        BY <1>6, Zenon
    <3>2. QED
      BY <3>1, Zenon
  <2>2. g[0] = NothingYet
    <3>1. 0 \in 0..n
      BY <1>1
    <3>2. QED
      BY <2>1, <3>1, Zenon
  <2>3. ASSUME NEW i \in 1..n
        PROVE  g[i] = ReadLine(g[i - 1], lines[i])
    <3>1. i \in 0..n /\ i # 0
      OBVIOUS
    <3>2. QED
      BY <2>1, <3>1, Zenon
  <2>4. \A i \in 0..n : g[i] \in Reads
    <3> DEFINE T == {i \in 0..n : g[i] \in Reads}
    <3>1. 0 \in T
      BY <1>1, <1>2, <2>2
    <3>2. ASSUME NEW i \in 0..(n - 1), i \in T
          PROVE  i + 1 \in T
      <4>1. i + 1 \in 1..n /\ (i + 1) - 1 = i /\ i + 1 \in 0..n
        OBVIOUS
      <4>2. g[i + 1] = ReadLine(g[i], lines[i + 1])
        BY <2>3, <4>1
      <4>3. g[i] \in Reads /\ lines[i + 1] \in Lines
        BY <1>1, <3>2, <4>1
      <4>4. g[i + 1] \in Reads
        BY <4>2, <4>3, ReadLineType, Zenon
      <4>5. QED
        BY <4>1, <4>4
    <3>3. \A i \in 0..n : i \in T
      <4> HIDE DEF T, n
      <4>1. \A i \in 0..(n - 1) : i \in T => i + 1 \in T
        BY <3>2, Zenon
      <4>2. QED
        BY <1>1, <3>1, <4>1, InductionUpTo, Zenon
    <3>4. QED
      BY <3>3, Zenon
  <2>5. g \in [0..n -> Reads]
    <3>1. Rec(g) = [i \in 0..n |-> Rec(g)[i]]
      OBVIOUS
    <3>2. g = [i \in 0..n |-> g[i]]
      <4> HIDE DEF Rec
      <4>1. QED
        BY <1>6, <3>1, Zenon
    <3>3. QED
      BY <2>4, <3>2, Zenon
  <2>6. QED
    BY <2>2, <2>3, <2>5 DEF Loop
<1>8. QED
  <2> HIDE DEF g
  <2>1. QED
    BY <1>5, <1>7, Zenon
\* Nothing is read of no lines.
LEMMA ReadNothing == ReadAll(<<>>) = NothingYet
<1>1. <<>> \in Seq(Lines) /\ Len(<<>>) = 0
  OBVIOUS
<1>2. PICK f : Loop(<<>>, f) /\ ReadAll(<<>>) = f[Len(<<>>)]
  BY <1>1, ReadAllLoop, Zenon
<1>3. QED
  BY <1>1, <1>2, Zenon DEF Loop

\* What parse reads is of its type, and the status words are in the lines.
LEMMA ReadAllType ==
    ASSUME NEW lines \in Seq(Lines)
    PROVE  /\ ReadAll(lines) \in Reads
           /\ ReadAll(lines).statuses \subseteq {lines[i].val : i \in 1..Len(lines)}
           /\ \/ ReadAll(lines).expiry = "none"
              \/ \E i \in 1..Len(lines) : lines[i].kind = "expires"
                                         /\ ReadAll(lines).expiry = lines[i].val
<1> DEFINE n == Len(lines)
           W == {lines[i].val : i \in 1..n}
           X == {lines[i].val : i \in {k \in 1..n : lines[k].kind = "expires"}}
<1>1. n \in Nat /\ \A i \in 1..n : lines[i] \in Lines
  OBVIOUS
<1>2. PICK f : Loop(lines, f) /\ ReadAll(lines) = f[n]
  BY ReadAllLoop, Zenon
<1>3. \A i \in 0..n : f[i] \in Reads
  BY <1>2 DEF Loop
<1> DEFINE T == {i \in 0..n : f[i].statuses \subseteq W
                             /\ f[i].expiry \in X \cup {"none"}}
<1>4. 0 \in T
  BY <1>1, <1>2 DEF Loop, NothingYet
<1>5. ASSUME NEW i \in 0..(n - 1), i \in T
      PROVE  i + 1 \in T
  <2>1. i + 1 \in 1..n /\ (i + 1) - 1 = i /\ i + 1 \in 0..n /\ i \in 0..n
    OBVIOUS
  <2>2. f[i + 1] = ReadLine(f[i], lines[i + 1])
    BY <1>2, <2>1, Zenon DEF Loop
  <2>3. lines[i + 1] \in Lines /\ lines[i + 1].val \in W
    BY <1>1, <2>1
  <2>4. lines[i + 1].kind = "expires" => lines[i + 1].val \in X
    BY <2>1
  <2>5. /\ f[i + 1].statuses \subseteq f[i].statuses \cup {lines[i + 1].val}
        /\ \/ f[i + 1].expiry = f[i].expiry
           \/ /\ lines[i + 1].kind = "expires"
              /\ f[i + 1].expiry = lines[i + 1].val
    <3> DEFINE u == f[i]
               l == lines[i + 1]
    <3>1. u \in Reads /\ l \in Lines
      BY <1>3, <2>1, <2>3
    <3> HIDE DEF u, l
    <3>2. /\ ReadLine(u, l).statuses \subseteq u.statuses \cup {l.val}
          /\ \/ ReadLine(u, l).expiry = u.expiry
             \/ l.kind = "expires" /\ ReadLine(u, l).expiry = l.val
      BY <3>1, ReadLineType
    <3>3. QED
      BY <2>2, <3>2, Zenon DEF u, l
  <2>6. f[i].statuses \subseteq W /\ f[i].expiry \in X \cup {"none"}
    BY <1>5
  <2> HIDE DEF W, X
  <2>7. QED
    BY <2>1, <2>3, <2>4, <2>5, <2>6
<1>6. \A i \in 0..n : i \in T
  <2> HIDE DEF T, n
  <2>1. \A i \in 0..(n - 1) : i \in T => i + 1 \in T
    BY <1>5, Zenon
  <2>2. QED
    BY <1>1, <1>4, <2>1, InductionUpTo, Zenon
<1>7. n \in 0..n
  BY <1>1
<1>8. n \in T
  BY <1>6, <1>7, Zenon
<1>9. f[n] \in Reads
  BY <1>3, <1>7, Zenon
<1>10. QED
  BY <1>2, <1>8, <1>9

\* One more line is one more step of the loop.
LEMMA ReadAllAppend ==
    ASSUME NEW lines \in Seq(Lines), NEW l \in Lines
    PROVE  ReadAll(Append(lines, l)) = ReadLine(ReadAll(lines), l)
<1> DEFINE n == Len(lines)
           more == Append(lines, l)
<1>1. /\ n \in Nat /\ more \in Seq(Lines) /\ Len(more) = n + 1
      /\ more[n + 1] = l /\ \A i \in 1..n : more[i] = lines[i]
  OBVIOUS
<1>2. PICK f : Loop(lines, f) /\ ReadAll(lines) = f[n]
  BY ReadAllLoop, Zenon
<1>3. PICK h : Loop(more, h) /\ ReadAll(more) = h[n + 1]
  <2>1. PICK h : Loop(more, h) /\ ReadAll(more) = h[Len(more)]
    <3> HIDE DEF more
    <3>1. QED
      BY <1>1, ReadAllLoop, Zenon
  <2>2. QED
    BY <1>1, <2>1
<1> HIDE DEF more
<1> DEFINE T == {i \in 0..n : h[i] = f[i]}
<1>4. 0 \in T
  BY <1>1, <1>2, <1>3 DEF Loop
<1>5. ASSUME NEW i \in 0..(n - 1), i \in T
      PROVE  i + 1 \in T
  <2>1. /\ i + 1 \in 1..n /\ i + 1 \in 1..(n + 1) /\ i + 1 \in 0..n
        /\ (i + 1) - 1 = i
    BY <1>1
  <2>2. f[i + 1] = ReadLine(f[i], lines[i + 1])
    BY <1>2, <2>1, Zenon DEF Loop
  <2>3. h[i + 1] = ReadLine(h[i], more[i + 1])
    BY <1>1, <1>3, <2>1, Zenon DEF Loop
  <2>4. more[i + 1] = lines[i + 1]
    BY <1>1, <2>1
  <2>5. h[i] = f[i]
    BY <1>5
  <2>6. h[i + 1] = f[i + 1]
    BY <2>2, <2>3, <2>4, <2>5, Zenon
  <2>7. QED
    BY <2>1, <2>6
<1>6. \A i \in 0..n : i \in T
  <2> HIDE DEF T, n
  <2>1. \A i \in 0..(n - 1) : i \in T => i + 1 \in T
    BY <1>5, Zenon
  <2>2. QED
    BY <1>1, <1>4, <2>1, InductionUpTo, Zenon
<1>7. h[n] = f[n]
  <2>1. n \in 0..n
    BY <1>1
  <2>2. QED
    BY <1>6, <2>1, Zenon
<1>8. h[n + 1] = ReadLine(h[n], more[n + 1])
  <2>1. n + 1 \in 1..(n + 1) /\ (n + 1) - 1 = n
    BY <1>1
  <2>2. QED
    BY <1>1, <1>3, <2>1, Zenon DEF Loop
<1>9. ReadAll(more) = ReadLine(ReadAll(lines), l)
  BY <1>1, <1>2, <1>3, <1>7, <1>8, Zenon
<1>10. QED
  BY <1>9 DEF more
-----------------------------------------------------------------------------
(* A section of the record.                                                *)

\* A header only changes the section.
LEMMA ReadHeader ==
    ASSUME NEW s \in Reads, ~s.broken, NEW of
    PROVE  ReadLine(s, Header(of)) = [s EXCEPT !.section = SectionAfter(s, of)]
<1>1. Header(of).kind = "head" /\ Header(of).val = of
  BY DEF Header, Line
<1> HIDE DEF SectionAfter, Header
<1>2. QED
  BY <1>1 DEF ReadLine, IsExpiry

\* Three more lines are three more steps.
LEMMA ReadThree ==
    ASSUME NEW lines \in Seq(Lines), NEW a \in Lines, NEW b \in Lines,
           NEW c \in Lines
    PROVE  ReadAll(lines \o <<a, b, c>>)
             = ReadLine(ReadLine(ReadLine(ReadAll(lines), a), b), c)
<1>1. lines \o <<a, b, c>> = Append(Append(Append(lines, a), b), c)
  OBVIOUS
<1>2. Append(lines, a) \in Seq(Lines) /\ Append(Append(lines, a), b) \in Seq(Lines)
  OBVIOUS
<1>3. QED
  BY <1>1, <1>2, ReadAllAppend, Zenon

\* What the registry says of a record has the values it can have.
LEMMA TruthType ==
    ASSUME truth \in Truth, truth.kind = "taken"
    PROVE  /\ truth.expiry \in {"past", "soon", "far"}
           /\ truth.statuses \in Seq(Words)
           /\ truth.text \in {"plain", "refusal"}
           /\ truth.name \in {"plain", "refusal"}
<1>1. truth.expiry \in Expiries /\ truth.statuses \in StatusLists
      /\ truth.text \in Texts /\ truth.name \in Texts
  BY DEF Truth
<1>2. truth.statuses \in Seq(Words)
  BY <1>1, StatusAssumption, Zenon DEF Words
<1>3. QED
  BY <1>1, <1>2, ExpiriesAssumption, TextsAssumption

\* The lines of the sections are lines.
LEMMA SectionLines ==
    ASSUME truth \in Truth, truth.kind = "taken"
    PROVE  /\ \A of \in {"contact", "registrar", "ns", "status", "info", "other",
                         "domain", "refusal"} : Header(of) \in Lines
           /\ Plain \in Lines /\ Text(truth.text) \in Lines
           /\ Line("org", "contact") \in Lines
           /\ Line("org", "registrar") \in Lines
           /\ Line("host", "ns1") \in Lines /\ Line("host", "ns2") \in Lines
           /\ Line("created", "past") \in Lines
           /\ Line("expires", truth.expiry) \in Lines
           /\ \A w \in Words : Text(w) \in Lines
<1> USE DEF Lines, Line, Kinds, Vals, Dates, Words
<1>1. Plain \in Lines /\ Text(truth.text) \in Lines
  BY TruthType DEF Plain, Text
<1>2. \A of \in {"contact", "registrar", "ns", "status", "info", "other",
                 "domain", "refusal"} : Header(of) \in Lines
  BY DEF Header
<1>3. Line("expires", truth.expiry) \in Lines
  BY TruthType
<1>4. \A w \in Words : Text(w) \in Lines
  BY DEF Text
<1>5. /\ Line("org", "contact") \in Lines
      /\ Line("org", "registrar") \in Lines
      /\ Line("host", "ns1") \in Lines /\ Line("host", "ns2") \in Lines
      /\ Line("created", "past") \in Lines
  OBVIOUS
<1>6. QED
  BY <1>1, <1>2, <1>3, <1>4, <1>5

\* The first line says nothing, whatever the domain's name is.
LEMMA DomainRead ==
    ASSUME truth \in Truth, truth.kind = "taken",
           NEW lines \in Seq(Lines), ~ReadAll(lines).broken
    PROVE  ReadAll(lines \o Section("domain"))
             = [ReadAll(lines) EXCEPT !.section = "none"]
<1>1. PICK of \in {"domain", "refusal"} : Section("domain") = <<Header(of)>>
  BY DEF Section
<1>2. Header(of) \in Lines
  BY SectionLines
<1>3. lines \o <<Header(of)>> = Append(lines, Header(of))
  BY <1>2
<1>4. ReadAll(lines \o Section("domain")) = ReadLine(ReadAll(lines), Header(of))
  BY <1>1, <1>2, <1>3, ReadAllAppend
<1>5. ReadAll(lines) \in Reads
  BY ReadAllType
<1>6. SectionAfter(ReadAll(lines), of) = "none"
  BY DEF SectionAfter
<1>7. QED
  BY <1>4, <1>5, <1>6, ReadHeader

\* The contact's lines say nothing, whatever its name is.
LEMMA ContactRead ==
    ASSUME truth \in Truth, truth.kind = "taken",
           NEW lines \in Seq(Lines), ~ReadAll(lines).broken
    PROVE  ReadAll(lines \o Section("contact"))
             = [ReadAll(lines) EXCEPT !.section = "none"]
<1> DEFINE s == ReadAll(lines)
           t == [s EXCEPT !.section = "none"]
<1>1. s \in Reads /\ ~s.broken
  BY ReadAllType
<1>2. ReadAll(lines \o Section("contact"))
        = ReadLine(ReadLine(ReadLine(s, Header("contact")), Text(truth.text)),
                   Line("org", "contact"))
  <2>1. Section("contact") = <<Header("contact"), Text(truth.text),
                               Line("org", "contact")>>
    BY DEF Section
  <2>2. /\ Header("contact") \in Lines /\ Text(truth.text) \in Lines
        /\ Line("org", "contact") \in Lines
    BY SectionLines
  <2>3. QED
    BY <2>1, <2>2, ReadThree
<1>3. ReadLine(s, Header("contact")) = t
  BY <1>1, ReadHeader DEF SectionAfter
<1>4. t \in Reads /\ ~t.broken /\ t.section = "none"
  BY <1>1 DEF Reads
<1> HIDE DEF t
<1>5. ReadLine(t, Text(truth.text)) = t
  <2>1. Text(truth.text).kind = "text"
    BY DEF Text, Line
  <2>2. QED
    BY <1>4, <2>1 DEF ReadLine, IsExpiry
<1>6. ReadLine(t, Line("org", "contact")) = t
  BY <1>4 DEF ReadLine, IsExpiry, Line
<1>7. QED
  BY <1>2, <1>3, <1>5, <1>6 DEF t

\* The registrar's lines say who it is.
LEMMA RegistrarRead ==
    ASSUME truth \in Truth, truth.kind = "taken",
           NEW lines \in Seq(Lines), ~ReadAll(lines).broken
    PROVE  ReadAll(lines \o Section("registrar"))
             = [ReadAll(lines) EXCEPT !.section = "registrar",
                                      !.registrar = "registrar"]
<1> DEFINE s == ReadAll(lines)
           t == [s EXCEPT !.section = "registrar"]
<1>1. s \in Reads /\ ~s.broken
  BY ReadAllType
<1>2. ReadAll(lines \o Section("registrar"))
        = ReadLine(ReadLine(ReadLine(s, Header("registrar")), Plain),
                   Line("org", "registrar"))
  <2>1. Section("registrar") = <<Header("registrar"), Plain,
                                 Line("org", "registrar")>>
    BY DEF Section
  <2>2. /\ Header("registrar") \in Lines /\ Plain \in Lines
        /\ Line("org", "registrar") \in Lines
    BY SectionLines
  <2>3. QED
    BY <2>1, <2>2, ReadThree
<1>3. ReadLine(s, Header("registrar")) = t
  BY <1>1, ReadHeader DEF SectionAfter
<1>4. t \in Reads /\ ~t.broken /\ t.section = "registrar"
  BY <1>1 DEF Reads
<1>5. [t EXCEPT !.registrar = "registrar"]
        = [s EXCEPT !.section = "registrar", !.registrar = "registrar"]
  BY <1>1 DEF Reads
<1> HIDE DEF t
<1>6. ReadLine(t, Plain) = t
  BY <1>4 DEF ReadLine, IsExpiry, Plain, Text, Line
<1>7. ReadLine(t, Line("org", "registrar")) = [t EXCEPT !.registrar = "registrar"]
  BY <1>4 DEF ReadLine, IsExpiry, Line
<1>8. QED
  BY <1>2, <1>3, <1>5, <1>6, <1>7
\* The name server section names both.
LEMMA ServersRead ==
    ASSUME truth \in Truth, truth.kind = "taken",
           NEW lines \in Seq(Lines), ~ReadAll(lines).broken
    PROVE  ReadAll(lines \o Section("ns"))
             = [ReadAll(lines) EXCEPT !.section = "ns",
                                      !.hosts = @ \cup {"ns1", "ns2"}]
<1> DEFINE s == ReadAll(lines)
           t == [s EXCEPT !.section = "ns"]
           u == [t EXCEPT !.hosts = @ \cup {"ns1"}]
<1>1. s \in Reads /\ ~s.broken
  BY ReadAllType
<1>2. ReadAll(lines \o Section("ns"))
        = ReadLine(ReadLine(ReadLine(s, Header("ns")), Line("host", "ns1")),
                   Line("host", "ns2"))
  <2>1. Section("ns") = <<Header("ns"), Line("host", "ns1"), Line("host", "ns2")>>
    BY DEF Section
  <2>2. /\ Header("ns") \in Lines
        /\ Line("host", "ns1") \in Lines /\ Line("host", "ns2") \in Lines
    BY SectionLines
  <2>3. QED
    BY <2>1, <2>2, ReadThree
<1>3. ReadLine(s, Header("ns")) = t
  BY <1>1, ReadHeader DEF SectionAfter
<1>4. t \in Reads /\ ~t.broken /\ t.section = "ns"
  BY <1>1 DEF Reads
<1>5. u \in Reads /\ ~u.broken /\ u.section = "ns"
  BY <1>4 DEF Reads, Vals
<1>6. [u EXCEPT !.hosts = @ \cup {"ns2"}]
        = [s EXCEPT !.section = "ns", !.hosts = @ \cup {"ns1", "ns2"}]
  BY <1>1 DEF Reads
<1> HIDE DEF t
<1>7. ReadLine(t, Line("host", "ns1")) = u
  BY <1>4 DEF ReadLine, IsExpiry, Line
<1> HIDE DEF u
<1>8. ReadLine(u, Line("host", "ns2")) = [u EXCEPT !.hosts = @ \cup {"ns2"}]
  BY <1>5 DEF ReadLine, Line
<1>9. QED
  BY <1>2, <1>3, <1>6, <1>7, <1>8

\* The dates are read, in whatever section they stand.
LEMMA DatesRead ==
    ASSUME truth \in Truth, truth.kind = "taken",
           NEW lines \in Seq(Lines), ~ReadAll(lines).broken
    PROVE  ReadAll(lines \o Section("info"))
             = [ReadAll(lines) EXCEPT !.section = "none", !.created = TRUE,
                                      !.expiry = truth.expiry]
<1> DEFINE s == ReadAll(lines)
           t == [s EXCEPT !.section = "none"]
           u == [t EXCEPT !.created = TRUE]
<1>1. s \in Reads /\ ~s.broken
  BY ReadAllType
<1>2. ReadAll(lines \o Section("info"))
        = ReadLine(ReadLine(ReadLine(s, Header("info")), Line("created", "past")),
                   Line("expires", truth.expiry))
  <2>1. Section("info") = <<Header("info"), Line("created", "past"),
                            Line("expires", truth.expiry)>>
    BY DEF Section
  <2>2. /\ Header("info") \in Lines /\ Line("created", "past") \in Lines
        /\ Line("expires", truth.expiry) \in Lines
    BY SectionLines
  <2>3. QED
    BY <2>1, <2>2, ReadThree
<1>3. ReadLine(s, Header("info")) = t
  BY <1>1, ReadHeader DEF SectionAfter
<1>4. t \in Reads /\ ~t.broken
  BY <1>1 DEF Reads
<1>5. u \in Reads /\ ~u.broken
  BY <1>4 DEF Reads
<1>6. [u EXCEPT !.expiry = truth.expiry]
        = [s EXCEPT !.section = "none", !.created = TRUE, !.expiry = truth.expiry]
  BY <1>1 DEF Reads
<1>7. truth.expiry # "impossible"
  BY TruthType
<1> HIDE DEF t
<1>8. ReadLine(t, Line("created", "past")) = u
  <2>1. Line("created", "past").kind = "created"
        /\ Line("created", "past").val = "past"
    BY DEF Line
  <2>2. ("past" # "none") = TRUE
    OBVIOUS
  <2>3. ReadLine(t, Line("created", "past"))
          = [t EXCEPT !.created = ("past" # "none")]
    BY <1>4, <2>1 DEF ReadLine, IsExpiry
  <2>4. QED
    BY <2>2, <2>3
<1> HIDE DEF u
<1>9. ReadLine(u, Line("expires", truth.expiry))
        = [u EXCEPT !.expiry = truth.expiry]
  BY <1>5, <1>7 DEF ReadLine, Line, IsExpiry
<1>10. QED
  BY <1>2, <1>3, <1>6, <1>8, <1>9

\* Every word of the status section is read, as many as there are.
LEMMA StatusRead ==
    ASSUME truth \in Truth, truth.kind = "taken",
           NEW lines \in Seq(Lines), ~ReadAll(lines).broken
    PROVE  ReadAll(lines \o Section("status"))
             = [ReadAll(lines) EXCEPT !.section = "status",
                                      !.statuses = @ \cup StatusWords]
<1> DEFINE s == ReadAll(lines)
           st == truth.statuses
           n == Len(st)
           top == Append(lines, Header("status"))
           upto(k) == top \o [i \in 1..k |-> Text(st[i])]
           want(k) == [s EXCEPT !.section = "status",
                                !.statuses = @ \cup {st[i] : i \in 1..k}]
           T == {k \in 0..n : ReadAll(upto(k)) = want(k)}
<1>1. s \in Reads /\ ~s.broken
  BY ReadAllType
<1>2. n \in Nat /\ \A i \in 1..n : st[i] \in Words
  BY TruthType
<1>3. Header("status") \in Lines /\ \A w \in Words : Text(w) \in Lines
  BY SectionLines
<1>4. top \in Seq(Lines)
  BY <1>3
<1>5. ReadAll(top) = [s EXCEPT !.section = "status"]
  BY <1>1, <1>3, ReadAllAppend, ReadHeader DEF SectionAfter
<1> HIDE DEF top
<1>6. 0 \in T
  <2>1. [i \in 1..0 |-> Text(st[i])] = <<>>
    OBVIOUS
  <2>2. upto(0) = top
    BY <1>4, <2>1
  <2>3. want(0) = [s EXCEPT !.section = "status"]
    <3>1. {st[i] : i \in 1..0} = {}
      OBVIOUS
    <3>2. s.statuses \cup {st[i] : i \in 1..0} = s.statuses
      BY <3>1
    <3>3. QED
      BY <1>1, <3>2 DEF Reads
  <2>4. QED
    BY <1>2, <1>5, <2>2, <2>3
<1>7. ASSUME NEW k \in 0..(n - 1), k \in T
      PROVE  k + 1 \in T
  <2>1. k \in Nat /\ k + 1 \in 1..n /\ k + 1 \in 0..n
    BY <1>2
  <2>2. \A i \in 1..(k + 1) : Text(st[i]) \in Lines
    BY <1>2, <1>3, <2>1
  <2>3. upto(k) \in Seq(Lines)
    <3>1. [i \in 1..k |-> Text(st[i])] \in Seq(Lines)
      BY <2>1, <2>2
    <3>2. QED
      BY <1>4, <3>1
  <2>4. upto(k + 1) = Append(upto(k), Text(st[k + 1]))
    <3> DEFINE a == [i \in 1..k |-> Text(st[i])]
               b == [i \in 1..(k + 1) |-> Text(st[i])]
    <3>1. a \in Seq(Lines) /\ b \in Seq(Lines)
      BY <2>1, <2>2
    <3>2. b = Append(a, Text(st[k + 1]))
      BY <2>1, <2>2
    <3>3. top \o Append(a, Text(st[k + 1]))
            = Append(top \o a, Text(st[k + 1]))
      <4> HIDE DEF a
      <4>1. Text(st[k + 1]) \in Lines
        BY <2>1, <2>2
      <4>2. QED
        BY <1>4, <3>1, <4>1
    <3>4. QED
      BY <3>2, <3>3
  <2> DEFINE w == st[k + 1]
             r == want(k)
  <2>5. Text(w) \in Lines /\ w \in Words
    BY <1>2, <2>1, <2>2
  <2>6. ReadAll(upto(k + 1)) = ReadLine(r, Text(w))
    <3>1. ReadAll(upto(k)) = r
      BY <1>7
    <3> HIDE DEF upto, want
    <3>2. QED
      BY <2>3, <2>4, <2>5, <3>1, ReadAllAppend
  <2>7. ~r.broken /\ r.section = "status" /\ r \in Reads
    <3>1. r = ReadAll(upto(k))
      BY <1>7
    <3>2. r \in Reads
      <4> HIDE DEF upto, want
      <4>1. QED
        BY <2>3, <3>1, ReadAllType
    <3>3. ~r.broken /\ r.section = "status"
      BY <1>1 DEF Reads
    <3>4. QED
      BY <3>2, <3>3
  <2>8. ReadLine(r, Text(w)) = [r EXCEPT !.statuses = @ \cup {w}]
    <3> HIDE DEF r, w
    <3>1. QED
      BY <2>7 DEF ReadLine, Text, Line
  <2>9. [r EXCEPT !.statuses = @ \cup {w}] = want(k + 1)
    <3>1. {st[i] : i \in 1..(k + 1)} = {st[i] : i \in 1..k} \cup {w}
      BY <2>1
    <3> DEFINE A == {st[i] : i \in 1..k}
               B == {st[i] : i \in 1..(k + 1)}
    <3>2. r.statuses = s.statuses \cup A
      BY <1>1 DEF Reads
    <3>3. r.statuses \cup {w} = s.statuses \cup B
      BY <3>1, <3>2
    <3>4. [r EXCEPT !.statuses = @ \cup {w}]
            = [s EXCEPT !.section = "status", !.statuses = r.statuses \cup {w}]
      <4> DEFINE q == s.statuses \cup A
                 v == r.statuses \cup {w}
      <4>1. r = [s EXCEPT !.section = "status", !.statuses = q]
        OBVIOUS
      <4> HIDE DEF q, v, r
      <4>2. [r EXCEPT !.statuses = v] = [s EXCEPT !.section = "status", !.statuses = v]
        BY <1>1, <4>1 DEF Reads
      <4>3. QED
        BY <4>2 DEF v
    <3>5. QED
      BY <3>3, <3>4
  <2>10. QED
    BY <2>1, <2>6, <2>8, <2>9
<1>8. \A k \in 0..n : k \in T
  <2> HIDE DEF T, n
  <2>1. \A k \in 0..(n - 1) : k \in T => k + 1 \in T
    BY <1>7, Zenon
  <2>2. QED
    BY <1>2, <1>6, <2>1, InductionUpTo, Zenon
<1>9. ReadAll(upto(n)) = want(n)
  <2>1. n \in 0..n
    BY <1>2
  <2>2. QED
    BY <1>8, <2>1
<1>10. upto(n) = lines \o Section("status")
  <2> DEFINE a == [i \in 1..n |-> Text(st[i])]
  <2>1. a \in Seq(Lines)
    BY <1>2, <1>3
  <2>2. Section("status") = <<Header("status")>> \o a
    BY DEF Section
  <2> HIDE DEF a
  <2>3. Append(lines, Header("status")) \o a = lines \o (<<Header("status")>> \o a)
    BY <1>3, <2>1
  <2>4. QED
    BY <2>2, <2>3 DEF a, top
<1>11. want(n) = [ReadAll(lines) EXCEPT !.section = "status",
                                        !.statuses = @ \cup StatusWords]
  <2>1. {st[i] : i \in 1..n} = StatusWords
    BY <1>2, TruthType DEF StatusWords
  <2>2. QED
    BY <2>1
<1>12. QED
  BY <1>9, <1>10, <1>11
\* A section adds what it says to what has been read, and leaves the rest:
\* neither the sections before it nor those after it make a difference.
LEMMA SectionRead ==
    ASSUME truth \in Truth, truth.kind = "taken", NEW name \in SectionNames,
           NEW lines \in Seq(Lines), ~ReadAll(lines).broken
    PROVE  LET q == ReadAll(lines \o Section(name)) IN
           /\ ~q.broken
           /\ q.expiry = IF name = "info" THEN truth.expiry
                         ELSE ReadAll(lines).expiry
           /\ q.registrar = IF name = "registrar" THEN "registrar"
                            ELSE ReadAll(lines).registrar
           /\ q.hosts = IF name = "ns" THEN ReadAll(lines).hosts \cup {"ns1", "ns2"}
                        ELSE ReadAll(lines).hosts
           /\ q.statuses = IF name = "status"
                           THEN ReadAll(lines).statuses \cup StatusWords
                           ELSE ReadAll(lines).statuses
<1> DEFINE s == ReadAll(lines)
           q == ReadAll(lines \o Section(name))
<1>1. s \in Reads /\ ~s.broken
  BY ReadAllType
<1>2. CASE name = "contact"
  <2>1. q = [s EXCEPT !.section = "none"]
    BY <1>2, ContactRead
  <2> HIDE DEF s
  <2>2. QED
    BY <1>1, <1>2, <2>1 DEF Reads, s
<1>3. CASE name = "registrar"
  <2>1. q = [s EXCEPT !.section = "registrar", !.registrar = "registrar"]
    BY <1>3, RegistrarRead
  <2>2. QED
    BY <1>1, <1>3, <2>1 DEF Reads
<1>4. CASE name = "ns"
  <2>1. q = [s EXCEPT !.section = "ns", !.hosts = @ \cup {"ns1", "ns2"}]
    BY <1>4, ServersRead
  <2>2. QED
    BY <1>1, <1>4, <2>1 DEF Reads
<1>5. CASE name = "info"
  <2>1. q = [s EXCEPT !.section = "none", !.created = TRUE, !.expiry = truth.expiry]
    BY <1>5, DatesRead
  <2>2. QED
    BY <1>1, <1>5, <2>1 DEF Reads
<1>6. CASE name = "status"
  <2>1. q = [s EXCEPT !.section = "status", !.statuses = @ \cup StatusWords]
    BY <1>6, StatusRead
  <2>2. QED
    BY <1>1, <1>6, <2>1 DEF Reads
<1>7. CASE name = "domain"
  <2>1. q = [s EXCEPT !.section = "none"]
    BY <1>7, DomainRead
  <2> HIDE DEF s
  <2>2. QED
    BY <1>1, <1>7, <2>1 DEF Reads, s
<1>8. QED
  BY <1>2, <1>3, <1>4, <1>5, <1>6, <1>7 DEF SectionNames

\* Two answers in a row have a word of a refusal if either of them has.
LEMMA RefusesBoth ==
    ASSUME NEW S, NEW a \in Seq(S), NEW b \in Seq(S)
    PROVE  Refuses(a \o b) <=> Refuses(a) \/ Refuses(b)
<1>1. /\ Len(a) \in Nat /\ Len(b) \in Nat
      /\ DOMAIN a = 1..Len(a) /\ DOMAIN b = 1..Len(b)
      /\ DOMAIN (a \o b) = 1..(Len(a) + Len(b))
  OBVIOUS
<1>2. ASSUME Refuses(a \o b)
      PROVE  Refuses(a) \/ Refuses(b)
  <2>1. PICK i \in 1..(Len(a) + Len(b)) : (a \o b)[i].val = "refusal"
    BY <1>1, <1>2 DEF Refuses
  <2>2. CASE i <= Len(a)
    <3>1. (a \o b)[i] = a[i] /\ i \in 1..Len(a)
      BY <1>1, <2>2
    <3>2. QED
      BY <1>1, <2>1, <3>1 DEF Refuses
  <2>3. CASE i > Len(a)
    <3>1. (a \o b)[i] = b[i - Len(a)] /\ i - Len(a) \in 1..Len(b)
      BY <1>1, <2>3
    <3>2. QED
      BY <1>1, <2>1, <3>1 DEF Refuses
  <2>4. QED
    BY <1>1, <2>2, <2>3
<1>3. ASSUME Refuses(a)
      PROVE  Refuses(a \o b)
  <2>1. PICK i \in 1..Len(a) : a[i].val = "refusal"
    BY <1>1, <1>3 DEF Refuses
  <2>2. (a \o b)[i] = a[i] /\ i \in 1..(Len(a) + Len(b))
    BY <1>1
  <2>3. QED
    BY <1>1, <2>1, <2>2 DEF Refuses
<1>4. ASSUME Refuses(b)
      PROVE  Refuses(a \o b)
  <2>1. PICK i \in 1..Len(b) : b[i].val = "refusal"
    BY <1>1, <1>4 DEF Refuses
  <2>2. (a \o b)[Len(a) + i] = b[i] /\ Len(a) + i \in 1..(Len(a) + Len(b))
    BY <1>1
  <2>3. QED
    BY <1>1, <2>1, <2>2 DEF Refuses
<1>5. QED
  BY <1>2, <1>3, <1>4
\* Only the first line and the contact can have a word of a refusal.
LEMMA SectionRefuses ==
    ASSUME truth \in Truth, truth.kind = "taken", NEW name \in SectionNames
    PROVE  Refuses(Section(name))
             <=> \/ name = "domain" /\ truth.name = "refusal"
                 \/ name = "contact" /\ truth.text = "refusal"
<1>1. CASE name = "domain"
  <2>1. Section(name) = <<Header(IF truth.name = "refusal" THEN "refusal"
                                 ELSE "domain")>>
    BY <1>1 DEF Section
  <2>2. Header(IF truth.name = "refusal" THEN "refusal" ELSE "domain").val
          = IF truth.name = "refusal" THEN "refusal" ELSE "domain"
    BY DEF Header, Line
  <2> HIDE DEF Section, Header
  <2>3. QED
    BY <1>1, <2>1, <2>2 DEF Refuses
<1>2. CASE name = "contact"
  <2>1. Section(name) = <<Header("contact"), Text(truth.text),
                          Line("org", "contact")>>
    BY <1>2 DEF Section
  <2>2. Header("contact").val = "contact" /\ Line("org", "contact").val = "contact"
        /\ Text(truth.text).val = truth.text
    BY DEF Header, Line, Text
  <2> HIDE DEF Section, Header, Line, Text
  <2>3. QED
    BY <1>2, <2>1, <2>2 DEF Refuses
<1>3. CASE name \in {"registrar", "ns", "info"}
  <2>1. PICK a, b, c : /\ Section(name) = <<a, b, c>>
                       /\ a.val # "refusal" /\ b.val # "refusal"
                       /\ c.val # "refusal"
    <3>1. /\ Header(name).val # "refusal" /\ Plain.val # "refusal"
          /\ Line("org", "registrar").val # "refusal"
          /\ Line("host", "ns1").val # "refusal"
          /\ Line("host", "ns2").val # "refusal"
          /\ Line("created", "past").val # "refusal"
          /\ Line("expires", truth.expiry).val # "refusal"
      BY <1>3, TruthType DEF Header, Plain, Text, Line
    <3>2. Section(name) \in
            {<<Header(name), Plain, Line("org", "registrar")>>,
             <<Header(name), Line("host", "ns1"), Line("host", "ns2")>>,
             <<Header(name), Line("created", "past"),
               Line("expires", truth.expiry)>>}
      <4> HIDE DEF Header, Line, Plain
      <4>1. QED
        BY <1>3 DEF Section
    <3>3. QED
      BY <3>1, <3>2
  <2>2. ~Refuses(Section(name))
    BY <2>1 DEF Refuses
  <2>3. QED
    BY <1>3, <2>2
<1>4. CASE name = "status"
  <2> DEFINE st == truth.statuses
             a == [i \in 1..Len(st) |-> Text(st[i])]
  <2>1. Len(st) \in Nat /\ \A i \in 1..Len(st) : st[i] \in Words
    BY TruthType
  <2>2. a \in Seq(Lines)
    BY <2>1, SectionLines
  <2>3. \A i \in DOMAIN a : a[i].val # "refusal"
    BY <2>1 DEF Text, Line, Words
  <2>4. ~Refuses(a)
    <3> HIDE DEF a
    <3>1. QED
      BY <2>3 DEF Refuses
  <2>5. <<Header("status")>> \in Seq(Lines) /\ ~Refuses(<<Header("status")>>)
    <3>1. Header("status") \in Lines
      BY SectionLines
    <3>2. QED
      BY <3>1 DEF Refuses, Header, Line
  <2>6. Section(name) = <<Header("status")>> \o a
    BY <1>4 DEF Section
  <2> HIDE DEF a
  <2>7. ~Refuses(<<Header("status")>> \o a)
    BY <2>2, <2>4, <2>5, RefusesBoth
  <2>8. QED
    BY <1>4, <2>6, <2>7
<1>5. QED
  BY <1>1, <1>2, <1>3, <1>4 DEF SectionNames
-----------------------------------------------------------------------------
(* The inductive invariant.                                                *)

\* A line the registry may have sent, whole or cut: only a domain that is free
\* is said to match nothing, a status word is one of the record's, and a date
\* of expiration is the record's or one less than a month earlier.
Honest(l) ==
    /\ l.kind = "nomatch" => truth.kind = "free"
    /\ l.val \in {"pendingdelete", "redemptionperiod"} =>
          truth.kind = "taken" /\ l.val \in StatusWords
    /\ l.kind = "expires" =>
          /\ truth.kind = "taken"
          /\ l.val \in Earlier(truth.expiry) \cup {"none", "impossible"}

HonestLines == {l \in Lines : Honest(l)}

\* A whole line: its date of expiration is the record's.
SentLines ==
    {l \in HonestLines : l.kind = "expires" => l.val = truth.expiry}

\* Nothing of the answer was cut so far.
Uncut == conn = "open" \/ (conn = "eof" /\ whole)

\* A short answer arrives as one piece.
ShortAnswer ==
    /\ left = {}
    /\ got = IF conn = "open" THEN <<>> ELSE Short

\* What has been read of a record is what it says in the sections that have
\* arrived, in whatever order they did.
ReadSoFar ==
    /\ "domain" \notin left => got # <<>>
    /\ Refuses(got) <=> \/ truth.name = "refusal" /\ "domain" \notin left
                        \/ truth.text = "refusal" /\ "contact" \notin left
    /\ ~ReadAll(got).broken
    /\ ReadAll(got).expiry = IF "info" \in left THEN "none" ELSE truth.expiry
    /\ ReadAll(got).registrar =
          IF "registrar" \in left THEN "none" ELSE "registrar"
    /\ ReadAll(got).hosts = IF "ns" \in left THEN {} ELSE {"ns1", "ns2"}
    /\ ReadAll(got).statuses = IF "status" \in left THEN {} ELSE StatusWords

IInv ==
    /\ TypeOK
    /\ got \in Seq(HonestLines)
    /\ conn = "open" => ~whole
    /\ conn = "eof" /\ whole => left = {}
    /\ Uncut /\ truth.kind # "taken" => ShortAnswer
    /\ Uncut /\ truth.kind = "taken" => ReadSoFar
    /\ AvailableIsFree
    /\ ClearAnswerRead
    /\ CutNeverFarOff

-----------------------------------------------------------------------------
(* What the registry sends is honest.                                      *)

\* The sections of a record are whole lines.
LEMMA SectionSent ==
    ASSUME truth \in Truth, truth.kind = "taken", NEW name \in SectionNames
    PROVE  Section(name) \in Seq(SentLines) /\ Section(name) # <<>>
<1>1. truth.expiry \in Earlier(truth.expiry)
      /\ truth.expiry \notin {"pendingdelete", "redemptionperiod"}
  BY TruthType DEF Earlier
<1>2. /\ \A of \in {"contact", "registrar", "ns", "status", "info", "other",
                    "domain", "refusal"} : Header(of) \in SentLines
      /\ Plain \in SentLines /\ Text(truth.text) \in SentLines
      /\ Line("org", "contact") \in SentLines
      /\ Line("org", "registrar") \in SentLines
      /\ Line("host", "ns1") \in SentLines /\ Line("host", "ns2") \in SentLines
      /\ Line("created", "past") \in SentLines
      /\ Line("expires", truth.expiry) \in SentLines
  <2>1. truth.text \in {"plain", "refusal"}
    BY TruthType
  <2> HIDE DEF Lines, Earlier
  <2>2. QED
    BY <1>1, <2>1, SectionLines
       DEF SentLines, HonestLines, Honest, Header, Plain, Text, Line
<1>3. CASE name = "domain"
  BY <1>2, <1>3 DEF Section
<1>4. CASE name \in {"contact", "registrar", "ns", "info"}
  BY <1>2, <1>4 DEF Section
<1>5. CASE name = "status"
  <2> DEFINE st == truth.statuses
             a == [i \in 1..Len(st) |-> Text(st[i])]
  <2>1. Len(st) \in Nat /\ DOMAIN st = 1..Len(st)
        /\ \A i \in 1..Len(st) : st[i] \in Words
    BY TruthType
  <2>2. ASSUME NEW i \in 1..Len(st)
        PROVE  Text(st[i]) \in SentLines
    <3>1. Text(st[i]) \in Lines
      BY <2>1, SectionLines
    <3>2. st[i] \in StatusWords
      BY <2>1 DEF StatusWords
    <3>3. Text(st[i]).kind = "text" /\ Text(st[i]).val = st[i]
      BY DEF Text, Line
    <3>4. QED
      BY <3>1, <3>2, <3>3 DEF SentLines, HonestLines, Honest
  <2>3. a \in Seq(SentLines)
    BY <2>1, <2>2
  <2>4. Section(name) = <<Header("status")>> \o a
    BY <1>5 DEF Section
  <2> HIDE DEF a
  <2>5. <<Header("status")>> \in Seq(SentLines)
    BY <1>2
  <2>6. <<Header("status")>> \o a \in Seq(SentLines)
        /\ <<Header("status")>> \o a # <<>>
    BY <2>3, <2>5
  <2>7. QED
    BY <2>4, <2>6
<1>6. QED
  BY <1>3, <1>4, <1>5 DEF SectionNames

\* The short answers are whole lines.
LEMMA ShortSent ==
    ASSUME truth \in Truth
    PROVE  Short \in Seq(SentLines)
<1>1. CASE truth.kind = "free"
  <2>1. truth.name \in {"plain", "refusal"}
    <3>1. truth \in [kind : {"free"}, name : Texts]
      BY <1>1 DEF Truth
    <3>2. QED
      BY <3>1, TextsAssumption
  <2>2. Line("nomatch", truth.name) \in SentLines
    BY <1>1, <2>1
       DEF SentLines, HonestLines, Honest, Line, Lines, Kinds, Vals, Dates, Words
  <2>3. QED
    BY <1>1, <2>2 DEF Short
<1>2. CASE truth.kind = "refused"
  <2>1. Header("refusal") \in SentLines
    BY DEF SentLines, HonestLines, Honest, Header, Line, Lines, Kinds, Vals,
           Dates, Words
  <2>2. QED
    BY <1>2, <2>1 DEF Short
<1>3. CASE truth.kind \notin {"free", "refused"}
  BY <1>3 DEF Short
<1>4. QED
  BY <1>1, <1>2, <1>3

\* What is left of a whole line is honest: a line that is cut may lose its
\* date or its name, it does not gain a status word or a "no match".
LEMMA CutHonest ==
    ASSUME NEW line \in SentLines, NEW l \in Cut(line)
    PROVE  l \in HonestLines
<1>1. line \in HonestLines /\ line \in Lines /\ Honest(line)
      /\ (line.kind = "expires" => line.val = truth.expiry)
  BY DEF SentLines, HonestLines
<1>2. line.kind \in Kinds
      /\ (line.kind \in {"expires", "created"} =>
            line.val \in Dates \cup {"impossible"})
  BY <1>1 DEF Lines
<1>3. Plain \in HonestLines /\ Header("other") \in HonestLines
  BY DEF HonestLines, Honest, Plain, Text, Header, Line, Lines, Kinds, Vals,
         Dates, Words
<1>4. CASE line.kind \in {"expires", "created"}
  <2>1. ASSUME NEW d \in Earlier(line.val) \cup {"none", "impossible"}
        PROVE  Line(line.kind, d) \in HonestLines
    <3>1. d \in Dates \cup {"impossible"}
      BY <1>2, <1>4 DEF Earlier, Dates
    <3>2. Line(line.kind, d) \in Lines
      BY <1>4, <3>1 DEF Line, Lines, Kinds, Vals, Dates, Words
    <3>3. Line(line.kind, d).kind = line.kind /\ Line(line.kind, d).val = d
      BY DEF Line
    <3>4. d \notin {"pendingdelete", "redemptionperiod"}
      BY <3>1 DEF Dates
    <3>5. line.kind = "expires" =>
             truth.kind = "taken" /\ d \in Earlier(truth.expiry) \cup {"none", "impossible"}
      BY <1>1 DEF Honest
    <3> HIDE DEF Line, Earlier
    <3>6. Honest(Line(line.kind, d))
      BY <1>4, <3>3, <3>4, <3>5 DEF Honest
    <3>7. QED
      BY <3>2, <3>6 DEF HonestLines
  <2>2. l = Plain \/ \E d \in Earlier(line.val) \cup {"none", "impossible"} :
                        l = Line(line.kind, d)
    <3> HIDE DEF Earlier, Line, Plain
    <3>1. QED
      BY <1>4 DEF Cut
  <2>3. QED
    BY <1>3, <2>1, <2>2
<1>5. CASE line.kind = "org"
  <2>1. Line("org", "cut") \in HonestLines /\ Line("org", "none") \in HonestLines
    BY DEF HonestLines, Honest, Line, Lines, Kinds, Vals, Dates, Words
  <2>2. QED
    BY <1>3, <1>5, <2>1 DEF Cut
<1>6. CASE line.kind = "host"
  <2>1. Line("host", "cut") \in HonestLines
    BY DEF HonestLines, Honest, Line, Lines, Kinds, Vals, Dates, Words
  <2>2. QED
    BY <1>3, <1>6, <2>1 DEF Cut
<1>7. CASE line.kind = "nomatch"
  <2>1. Line("nomatch", "plain") \in HonestLines
    BY <1>1, <1>7
       DEF HonestLines, Honest, Line, Lines, Kinds, Vals, Dates, Words
  <2>2. QED
    BY <1>1, <1>3, <1>7, <2>1 DEF Cut
<1>8. CASE line.kind \in {"head", "text"}
  BY <1>1, <1>3, <1>8 DEF Cut
<1>9. QED
  BY <1>2, <1>4, <1>5, <1>6, <1>7, <1>8 DEF Kinds

\* A whole line is honest.
LEMMA SentAreHonest ==
    ASSUME NEW lines \in Seq(SentLines)
    PROVE  lines \in Seq(HonestLines)
<1>1. SentLines \subseteq HonestLines
  BY DEF SentLines
<1>2. QED
  BY <1>1

\* However much of whole lines arrives, it is honest.
LEMMA PartHonest ==
    ASSUME NEW rest \in Seq(SentLines), NEW n \in 1..Len(rest),
           NEW more \in Seq(HonestLines)
    PROVE  /\ more \o SubSeq(rest, 1, n - 1) \in Seq(HonestLines)
           /\ \A l \in Cut(rest[n]) :
                 more \o Append(SubSeq(rest, 1, n - 1), l) \in Seq(HonestLines)
<1>1. SubSeq(rest, 1, n - 1) \in Seq(HonestLines)
  <2>1. rest \in Seq(HonestLines)
    BY SentAreHonest
  <2>2. QED
    BY <2>1
<1>2. rest[n] \in SentLines
  OBVIOUS
<1>3. ASSUME NEW l \in Cut(rest[n])
      PROVE  more \o Append(SubSeq(rest, 1, n - 1), l) \in Seq(HonestLines)
  <2>1. l \in HonestLines
    BY <1>2, CutHonest
  <2>2. Append(SubSeq(rest, 1, n - 1), l) \in Seq(HonestLines)
    BY <1>1, <2>1
  <2>3. QED
    BY <2>2
<1>4. QED
  BY <1>1, <1>3
-----------------------------------------------------------------------------
(* What parse makes of it.                                                 *)

\* An honest line is a line.
LEMMA HonestIsLines ==
    ASSUME NEW lines \in Seq(HonestLines)
    PROVE  lines \in Seq(Lines) /\ \A i \in 1..Len(lines) : lines[i] \in HonestLines
<1>1. HonestLines \subseteq Lines
  BY DEF HonestLines
<1>2. QED
  BY <1>1

\* The status words that parse finds are the record's.
LEMMA WordsAreTheRecords ==
    ASSUME NEW lines \in Seq(HonestLines),
           NEW w \in ReadAll(lines).statuses,
           w \in {"pendingdelete", "redemptionperiod"}
    PROVE  truth.kind = "taken" /\ w \in StatusWords
<1>1. lines \in Seq(Lines) /\ \A i \in 1..Len(lines) : lines[i] \in HonestLines
  BY HonestIsLines
<1>2. w \in {lines[i].val : i \in 1..Len(lines)}
  BY <1>1, ReadAllType
<1>3. PICK i \in 1..Len(lines) : w = lines[i].val
  BY <1>2
<1>4. Honest(lines[i])
  BY <1>1 DEF HonestLines
<1>5. QED
  BY <1>3, <1>4 DEF Honest

\* A date that parse finds is the record's, or a little earlier.
LEMMA DateIsTheRecords ==
    ASSUME NEW lines \in Seq(HonestLines), ReadAll(lines).expiry # "none"
    PROVE  truth.kind = "taken" /\ ReadAll(lines).expiry \in Earlier(truth.expiry)
<1>1. lines \in Seq(Lines) /\ \A i \in 1..Len(lines) : lines[i] \in HonestLines
  BY HonestIsLines
<1>2. PICK i \in 1..Len(lines) : lines[i].kind = "expires"
                                /\ ReadAll(lines).expiry = lines[i].val
  BY <1>1, ReadAllType
<1>3. Honest(lines[i])
  BY <1>1 DEF HonestLines
<1>4. ReadAll(lines).expiry # "impossible"
  BY <1>1, ReadAllType DEF Reads, Dates
<1>5. QED
  BY <1>2, <1>3, <1>4 DEF Honest

\* What parse returns: an error, "free" of a domain that is free, or a record
\* whose status words are those of the domain and whose date is nearly its own.
LEMMA ParseHonest ==
    ASSUME NEW lines \in Seq(HonestLines), NEW r, r = Parse(lines)
    PROVE  /\ r.raised \in {"none", "RateLimited", "Inconclusive", "ValueError"}
           /\ r.raised = "none" =>
                 /\ r.found \in LookupResult
                 /\ r.found.statuses
                 /\ r.found.available => truth.kind = "free"
                 /\ \A w \in r.found.words : truth.kind = "taken" /\ w \in StatusWords
                 /\ \/ r.found.expiry = "unknown"
                    \/ truth.kind = "taken" /\ r.found.expiry \in Earlier(truth.expiry)
<1> DEFINE s == ReadAll(lines)
<1>1. lines \in Seq(Lines) /\ \A i \in 1..Len(lines) : lines[i] \in HonestLines
  BY HonestIsLines
<1>2. s \in Reads
  BY <1>1, ReadAllType
<1>3. \/ \E e \in {"RateLimited", "Inconclusive", "ValueError"} : r = Raise(e)
      \/ NoMatchIn(lines) /\ r = NoMatch
      \/ r = Registered(s)
  BY DEF Parse, Unparsed
<1>4. CASE \E e \in {"RateLimited", "Inconclusive", "ValueError"} : r = Raise(e)
  BY <1>4 DEF Raise
<1>5. CASE NoMatchIn(lines) /\ r = NoMatch
  <2>1. truth.kind = "free"
    <3>1. PICK i \in 1..Len(lines) : lines[i].kind = "nomatch"
      BY <1>1, <1>5 DEF NoMatchIn
    <3>2. Honest(lines[i])
      BY <1>1 DEF HonestLines
    <3>3. QED
      BY <3>1, <3>2 DEF Honest
  <2>2. r.raised = "none" /\ r.found = [available |-> TRUE, words |-> {},
                                        expiry |-> "unknown", statuses |-> TRUE]
    BY <1>5 DEF NoMatch, Return
  <2>3. r.found \in LookupResult
    BY <2>2 DEF LookupResult
  <2>4. QED
    BY <2>1, <2>2, <2>3
<1>6. CASE r = Registered(s)
  <2> DEFINE ws == s.statuses \cap {"pendingdelete", "redemptionperiod"}
  <2>1. r.raised = "none"
        /\ r.found = [available |-> FALSE, words |-> ws,
                      expiry |-> ExpiryRead(s.expiry), statuses |-> TRUE]
    BY <1>6 DEF Registered, Return
  <2>2. ExpiryRead(s.expiry) \in {"unknown", "past", "soon", "far"}
    BY <1>2 DEF ExpiryRead, Reads, Dates
  <2>3. \A w \in ws : truth.kind = "taken" /\ w \in StatusWords
    BY WordsAreTheRecords
  <2>4. ws \in SUBSET {"pendingdelete", "redemptionperiod"}
    OBVIOUS
  <2>5. \/ ExpiryRead(s.expiry) = "unknown"
        \/ truth.kind = "taken" /\ ExpiryRead(s.expiry) \in Earlier(truth.expiry)
    <3>1. CASE s.expiry = "none"
      BY <3>1 DEF ExpiryRead
    <3>2. CASE s.expiry # "none"
      BY <1>1, <1>2, <3>2, DateIsTheRecords DEF ExpiryRead
    <3>3. QED
      BY <3>1, <3>2
  <2> HIDE DEF ws
  <2>6. r.found \in LookupResult
    BY <2>1, <2>2, <2>4 DEF LookupResult
  <2>7. QED
    BY <2>1, <2>3, <2>5, <2>6
<1>7. QED
  BY <1>3, <1>4, <1>5, <1>6

\* A record that has been read in all its sections is returned as it is,
\* unless it has a word of a refusal in it.
LEMMA ParseRecord ==
    ASSUME truth \in Truth, truth.kind = "taken", got \in Seq(HonestLines),
           ReadSoFar, left = {}, ~RefusalInName, NEW r, r = Parse(got)
    PROVE  /\ r.raised = "none"
           /\ ~r.found.available
           /\ r.found.expiry = truth.expiry
           /\ r.found.words = StatusWords \ {"other"}
           /\ r.registrar = "registrar"
           /\ r.hosts = {"ns1", "ns2"}
<1> DEFINE s == ReadAll(got)
<1>1. /\ got # <<>>
      /\ ~Refuses(got)
      /\ ~s.broken
      /\ s.expiry = truth.expiry
      /\ s.registrar = "registrar"
      /\ s.hosts = {"ns1", "ns2"}
      /\ s.statuses = StatusWords
  BY DEF ReadSoFar, RefusalInName
<1>2. ~NoMatchIn(got)
  <2>1. SUFFICES ASSUME NEW i \in DOMAIN got, got[i].kind = "nomatch"
                 PROVE  FALSE
    BY DEF NoMatchIn
  <2>2. got[i] \in HonestLines
    BY <2>1
  <2>3. QED
    BY <2>1, <2>2 DEF HonestLines, Honest
<1>3. ~Empty(s)
  BY <1>1, TruthType DEF Empty
<1>4. r = Registered(s)
  BY <1>1, <1>2, <1>3 DEF Parse
<1>5. ExpiryRead(s.expiry) = truth.expiry
  BY <1>1, TruthType DEF ExpiryRead
<1>6. StatusWords \subseteq Words
  BY TruthType DEF StatusWords
<1>7. s.statuses \cap {"pendingdelete", "redemptionperiod"} = StatusWords \ {"other"}
  BY <1>1, <1>6 DEF Words
<1> HIDE DEF s
<1>8. QED
  BY <1>1, <1>4, <1>5, <1>7 DEF Registered, Return

\* Fewer status words and a date that is a little earlier, or not there, bring
\* a domain at most one step nearer, and into no critical state.
LEMMA NearerByOne ==
    ASSUME NEW a \in LookupResult, NEW b \in LookupResult,
           ~a.available, ~b.available, a.statuses, b.statuses,
           a.words \subseteq b.words,
           a.expiry = "unknown" \/ a.expiry \in Earlier(b.expiry)
    PROVE  /\ Rank[Classify(a)] <= Rank[Classify(b)] + 1
           /\ Classify(a) \in CriticalStates => Rank[Classify(a)] <= Rank[Classify(b)]
<1>1. a.words \in SUBSET {"pendingdelete", "redemptionperiod"}
      /\ b.words \in SUBSET {"pendingdelete", "redemptionperiod"}
      /\ a.expiry \in {"unknown", "past", "soon", "far"}
      /\ b.expiry \in {"unknown", "past", "soon", "far"}
  BY DEF LookupResult
<1>2. /\ Rank["ACTIVE"] = 1 /\ Rank["EXPIRING"] = 2 /\ Rank["EXPIRED_GRACE"] = 3
      /\ Rank["REDEMPTION"] = 4 /\ Rank["PENDING_DELETE"] = 5
  BY DEF Rank
<1>3. \/ b.words = {} /\ Rank[Classify(b)] \in 1..3
      \/ b.words = {"redemptionperiod"} /\ Rank[Classify(b)] = 4
      \/ "pendingdelete" \in b.words /\ Rank[Classify(b)] = 5
  <2>1. CASE "pendingdelete" \in b.words
    BY <1>2, <2>1 DEF Classify
  <2>2. CASE b.words = {"redemptionperiod"}
    BY <1>2, <2>2 DEF Classify
  <2>3. CASE b.words = {}
    <3>1. Classify(b) \in {"ACTIVE", "EXPIRING", "EXPIRED_GRACE"}
      BY <2>3 DEF Classify
    <3>2. QED
      BY <1>2, <2>3, <3>1
  <2>4. QED
    BY <1>1, <2>1, <2>2, <2>3
<1>4. CASE "pendingdelete" \in a.words
  <2>1. Classify(a) = "PENDING_DELETE"
    BY <1>4 DEF Classify
  <2>2. "pendingdelete" \in b.words
    BY <1>4
  <2>3. Rank[Classify(b)] = 5
    BY <1>3, <2>2
  <2>4. QED
    BY <1>2, <2>1, <2>3
<1>5. CASE a.words = {"redemptionperiod"}
  <2>1. Classify(a) = "REDEMPTION"
    BY <1>5 DEF Classify
  <2>2. b.words # {}
    BY <1>5
  <2>3. Rank[Classify(b)] \in {4, 5}
    BY <1>3, <2>2
  <2>4. QED
    BY <1>2, <2>1, <2>3
<1>6. CASE a.words = {}
  <2>1. Classify(a) \in {"ACTIVE", "EXPIRING", "EXPIRED_GRACE"}
    BY <1>6 DEF Classify
  <2>2. Classify(a) \notin CriticalStates
    BY <2>1 DEF CriticalStates
  <2>3. Rank[Classify(a)] <= Rank[Classify(b)] + 1
    <3>1. CASE b.words # {}
      <4>1. Rank[Classify(b)] \in {4, 5}
        BY <1>3, <3>1
      <4>2. Rank[Classify(a)] \in 1..3
        BY <1>2, <2>1
      <4>3. QED
        BY <4>1, <4>2
    <3>2. CASE b.words = {}
      <4>1. CASE a.expiry = "past"
        <5>1. Classify(a) = "EXPIRED_GRACE"
          BY <1>6, <4>1 DEF Classify
        <5>2. b.expiry \in {"past", "soon"}
          BY <1>1, <4>1 DEF Earlier
        <5>3. Classify(b) \in {"EXPIRED_GRACE", "EXPIRING"}
          BY <3>2, <5>2 DEF Classify
        <5>4. QED
          BY <1>2, <5>1, <5>3
      <4>2. CASE a.expiry # "past"
        <5>1. Classify(a) \in {"ACTIVE", "EXPIRING"}
          BY <1>6, <4>2 DEF Classify
        <5>2. Classify(b) \in {"ACTIVE", "EXPIRING", "EXPIRED_GRACE"}
          BY <3>2 DEF Classify
        <5>3. QED
          BY <1>2, <5>1, <5>2
      <4>3. QED
        BY <4>1, <4>2
    <3>3. QED
      BY <3>1, <3>2
  <2>4. QED
    BY <2>2, <2>3
<1>7. QED
  BY <1>1, <1>4, <1>5, <1>6
-----------------------------------------------------------------------------
(* The steps keep the invariant.                                           *)

\* The registry's answer does not change while it is sent.
LEMMA HonestKept ==
    ASSUME truth' = truth
    PROVE  HonestLines' = HonestLines /\ StatusWords' = StatusWords
<1>1. StatusWords' = StatusWords
  BY DEF StatusWords
<1>2. QED
  BY <1>1 DEF HonestLines, Honest

\* The query: nothing has arrived.
LEMMA QueryKeeps ==
    ASSUME TypeOK, Query
    PROVE  IInv'
<1>1. /\ conn' = "open" /\ ~whole' /\ whole' = FALSE /\ truth' \in Truth
      /\ outcome' = Raise("none") /\ got' = <<>>
      /\ left' = IF truth'.kind = "taken" THEN SectionNames ELSE {}
  BY DEF Query
<1>2. TypeOK'
  <2>1. left' \subseteq SectionNames /\ outcome'.raised = "none"
    BY <1>1 DEF Raise
  <2>2. QED
    BY <1>1, <2>1 DEF TypeOK, Answered
<1>3. got' \in Seq(HonestLines')
  BY <1>1
<1>4. CASE truth'.kind = "taken"
  <2>1. {"domain", "contact", "info", "registrar", "ns", "status"} \subseteq left'
    BY <1>1, <1>4 DEF SectionNames
  <2>2. ReadAll(got') = NothingYet
    BY <1>1, ReadNothing
  <2>3. ~Refuses(got')
    BY <1>1 DEF Refuses
  <2>4. ReadSoFar'
    BY <2>1, <2>2, <2>3 DEF ReadSoFar, NothingYet
  <2>5. QED
    BY <1>1, <1>2, <1>3, <1>4, <2>4
       DEF IInv, AvailableIsFree, ClearAnswerRead, CutNeverFarOff, Answered
<1>5. CASE truth'.kind # "taken"
  <2>1. ShortAnswer'
    BY <1>1, <1>5 DEF ShortAnswer
  <2>2. QED
    BY <1>1, <1>2, <1>3, <1>5, <2>1
       DEF IInv, AvailableIsFree, ClearAnswerRead, CutNeverFarOff, Answered
<1>6. QED
  BY <1>4, <1>5

\* Another section: what it says is read, what was read stays.
LEMMA ReceiveKeeps ==
    ASSUME IInv, Receive
    PROVE  IInv'
<1>1. /\ conn = "open" /\ conn' = "open" /\ ~whole /\ whole' = whole
      /\ truth' = truth /\ outcome' = outcome
  BY DEF Receive, IInv
<1>2. PICK name \in left : got' = got \o Section(name) /\ left' = left \ {name}
  BY DEF Receive, Coming
<1>3. truth \in Truth /\ name \in SectionNames /\ truth.kind = "taken"
  BY <1>1, <1>2 DEF IInv, TypeOK, Uncut, ShortAnswer
<1>4. TypeOK'
  BY <1>1, <1>2 DEF IInv, TypeOK, Answered
<1>5. /\ got \in Seq(HonestLines) /\ Section(name) \in Seq(HonestLines)
      /\ Section(name) # <<>>
  BY <1>3, SectionSent, SentAreHonest DEF IInv
<1>6. got' \in Seq(HonestLines')
  <2>1. HonestLines' = HonestLines
    BY <1>1, HonestKept
  <2>2. got' \in Seq(HonestLines)
    BY <1>2, <1>5
  <2>3. QED
    BY <2>1, <2>2
<1>7. ReadSoFar
  BY <1>1, <1>3 DEF IInv, Uncut
<1>8. ReadSoFar'
  <2>1. got \in Seq(Lines) /\ ~ReadAll(got).broken
    BY <1>5, <1>7, HonestIsLines DEF ReadSoFar
  <2> DEFINE q == ReadAll(got \o Section(name))
  <2>2. ReadAll(got') = q
    BY <1>2
  <2>3. StatusWords' = StatusWords
    BY <1>1, HonestKept
  <2>4. /\ ~q.broken
        /\ q.expiry = IF name = "info" THEN truth.expiry ELSE ReadAll(got).expiry
        /\ q.registrar = IF name = "registrar" THEN "registrar"
                         ELSE ReadAll(got).registrar
        /\ q.hosts = IF name = "ns" THEN ReadAll(got).hosts \cup {"ns1", "ns2"}
                     ELSE ReadAll(got).hosts
        /\ q.statuses = IF name = "status" THEN ReadAll(got).statuses \cup StatusWords
                        ELSE ReadAll(got).statuses
    BY <1>3, <2>1, SectionRead
  <2> HIDE DEF q
  <2>5. got' # <<>>
    BY <1>2, <1>5
  <2>6. Refuses(got') <=> \/ truth.name = "refusal" /\ "domain" \notin left'
                          \/ truth.text = "refusal" /\ "contact" \notin left'
    <3>1. Refuses(got') <=> Refuses(got) \/ Refuses(Section(name))
      BY <1>2, <1>5, RefusesBoth
    <3>2. Refuses(Section(name))
            <=> \/ name = "domain" /\ truth.name = "refusal"
                \/ name = "contact" /\ truth.text = "refusal"
      BY <1>3, SectionRefuses
    <3>3. QED
      BY <1>2, <1>7, <3>1, <3>2 DEF ReadSoFar
  <2>7. ~q.broken
    BY <2>4
  <2>8. q.expiry = IF "info" \in left' THEN "none" ELSE truth.expiry
    BY <1>2, <1>7, <2>4 DEF ReadSoFar
  <2>9. q.registrar = IF "registrar" \in left' THEN "none" ELSE "registrar"
    BY <1>2, <1>7, <2>4 DEF ReadSoFar
  <2>10. q.hosts = IF "ns" \in left' THEN {} ELSE {"ns1", "ns2"}
    BY <1>2, <1>7, <2>4 DEF ReadSoFar
  <2>11. q.statuses = IF "status" \in left' THEN {} ELSE StatusWords
    BY <1>2, <1>7, <2>4 DEF ReadSoFar
  <2>12. QED
    BY <1>1, <2>2, <2>3, <2>5, <2>6, <2>7, <2>8, <2>9, <2>10, <2>11 DEF ReadSoFar
<1>9. QED
  BY <1>1, <1>3, <1>4, <1>6, <1>8
     DEF IInv, AvailableIsFree, ClearAnswerRead, CutNeverFarOff, Answered
\* The end of a whole answer: every section has arrived, or the short answer.
LEMMA EndKeeps ==
    ASSUME IInv, End
    PROVE  IInv'
<1>1. /\ conn = "open" /\ conn' = "eof" /\ left = {} /\ left' = {}
      /\ whole' = TRUE /\ truth' = truth /\ outcome' = outcome
      /\ got' = got \o Short
  BY DEF End
<1>2. TypeOK'
  BY <1>1 DEF IInv, TypeOK, Answered
<1>3. truth \in Truth /\ got \in Seq(HonestLines) /\ Short \in Seq(HonestLines)
  BY ShortSent, SentAreHonest DEF IInv, TypeOK
<1>4. got' \in Seq(HonestLines')
  <2>1. HonestLines' = HonestLines
    BY <1>1, HonestKept
  <2>2. got' \in Seq(HonestLines)
    BY <1>1, <1>3
  <2>3. QED
    BY <2>1, <2>2
<1>5. CASE truth.kind = "taken"
  <2>1. Short = <<>>
    BY <1>5 DEF Short
  <2>2. got' = got
    BY <1>1, <1>3, <2>1
  <2>3. ReadSoFar
    BY <1>1, <1>5 DEF IInv, Uncut
  <2>4. StatusWords' = StatusWords
    BY <1>1, HonestKept
  <2>5. ReadSoFar'
    BY <1>1, <2>2, <2>3, <2>4 DEF ReadSoFar
  <2>6. QED
    BY <1>1, <1>2, <1>4, <1>5, <2>5
       DEF IInv, AvailableIsFree, ClearAnswerRead, CutNeverFarOff, Answered
<1>6. CASE truth.kind # "taken"
  <2>1. got = <<>>
    BY <1>1, <1>6 DEF IInv, Uncut, ShortAnswer
  <2>2. got' = Short /\ Short' = Short
    BY <1>1, <1>3, <2>1 DEF Short
  <2>3. ShortAnswer'
    BY <1>1, <2>2 DEF ShortAnswer
  <2>4. QED
    BY <1>1, <1>2, <1>4, <1>6, <2>3
       DEF IInv, AvailableIsFree, ClearAnswerRead, CutNeverFarOff, Answered
<1>7. QED
  BY <1>5, <1>6

\* The end of an answer that was cut: what has arrived of it is honest.
LEMMA EndEarlyKeeps ==
    ASSUME IInv, EndEarly
    PROVE  IInv'
<1>1. /\ conn = "open" /\ conn' = "eof" /\ ~whole /\ whole' = whole
      /\ truth' = truth /\ outcome' = outcome /\ left' = left
  BY DEF EndEarly, IInv
<1>2. TypeOK'
  BY <1>1 DEF IInv, TypeOK, Answered
<1>3. /\ truth \in Truth /\ left \subseteq SectionNames
      /\ got \in Seq(HonestLines)
      /\ left # {} => truth.kind = "taken"
  BY <1>1 DEF IInv, TypeOK, Uncut, ShortAnswer
<1>4. PICK rest \in {Section(name) : name \in Coming}
                    \cup (IF left = {} THEN {Short} ELSE {}) :
        \E n \in 1..Len(rest) :
           got' \in {got \o SubSeq(rest, 1, n - 1)}
                    \cup {got \o Append(SubSeq(rest, 1, n - 1), l)
                            : l \in Cut(rest[n])}
  BY DEF EndEarly
<1>5. rest \in Seq(SentLines)
  <2>1. CASE \E name \in Coming : rest = Section(name)
    BY <1>3, <2>1, SectionSent DEF Coming
  <2>2. CASE rest = Short
    BY <1>3, <2>2, ShortSent
  <2>3. QED
    BY <1>4, <2>1, <2>2
<1>6. PICK n \in 1..Len(rest) :
        got' \in {got \o SubSeq(rest, 1, n - 1)}
                 \cup {got \o Append(SubSeq(rest, 1, n - 1), l)
                         : l \in Cut(rest[n])}
  BY <1>4
<1>7. got' \in Seq(HonestLines')
  <2>1. HonestLines' = HonestLines
    BY <1>1, HonestKept
  <2>2. \/ got' = got \o SubSeq(rest, 1, n - 1)
        \/ \E l \in Cut(rest[n]) : got' = got \o Append(SubSeq(rest, 1, n - 1), l)
    BY <1>6
  <2>3. got' \in Seq(HonestLines)
    BY <1>3, <1>5, <2>2, PartHonest
  <2>4. QED
    BY <2>1, <2>3
<1>8. QED
  BY <1>1, <1>2, <1>7
     DEF IInv, Uncut, AvailableIsFree, ClearAnswerRead, CutNeverFarOff, Answered

\* A connection that fails answers nothing.
LEMMA FailsKeeps ==
    ASSUME IInv, ConnectionFails
    PROVE  IInv'
<1>1. /\ conn' = "done" /\ ~whole /\ whole' = whole /\ got' = <<>>
      /\ left' = {} /\ truth' = truth /\ outcome' = Raise("Inconclusive")
  BY DEF ConnectionFails, IInv
<1>2. outcome'.raised = "Inconclusive"
  BY <1>1 DEF Raise
<1>3. TypeOK'
  BY <1>1, <1>2 DEF IInv, TypeOK, Answered
<1>4. got' \in Seq(HonestLines')
  BY <1>1
<1>5. QED
  BY <1>1, <1>2, <1>3, <1>4
     DEF IInv, Uncut, AvailableIsFree, ClearAnswerRead, CutNeverFarOff, Answered

\* The answer is parsed.
LEMMA ParsedKeeps ==
    ASSUME IInv, Parsed
    PROVE  IInv'
<1>1. /\ conn = "eof" /\ conn' = "done" /\ whole' = whole /\ got' = <<>>
      /\ left' = {} /\ truth' = truth /\ outcome' = Parse(got)
  BY DEF Parsed
<1>2. truth \in Truth /\ got \in Seq(HonestLines) /\ whole \in BOOLEAN
  BY DEF IInv, TypeOK
<1> DEFINE r == Parse(got)
<1>3. /\ r.raised \in {"none", "RateLimited", "Inconclusive", "ValueError"}
      /\ r.raised = "none" =>
            /\ r.found \in LookupResult
            /\ r.found.statuses
            /\ r.found.available => truth.kind = "free"
            /\ \A w \in r.found.words : truth.kind = "taken" /\ w \in StatusWords
            /\ \/ r.found.expiry = "unknown"
               \/ truth.kind = "taken" /\ r.found.expiry \in Earlier(truth.expiry)
  BY <1>2, ParseHonest
<1>4. StatusWords' = StatusWords
  BY <1>1, HonestKept
<1>5. outcome' = r
  BY <1>1
<1>6. CutNeverFarOff'
  <2> DEFINE ranks == /\ Rank[Classify(r.found)] <= Rank[Classify(TruthResult)] + 1
                      /\ Classify(r.found) \in CriticalStates =>
                            Rank[Classify(r.found)] <= Rank[Classify(TruthResult)]
  <2>1. SUFFICES ASSUME r.raised = "none"
                 PROVE  ranks
    <3>1. TruthResult' = TruthResult
      BY <1>1, <1>4 DEF TruthResult
    <3>2. QED
      BY <1>5, <3>1 DEF CutNeverFarOff, Answered
  <2>2. r.found \in LookupResult /\ r.found.statuses
    BY <1>3, <2>1
  <2>3. TruthResult \in LookupResult
    <3>1. truth.kind = "taken" =>
             /\ StatusWords \ {"other"} \in SUBSET {"pendingdelete", "redemptionperiod"}
             /\ truth.expiry \in {"unknown", "past", "soon", "far"}
      BY <1>2, TruthType DEF StatusWords, Words
    <3>2. (truth.kind = "free") \in BOOLEAN
      OBVIOUS
    <3>3. QED
      BY <3>1, <3>2 DEF TruthResult, LookupResult
  <2>4. /\ Rank["AVAILABLE"] = 6 /\ \A q \in LookupResult : Rank[Classify(q)] \in 0..6
    <3>1. \A q \in LookupResult : Classify(q) \in States
      BY DEF Classify, LookupResult, States, Rank
    <3>2. \A st \in States : Rank[st] \in 0..6
      BY DEF States, Rank
    <3>3. Rank["AVAILABLE"] = 6
      BY DEF Rank
    <3>4. QED
      BY <3>1, <3>2, <3>3
  <2>5. CASE truth.kind = "free"
    <3>1. TruthResult.available
      BY <2>5 DEF TruthResult
    <3>2. Classify(TruthResult) = "AVAILABLE"
      BY <3>1 DEF Classify
    <3> HIDE DEF r
    <3>3. QED
      BY <2>2, <2>4, <3>2
  <2>6. CASE truth.kind # "free"
    <3>1. ~r.found.available /\ ~TruthResult.available /\ TruthResult.statuses
      BY <1>3, <2>1, <2>6 DEF TruthResult
    <3>2. r.found.words \subseteq TruthResult.words
      <4>1. r.found.words \subseteq {"pendingdelete", "redemptionperiod"}
        BY <2>2 DEF LookupResult
      <4>2. \A w \in r.found.words : truth.kind = "taken" /\ w \in StatusWords
        BY <1>3, <2>1
      <4> HIDE DEF r
      <4>3. QED
        BY <4>1, <4>2 DEF TruthResult
    <3>3. r.found.expiry = "unknown" \/ r.found.expiry \in Earlier(TruthResult.expiry)
      <4>1. truth.kind = "taken" => TruthResult.expiry = truth.expiry
        BY DEF TruthResult
      <4>2. QED
        BY <1>3, <2>1, <4>1
    <3> DEFINE a == r.found
               b == TruthResult
    <3>4. a \in LookupResult /\ b \in LookupResult /\ ~a.available /\ ~b.available
          /\ a.statuses /\ b.statuses /\ a.words \subseteq b.words
          /\ (a.expiry = "unknown" \/ a.expiry \in Earlier(b.expiry))
      BY <2>2, <2>3, <3>1, <3>2, <3>3
    <3> HIDE DEF a, b
    <3>5. Rank[Classify(a)] <= Rank[Classify(b)] + 1
          /\ (Classify(a) \in CriticalStates => Rank[Classify(a)] <= Rank[Classify(b)])
      BY <3>4, NearerByOne
    <3>6. QED
      BY <3>5 DEF a, b
  <2>7. QED
    BY <2>5, <2>6
<1>7. ClearAnswerRead'
  <2>1. SUFFICES ASSUME whole, ~RefusalInName
                 PROVE  ClearAnswerRead'
    BY <1>1 DEF ClearAnswerRead, RefusalInName
  <2>2. left = {} /\ Uncut
    BY <1>1, <2>1 DEF IInv, Uncut
  <2>3. CASE truth.kind = "taken"
    <3>1. ReadSoFar
      BY <2>2, <2>3 DEF IInv
    <3>2. /\ r.raised = "none"
          /\ ~r.found.available
          /\ r.found.expiry = truth.expiry
          /\ r.found.words = StatusWords \ {"other"}
          /\ r.registrar = "registrar"
          /\ r.hosts = {"ns1", "ns2"}
      BY <1>2, <2>1, <2>2, <2>3, <3>1, ParseRecord
    <3> HIDE DEF r
    <3>3. QED
      BY <1>1, <1>4, <1>5, <2>3, <3>2 DEF ClearAnswerRead, Answered
  <2>4. CASE truth.kind = "free"
    <3>1. got = <<Line("nomatch", truth.name)>>
      BY <1>1, <2>2, <2>4 DEF IInv, ShortAnswer, Short
    <3>2. truth.name # "refusal"
      BY <2>1, <2>4 DEF RefusalInName
    <3>3. ~Refuses(got) /\ NoMatchIn(got) /\ got # <<>>
      BY <3>1, <3>2 DEF Refuses, NoMatchIn, Line
    <3>4. r = NoMatch
      BY <3>3 DEF Parse
    <3>5. r.raised = "none" /\ r.found.available
      BY <3>4 DEF NoMatch, Return
    <3> HIDE DEF r
    <3>6. QED
      BY <1>1, <1>5, <2>4, <3>5 DEF ClearAnswerRead, Answered
  <2>5. CASE truth.kind = "refused"
    <3>1. got = <<Header("refusal")>>
      BY <1>1, <2>2, <2>5 DEF IInv, ShortAnswer, Short
    <3>2. Refuses(got) /\ got # <<>>
      BY <3>1 DEF Refuses, Header, Line
    <3>3. r.raised = "RateLimited"
      BY <3>2 DEF Parse, Raise
    <3> HIDE DEF r
    <3>4. QED
      BY <1>1, <1>5, <2>5, <3>3 DEF ClearAnswerRead, Answered
  <2>6. QED
    BY <1>2, <2>3, <2>4, <2>5 DEF Truth
<1> HIDE DEF r
<1>8. TypeOK'
  BY <1>1, <1>3, <1>5 DEF IInv, TypeOK, Answered
<1>9. AvailableIsFree'
  BY <1>1, <1>3, <1>5 DEF AvailableIsFree, Answered
<1>10. got' \in Seq(HonestLines')
  BY <1>1
<1>11. QED
  BY <1>1, <1>6, <1>7, <1>8, <1>9, <1>10 DEF IInv, Uncut

\* A step that changes nothing.
LEMMA StutterKeeps ==
    ASSUME IInv, UNCHANGED vars
    PROVE  IInv'
<1>1. /\ truth' = truth /\ left' = left /\ got' = got /\ conn' = conn
      /\ whole' = whole /\ outcome' = outcome
  BY DEF vars
<1>2. HonestLines' = HonestLines /\ StatusWords' = StatusWords
  BY <1>1, HonestKept
<1>3. TypeOK' /\ (got \in Seq(HonestLines))' /\ AvailableIsFree'
  BY <1>1, <1>2 DEF IInv, TypeOK, AvailableIsFree, Answered
<1>4. ClearAnswerRead' /\ CutNeverFarOff'
  BY <1>1, <1>2
     DEF IInv, ClearAnswerRead, RefusalInName, CutNeverFarOff, TruthResult,
         Answered
<1>5. ShortAnswer' <=> ShortAnswer
  BY <1>1 DEF ShortAnswer, Short
<1>6. ReadSoFar' <=> ReadSoFar
  BY <1>1, <1>2 DEF ReadSoFar
<1>7. QED
  BY <1>1, <1>3, <1>4, <1>5, <1>6 DEF IInv, Uncut

-----------------------------------------------------------------------------
(* The theorems.                                                           *)

\* The strengthened invariant holds of every state of every lookup.
THEOREM Invariance == Spec => []IInv
<1>1. Init => IInv
  <2>1. SUFFICES ASSUME Init
                 PROVE  IInv
    OBVIOUS
  <2>2. truth \in Truth
    BY <2>1 DEF Init, Truth
  <2>3. outcome.raised = "none" /\ conn = "idle" /\ left = {} /\ whole = FALSE
        /\ got \in Seq(HonestLines)
    BY <2>1 DEF Init, Raise
  <2>4. TypeOK
    BY <2>2, <2>3 DEF TypeOK, Answered
  <2>5. QED
    BY <2>3, <2>4
       DEF IInv, Uncut, AvailableIsFree, ClearAnswerRead, CutNeverFarOff, Answered
<1>2. IInv /\ [Next]_vars => IInv'
  <2>1. SUFFICES ASSUME IInv, [Next]_vars
                 PROVE  IInv'
    OBVIOUS
  <2>2. CASE Query
    BY <2>1, <2>2, QueryKeeps DEF IInv
  <2>3. CASE Receive
    BY <2>1, <2>3, ReceiveKeeps
  <2>4. CASE End
    BY <2>1, <2>4, EndKeeps
  <2>5. CASE EndEarly
    BY <2>1, <2>5, EndEarlyKeeps
  <2>6. CASE ConnectionFails
    BY <2>1, <2>6, FailsKeeps
  <2>7. CASE Parsed
    BY <2>1, <2>7, ParsedKeeps
  <2>8. CASE UNCHANGED vars
    BY <2>1, <2>8, StutterKeeps
  <2>9. QED
    BY <2>1, <2>2, <2>3, <2>4, <2>5, <2>6, <2>7, <2>8 DEF Next
<1>3. QED
  BY <1>1, <1>2, PTL DEF Spec

\* Every variable keeps its type; in particular a lookup that answers returns
\* a result that classify can take.
THEOREM TypeCorrect == Spec => []TypeOK
<1>1. IInv => TypeOK
  BY DEF IInv
<1>2. QED
  BY <1>1, Invariance, PTL

\* However the registry orders its sections and wherever the connection ends,
\* lookup says that a domain is free only if the registry said so.
THEOREM OnlyFreeIsAvailable == Spec => []AvailableIsFree
<1>1. IInv => AvailableIsFree
  BY DEF IInv
<1>2. QED
  BY <1>1, Invariance, PTL

\* A whole answer without a word of a refusal in its names is read as it was
\* meant, in every order of its sections and with any number of status words.
THEOREM ClearAnswersAreRead == Spec => []ClearAnswerRead
<1>1. IInv => ClearAnswerRead
  BY DEF IInv
<1>2. QED
  BY <1>1, Invariance, PTL

\* Wherever an answer was cut, it puts a domain at most one step nearer to
\* being free than the registry's record has it, and never falsely in a
\* critical state.
THEOREM CutsAreNotFarOff == Spec => []CutNeverFarOff
<1>1. IInv => CutNeverFarOff
  BY DEF IInv
<1>2. QED
  BY <1>1, Invariance, PTL
=============================================================================
