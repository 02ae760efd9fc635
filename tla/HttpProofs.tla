----------------------------- MODULE HttpProofs -----------------------------
(***************************************************************************)
(* What a client accepts is the answer to its first request, for any         *)
(* requests, routes, bodies and chunks.  The last part is about many such    *)
(* clients: the requests of a program.                                       *)
(***************************************************************************)
EXTENDS Http, Requests, SequenceTheorems, TLAPS

ShortAnswer == {a \in Answer : Len(a.body) <= MaxBody}

HttpTypes ==
  /\ mCallbacks \in SUBSET DOMAIN Answers
  /\ toServer \in Seq(Words) /\ toClient \in Seq(Words)
  /\ asked \in Seq([ask : Asks, registered : SUBSET DOMAIN Answers]) /\ answers \in Seq(ShortAnswer)
  /\ server \in {"running", "crashed"}
  /\ client \in {"reading", "accepted", "out_of_range", "future_error"}

(* The words of `head` are the first of s.                                   *)
Leads(head, s) == Len(head) <= Len(s) /\ \A i \in 1..Len(head) : s[i] = head[i]

(* What the client writes of a request before its body.                      *)
HeadOf(ask) == ask.line \o <<NL, "Host">> \o Blank

(* The server has yet to read the first request from its first word on, or   *)
(* it has answered it as the routes say that were registered by then.        *)
FirstIsServed ==
  /\ asked = <<>> => toServer = <<>> /\ answers = <<>>
  /\ asked # <<>> => asked[1].registered \subseteq mCallbacks
  /\ answers = <<>> /\ server = "running" =>
       request = NewRequest /\ (asked # <<>> => Leads(HeadOf(asked[1].ask), toServer))
  /\ answers # <<>> =>
       /\ request.mHeader # <<>> /\ server = "running"
       /\ Routed(asked[1].ask) \in asked[1].registered => answers[1] = Answers[Routed(asked[1].ask)]

(* What is on its way, or read and not used yet, is `head`, and more only if *)
(* there are more answers than one.                                          *)
Comes(head, s, count) == Leads(head, s) /\ (count = 1 => Len(s) = Len(head))

HasHeader(r, a) ==
  /\ r = [mBytes |-> r.mBytes, mStatus |-> a.status, mHeader |-> r.mHeader,
          mContentLength |-> Len(a.body), mBody |-> r.mBody]
  /\ r.mHeader # <<>>

(* What the client promised is the answer.                                   *)
IsPromised(a, count) ==
  /\ promised.mStatus = a.status /\ IsPrefix(a.body, promised.mBody)
  /\ count = 1 => promised.mBody = a.body

(* The client has yet to read the first answer from its first word on, or it *)
(* has its status and length and reads its body, or it has promised it.      *)
FirstIsRead ==
  ~headerSplit =>
    \/ /\ client = "reading" /\ responce = NewResponce
       /\ IF answers = <<>> THEN toClient = <<>> ELSE Comes(ToBytes(answers[1]), toClient, Len(answers))
    \/ /\ client # "out_of_range" /\ answers # <<>>
       /\ HasHeader(responce, answers[1])
       /\ client = "reading" =>
            /\ responce.mBytes \in Seq(Words)
            /\ Comes(answers[1].body, responce.mBytes \o toClient, Len(answers))
       /\ client # "reading" => IsPromised(answers[1], Len(answers))

IInv == HttpTypes /\ FirstIsServed /\ FirstIsRead

(* It is so as long as nothing happens to the client and its answers.        *)
LEMMA ReadingIsKept ==
  ASSUME FirstIsRead, UNCHANGED <<toClient, responce, client, promised, answers, headerSplit>>
  PROVE  FirstIsRead'
<1>1. \A a, count : IsPromised(a, count)' = IsPromised(a, count)
  BY DEF IsPromised
<1>2. QED
  BY <1>1 DEF FirstIsRead

-----------------------------------------------------------------------------
(* Sequences of words by index.                                              *)
IsSlice(t, s, m, n) ==
  t \in Seq(Words) /\ Len(t) = n - m + 1 /\ \A i \in 1..(n - m + 1) : t[i] = s[m + i - 1]
IsJoin(u, s, t) ==
  /\ u \in Seq(Words) /\ Len(u) = Len(s) + Len(t)
  /\ \A i \in 1..Len(s) : u[i] = s[i]
  /\ \A i \in 1..Len(t) : u[Len(s) + i] = t[i]

LEMMA Slices ==
  ASSUME NEW s \in Seq(Words), NEW m \in Nat, NEW n \in Nat, 1 <= m, m <= n + 1, n <= Len(s)
  PROVE  IsSlice(SubSeq(s, m, n), s, m, n)
<1>1. Len(s) \in Nat /\ \A i \in 1..Len(s) : s[i] \in Words
  BY LenProperties, ElementOfSeq
<1>2. m \in Int /\ n \in Int /\ \A i \in m..n : s[i] \in Words
  BY <1>1
<1>3. /\ SubSeq(s, m, n) \in Seq(Words)
      /\ Len(SubSeq(s, m, n)) = IF m <= n THEN n - m + 1 ELSE 0
      /\ \A i \in 1..(n - m + 1) : SubSeq(s, m, n)[i] = s[m + i - 1]
  BY <1>2, SubSeqProperties
<1>4. (IF m <= n THEN n - m + 1 ELSE 0) = n - m + 1
  OBVIOUS
<1>5. QED
  BY <1>3, <1>4 DEF IsSlice

LEMMA Joins == ASSUME NEW s \in Seq(Words), NEW t \in Seq(Words) PROVE IsJoin(s \o t, s, t)
<1>1. PICK u : u = s \o t
  OBVIOUS
<1>2. PICK a, b : a = Len(s) /\ b = Len(t)
  OBVIOUS
<1>3. a \in Nat /\ b \in Nat
  BY <1>2, LenProperties
<1>4. u \in Seq(Words) /\ Len(u) = a + b /\ \A i \in 1..(a + b) : u[i] = IF i <= a THEN s[i] ELSE t[i - a]
  BY <1>1, <1>2, ConcatProperties, Zenon
<1>5. \A i \in 1..a : u[i] = s[i]
  BY <1>3, <1>4
<1>6. \A i \in 1..b : a + i \in 1..(a + b) /\ ~(a + i <= a) /\ (a + i) - a = i
  BY <1>3
<1>7. \A i \in 1..b : u[a + i] = t[i]
  BY <1>4, <1>6
<1>8. QED
  BY <1>1, <1>2, <1>4, <1>5, <1>7 DEF IsJoin

(* Where std::string::find finds a line break, and a blank line.             *)
LEMMA BreaksIn == ASSUME NEW s \in Seq(Words) PROVE Places(<<NL>>, s) = {i \in 1..Len(s) : s[i] = NL}
<1>1. Len(s) \in Nat /\ Len(<<NL>>) = 1 /\ Len(s) + 1 - 1 = Len(s)
  BY LenProperties
<1>2. ASSUME NEW i \in 1..Len(s) PROVE SubSeq(s, i, i + 1 - 1) = <<NL>> <=> s[i] = NL
  <2>1. i \in Nat /\ i + 1 - 1 = i /\ 1 <= i /\ i <= i + 1 /\ i <= Len(s) /\ i - i + 1 = 1
    BY <1>1
  <2>2. PICK t : t = SubSeq(s, i, i)
    OBVIOUS
  <2>3. IsSlice(t, s, i, i)
    BY <2>1, <2>2, Slices
  <2>4. t \in Seq(Words) /\ Len(t) = 1 /\ t[1] = s[i]
    BY <2>1, <2>3 DEF IsSlice
  <2>5. t = <<NL>> <=> t[1] = NL
    BY <2>4
  <2>6. QED
    BY <2>1, <2>2, <2>4, <2>5
<1>3. QED
  BY <1>1, <1>2 DEF Places

LEMMA BlanksIn ==
  ASSUME NEW s \in Seq(Words)
  PROVE  Places(Blank, s) = {i \in 1..(Len(s) - 1) : s[i] = NL /\ s[i + 1] = NL}
<1>1. Len(s) \in Nat /\ Len(Blank) = 2 /\ Len(s) + 1 - 2 = Len(s) - 1
  BY LenProperties DEF Blank
<1>2. ASSUME NEW i \in 1..(Len(s) - 1) PROVE SubSeq(s, i, i + 2 - 1) = Blank <=> s[i] = NL /\ s[i + 1] = NL
  <2>1. /\ i \in Nat /\ i + 1 \in Nat /\ i + 2 - 1 = i + 1 /\ 1 <= i /\ i <= (i + 1) + 1 /\ i + 1 <= Len(s)
        /\ (i + 1) - i + 1 = 2 /\ i + 1 - 1 = i /\ i + 2 - 1 = i + 1
    BY <1>1
  <2>2. PICK t : t = SubSeq(s, i, i + 1)
    OBVIOUS
  <2>3. IsSlice(t, s, i, i + 1)
    BY <2>1, <2>2, Slices
  <2>4. t \in Seq(Words) /\ Len(t) = 2 /\ t[1] = s[i] /\ t[2] = s[i + 1]
    BY <2>1, <2>3 DEF IsSlice
  <2>5. t = Blank <=> t[1] = NL /\ t[2] = NL
    BY <2>4 DEF Blank
  <2>6. QED
    BY <2>1, <2>2, <2>4, <2>5
<1>3. QED
  BY <1>1, <1>2 DEF Places

(* What is before and after the first place p of a mark of n words.          *)
CutAt(mark, n, s, p) ==
  Has(mark, s) /\ Before(mark, s) = SubSeq(s, 1, p - 1) /\ After(mark, s) = SubSeq(s, p + n, Len(s))

LEMMA FirstOf == ASSUME NEW P \in SUBSET Int, NEW p \in P, \A q \in P : p <= q PROVE Min(P) = p
<1>1. \A q \in P : (\A y \in P : q <= y) <=> q = p
  OBVIOUS
<1>2. QED
  BY <1>1 DEF Min

LEMMA BreakCut ==
  ASSUME NEW s \in Seq(Words), NEW p \in 1..Len(s), s[p] = NL, \A q \in 1..(p - 1) : s[q] # NL
  PROVE  CutAt(<<NL>>, 1, s, p)
<1>1. Len(s) \in Nat
  BY LenProperties
<1>2. PICK P : P = Places(<<NL>>, s)
  OBVIOUS
<1>3. P \in SUBSET Int /\ p \in P /\ \A q \in P : p <= q
  BY <1>1, <1>2, BreaksIn
<1>4. Min(P) = p
  BY <1>3, FirstOf
<1>5. P # {} /\ Len(<<NL>>) = 1
  BY <1>3
<1>6. QED
  BY <1>2, <1>4, <1>5 DEF CutAt, Has, Before, After

LEMMA BlankCut ==
  ASSUME NEW s \in Seq(Words), NEW p \in 1..(Len(s) - 1), s[p] = NL, s[p + 1] = NL,
         \A q \in 1..(p - 1) : ~(s[q] = NL /\ s[q + 1] = NL)
  PROVE  CutAt(Blank, 2, s, p)
<1>1. Len(s) \in Nat
  BY LenProperties
<1>2. PICK P : P = Places(Blank, s)
  OBVIOUS
<1>3. P \in SUBSET Int /\ p \in P /\ \A q \in P : p <= q
  BY <1>1, <1>2, BlanksIn
<1>4. Min(P) = p
  BY <1>3, FirstOf
<1>5. P # {} /\ Len(Blank) = 2
  BY <1>3 DEF Blank
<1>6. QED
  BY <1>2, <1>4, <1>5 DEF CutAt, Has, Before, After

-----------------------------------------------------------------------------
(* The client.  An answer by index: eight words, and its body.               *)
HeadWords(t, a) ==
  /\ Len(t) >= 8 /\ t[1] = "HTTP/1.1" /\ t[2] = a.status /\ t[3] = NL /\ t[4] = "Date" /\ t[5] = NL
  /\ t[6] = LengthLine(Len(a.body)) /\ t[7] = NL /\ t[8] = NL
IsAnswer(t, a) ==
  /\ t \in Seq(Words) /\ Len(t) = 8 + Len(a.body) /\ HeadWords(t, a)
  /\ \A i \in 1..Len(a.body) : t[8 + i] = a.body[i]

LEMMA ShortAnswerTypes ==
  ASSUME NEW a \in ShortAnswer
  PROVE  /\ a.status \in Words /\ a.status # NL /\ a.status # "eUninitialized" /\ a.status # "throws"
         /\ a.body \in Seq(Words) /\ Len(a.body) \in 0..MaxBody /\ Len(a.body) \in Nat
         /\ LengthLine(Len(a.body)) \in Words /\ LengthLine(Len(a.body)) # NL
<1>1. a \in Answer /\ Len(a.body) <= MaxBody
  BY DEF ShortAnswer
<1>2. a.status \in Words \ {NL, "eUninitialized", "throws"} /\ a.body \in Seq(Words)
  BY <1>1 DEF Answer
<1>3. Len(a.body) \in Nat
  BY <1>2, LenProperties
<1>4. Len(a.body) \in 0..MaxBody
  BY <1>1, <1>3, HttpAssumption
<1>5. LengthLine(Len(a.body)) \in Words \ {NL, "Date"}
  BY <1>4, LengthAssumption
<1>6. QED
  BY <1>2, <1>3, <1>4, <1>5

LEMMA TwoWords ==
  ASSUME NEW S, NEW x \in S, NEW y \in S
  PROVE  <<x, y>> \in Seq(S) /\ Len(<<x, y>>) = 2 /\ <<x, y>>[1] = x /\ <<x, y>>[2] = y
OBVIOUS

LEMMA BlankIsTwo == Blank \in Seq(Words) /\ Len(Blank) = 2 /\ Blank[1] = NL /\ Blank[2] = NL
<1>1. NL \in Words
  BY HttpAssumption
<1>2. QED
  BY <1>1, TwoWords DEF Blank

LEMMA SixWords ==
  ASSUME NEW S, NEW u \in S, NEW v \in S, NEW w \in S, NEW x \in S, NEW y \in S, NEW z \in S
  PROVE  LET t == <<u, v, w, x, y, z>> IN
         /\ t \in Seq(S) /\ Len(t) = 6
         /\ t[1] = u /\ t[2] = v /\ t[3] = w /\ t[4] = x /\ t[5] = y /\ t[6] = z
OBVIOUS

LEMMA AnswerWords == ASSUME NEW a \in ShortAnswer PROVE IsAnswer(ToBytes(a), a)
<1>1. /\ a.status \in Words /\ a.body \in Seq(Words) /\ Len(a.body) \in Nat
      /\ LengthLine(Len(a.body)) \in Words
  BY ShortAnswerTypes
<1>2. PICK h : h = <<"HTTP/1.1", a.status, NL, "Date", NL, LengthLine(Len(a.body))>>
  OBVIOUS
<1>3. /\ h \in Seq(Words) /\ Len(h) = 6 /\ h[1] = "HTTP/1.1" /\ h[2] = a.status /\ h[3] = NL
      /\ h[4] = "Date" /\ h[5] = NL /\ h[6] = LengthLine(Len(a.body))
  <2>1. "HTTP/1.1" \in Words /\ NL \in Words /\ "Date" \in Words
    BY HttpAssumption
  <2>2. QED
    BY <1>1, <1>2, <2>1, SixWords
<1>4. Blank \in Seq(Words) /\ Len(Blank) = 2 /\ Blank[1] = NL /\ Blank[2] = NL
  BY BlankIsTwo
<1>5. PICK g : g = h \o Blank
  OBVIOUS
<1>6. IsJoin(g, h, Blank)
  BY <1>3, <1>4, <1>5, Joins
<1>7. g \in Seq(Words) /\ Len(g) = 8 /\ (\A i \in 1..6 : g[i] = h[i]) /\ g[6 + 1] = NL /\ g[6 + 2] = NL
  <2>1. 1 \in 1..Len(Blank) /\ 2 \in 1..Len(Blank)
    BY <1>4
  <2>2. QED
    BY <1>3, <1>4, <1>6, <2>1 DEF IsJoin
<1>8. PICK t : t = ToBytes(a)
  OBVIOUS
<1>9. t = g \o a.body
  BY <1>2, <1>5, <1>8 DEF ToBytes
<1>10. IsJoin(t, g, a.body)
  BY <1>1, <1>7, <1>9, Joins
<1>11. /\ t \in Seq(Words) /\ Len(t) = 8 + Len(a.body) /\ (\A i \in 1..8 : t[i] = g[i])
       /\ \A i \in 1..Len(a.body) : t[8 + i] = a.body[i]
  BY <1>7, <1>10 DEF IsJoin
<1>12. HeadWords(t, a)
  BY <1>1, <1>3, <1>7, <1>11, SMTT(40) DEF HeadWords
<1>13. QED
  BY <1>8, <1>11, <1>12 DEF IsAnswer

(* A chunk of an answer that has a blank line has the whole header.          *)
LEMMA HeaderIsThere ==
  ASSUME NEW a \in ShortAnswer, NEW t, IsAnswer(t, a), NEW c \in Seq(Words), Has(Blank, c),
         \A i \in 1..8 : i <= Len(c) => c[i] = t[i]
  PROVE  HeadWords(c, a)
<1>1. Len(c) \in Nat
  BY LenProperties
<1>2. PICK i \in 1..(Len(c) - 1) : c[i] = NL /\ c[i + 1] = NL
  BY BlanksIn DEF Has
<1>3. a.status # NL /\ LengthLine(Len(a.body)) # NL /\ "HTTP/1.1" # NL /\ "Date" # NL
  BY ShortAnswerTypes DEF NL
<1>4. t[1] # NL /\ t[2] # NL /\ t[4] # NL /\ t[6] # NL
  BY <1>3 DEF IsAnswer, HeadWords
<1>5. i \notin 1..6
  <2>1. SUFFICES ASSUME i \in 1..6 PROVE FALSE
    OBVIOUS
  <2>2. c[i] = t[i] /\ c[i + 1] = t[i + 1]
    BY <1>1, <2>1
  <2>3. i = 1 \/ i = 2 \/ i = 3 \/ i = 4 \/ i = 5 \/ i = 6
    BY <2>1
  <2>4. QED
    BY <1>2, <1>4, <2>2, <2>3
<1>6. Len(c) >= 8
  BY <1>1, <1>5
<1>7. /\ c[1] = t[1] /\ c[2] = t[2] /\ c[3] = t[3] /\ c[4] = t[4]
      /\ c[5] = t[5] /\ c[6] = t[6] /\ c[7] = t[7] /\ c[8] = t[8]
  BY <1>1, <1>6
<1>8. QED
  BY <1>6, <1>7 DEF IsAnswer, HeadWords

(* ParseStatus and ParseHeader on a first chunk that has the whole header.   *)
Reading(bytes, status) ==
  [mBytes |-> bytes, mStatus |-> status, mHeader |-> <<>>, mContentLength |-> 0, mBody |-> <<>>]

LEMMA FirstStatus ==
  ASSUME NEW a \in ShortAnswer, NEW c \in Seq(Words), HeadWords(c, a),
         NEW s \in Statuses(Reading(c, "eUninitialized"))
  PROVE  s = Reading(SubSeq(c, 4, Len(c)), a.status)
<1>1. a.status \in Words /\ a.status # NL /\ "HTTP/1.1" # NL /\ "HTTP/1.1" \in Words /\ Len(c) \in Nat
  BY ShortAnswerTypes, LenProperties, HttpAssumption DEF NL
<1>2. Len(c) >= 8 /\ c[1] = "HTTP/1.1" /\ c[2] = a.status /\ c[3] = NL
  BY DEF HeadWords
<1>3. CutAt(<<NL>>, 1, c, 3)
  <2>1. 3 \in 1..Len(c) /\ \A q \in 1..(3 - 1) : q = 1 \/ q = 2
    BY <1>1, <1>2
  <2>2. \A q \in 1..(3 - 1) : c[q] # NL
    BY <1>1, <1>2, <2>1
  <2>3. QED
    BY <1>2, <2>1, <2>2, BreakCut
<1>4. PICK line : line = SubSeq(c, 1, 2)
  OBVIOUS
<1>5. IsSlice(line, c, 1, 2)
  BY <1>1, <1>2, <1>4, Slices
<1>6. Len(line) = 2 /\ line[1] = "HTTP/1.1" /\ line[2] = a.status
  <2>1. 2 - 1 + 1 = 2 /\ 1 + 1 - 1 = 1 /\ 1 + 2 - 1 = 2 /\ 1 \in 1..2 /\ 2 \in 1..2
    OBVIOUS
  <2>2. QED
    BY <1>2, <1>5, <2>1 DEF IsSlice
<1>7. /\ Has(<<NL>>, c) /\ Before(<<NL>>, c) = line /\ After(<<NL>>, c) = SubSeq(c, 4, Len(c))
  <2>1. 3 - 1 = 2 /\ 3 + 1 = 4
    OBVIOUS
  <2>2. QED
    BY <1>3, <1>4, <2>1 DEF CutAt
<1>8. PICK r : r = Reading(c, "eUninitialized")
  OBVIOUS
<1>9. r.mStatus = "eUninitialized" /\ r.mBytes = c
  BY <1>8 DEF Reading
<1>10. Statuses(r) = {[r EXCEPT !.mStatus = a.status, !.mBytes = SubSeq(c, 4, Len(c))]}
  <2>1. PICK found : found = IF Len(line) = 2 /\ line[1] = "HTTP/1.1" THEN {line[2]} ELSE {"other", "throws"}
    OBVIOUS
  <2>2. found = {a.status}
    BY <1>6, <2>1
  <2>3. Statuses(r) = {[r EXCEPT !.mStatus = x, !.mBytes = SubSeq(c, 4, Len(c))] : x \in found}
    BY <1>7, <1>9, <2>1, Zenon DEF Statuses
  <2>4. QED
    BY <2>2, <2>3
<1>11. QED
  BY <1>8, <1>10 DEF Reading

LEMMA FirstHeader ==
  ASSUME NEW a \in ShortAnswer, NEW c \in Seq(Words), HeadWords(c, a),
         NEW p, p = ParseHeader(Reading(SubSeq(c, 4, Len(c)), a.status))
  PROVE  HasHeader(p, a) /\ IsSlice(p.mBytes, c, 9, Len(c))
<1>1. /\ Len(c) \in Nat /\ LengthLine(Len(a.body)) # NL /\ "Date" # NL /\ Len(a.body) \in 0..MaxBody
  BY ShortAnswerTypes, LenProperties DEF NL
<1>2. /\ Len(c) >= 8 /\ c[4] = "Date" /\ c[5] = NL /\ c[6] = LengthLine(Len(a.body)) /\ c[7] = NL /\ c[8] = NL
  BY DEF HeadWords
<1>3. PICK d, n : d = SubSeq(c, 4, Len(c)) /\ n = Len(c) - 3
  OBVIOUS
<1>4. IsSlice(d, c, 4, Len(c)) /\ n \in Nat /\ n >= 5
  BY <1>1, <1>2, <1>3, Slices
<1>5. d \in Seq(Words) /\ Len(d) = n /\ \A i \in 1..n : d[i] = c[3 + i]
  BY <1>1, <1>3, <1>4 DEF IsSlice
<1>6. d[1] = "Date" /\ d[2] = NL /\ d[3] = LengthLine(Len(a.body)) /\ d[4] = NL /\ d[5] = NL
  BY <1>2, <1>4, <1>5
<1>7. CutAt(Blank, 2, d, 4)
  <2>1. 4 \in 1..(Len(d) - 1) /\ d[4 + 1] = NL /\ \A q \in 1..(4 - 1) : q = 1 \/ q = 2 \/ q = 3
    BY <1>4, <1>5, <1>6
  <2>2. \A q \in 1..(4 - 1) : ~(d[q] = NL /\ d[q + 1] = NL)
    BY <1>1, <1>6, <2>1
  <2>3. QED
    BY <1>5, <1>6, <2>1, <2>2, BlankCut
<1>8. PICK header, rest : header = SubSeq(d, 1, 3) /\ rest = SubSeq(d, 6, n)
  OBVIOUS
<1>9. Has(Blank, d) /\ Before(Blank, d) = header /\ After(Blank, d) = rest
  <2>1. 4 - 1 = 3 /\ 4 + 2 = 6
    OBVIOUS
  <2>2. QED
    BY <1>5, <1>7, <1>8, <2>1 DEF CutAt
<1>10. IsSlice(header, d, 1, 3) /\ IsSlice(rest, d, 6, n)
  BY <1>4, <1>5, <1>8, Slices
<1>11. header \in Seq(Words) /\ Len(header) = 3 /\ \A i \in 1..3 : header[i] = d[i]
  BY <1>10 DEF IsSlice
<1>12. {m \in 0..MaxBody : LengthLine(m) \in ToSet(header)} = {Len(a.body)}
  <2>1. DOMAIN header = 1..3
    BY <1>11, LenProperties
  <2>2. ToSet(header) = {"Date", NL, LengthLine(Len(a.body))}
    BY <1>6, <1>11, <2>1 DEF ToSet
  <2>3. ASSUME NEW m \in 0..MaxBody PROVE LengthLine(m) \in ToSet(header) <=> m = Len(a.body)
    BY <1>1, <2>2, LengthAssumption
  <2>4. QED
    BY <1>1, <2>3
<1>13. PICK r : r = Reading(d, a.status)
  OBVIOUS
<1>14. r.mHeader = <<>> /\ r.mBytes = d
  BY <1>13 DEF Reading
<1>15. p = [r EXCEPT !.mHeader = header, !.mBytes = rest, !.mContentLength = Len(a.body)]
  <2>1. (CHOOSE m \in {Len(a.body)} : TRUE) = Len(a.body)
    OBVIOUS
  <2>2. QED
    BY <1>3, <1>9, <1>12, <1>13, <1>14, <2>1 DEF ParseHeader
<1>16. p.mStatus = a.status /\ p.mHeader = header /\ p.mContentLength = Len(a.body) /\ p.mBytes = rest
  BY <1>13, <1>15 DEF Reading
<1>17. IsSlice(rest, c, 9, Len(c))
  <2>1. n - 6 + 1 = Len(c) - 9 + 1
    BY <1>1, <1>3
  <2>2. \A i \in 1..(n - 6 + 1) : d[6 + i - 1] = c[9 + i - 1]
    BY <1>4, <1>5, SMTT(40)
  <2>3. QED
    BY <1>10, <2>1, <2>2 DEF IsSlice
<1>18. header # <<>>
  <2>1. Len(<<>>) = 0 /\ 3 # 0
    OBVIOUS
  <2>2. QED
    BY <1>11, <2>1, Zenon
<1>19. p = [mBytes |-> p.mBytes, mStatus |-> a.status, mHeader |-> p.mHeader,
            mContentLength |-> Len(a.body), mBody |-> p.mBody]
  BY <1>13, <1>15 DEF Reading
<1>20. QED
  BY <1>16, <1>17, <1>18, <1>19 DEF HasHeader

(* What the client's slot does.                                              *)
LEMMA ClientRxDoes ==
  ASSUME HttpTypes, NEW n, ClientRx(n)
  PROVE  /\ client \in {"reading", "accepted"} /\ n \in 1..Len(toClient) /\ Len(toClient) \in Nat
         /\ IsSlice(SubSeq(toClient, 1, n), toClient, 1, n)
         /\ IsSlice(toClient', toClient, n + 1, Len(toClient))
         /\ headerSplit' = (headerSplit \/ (responce = NewResponce /\ ~Has(Blank, SubSeq(toClient, 1, n))))
         /\ UNCHANGED <<mCallbacks, request, server, toServer, asked, answers, reads>>
<1>1. toClient \in Seq(Words) /\ Len(toClient) \in Nat
  BY LenProperties DEF HttpTypes
<1>2. /\ client \in {"reading", "accepted"} /\ n \in 1..Len(toClient)
      /\ toClient' = SubSeq(toClient, n + 1, Len(toClient))
      /\ headerSplit' = (headerSplit \/ (responce = NewResponce /\ ~Has(Blank, SubSeq(toClient, 1, n))))
      /\ UNCHANGED <<mCallbacks, request, server, toServer, asked, answers, reads>>
  BY Zenon DEF ClientRx
<1>3. /\ n \in Nat /\ n + 1 \in Nat /\ 1 \in Nat /\ 1 <= 1 /\ 1 <= n + 1 /\ n <= Len(toClient)
      /\ n + 1 <= Len(toClient) + 1 /\ Len(toClient) <= Len(toClient)
  BY <1>1, <1>2
<1>4. IsSlice(SubSeq(toClient, 1, n), toClient, 1, n)
  BY <1>1, <1>3, Slices
<1>5. IsSlice(SubSeq(toClient, n + 1, Len(toClient)), toClient, n + 1, Len(toClient))
  BY <1>1, <1>3, Slices
<1>6. QED
  BY <1>1, <1>2, <1>4, <1>5

(* A sequence that is as long as what leads another one is that or leads it.  *)
LEMMA LeadsShort ==
  ASSUME NEW b \in Seq(Words), NEW m \in Seq(Words), NEW t \in Seq(Words),
         Leads(b, m \o t), Len(b) <= Len(m)
  PROVE  IsPrefix(b, m) /\ (Len(m \o t) = Len(b) => m = b)
<1>1. PICK k, l, n, u : k = Len(b) /\ l = Len(m) /\ n = Len(t) /\ u = m \o t
  OBVIOUS
<1>2. k \in Nat /\ l \in Nat /\ n \in Nat /\ k <= l
  BY <1>1, LenProperties
<1>3. IsJoin(u, m, t)
  BY <1>1, Joins
<1>4. Len(u) = l + n /\ \A i \in 1..l : u[i] = m[i]
  BY <1>1, <1>3 DEF IsJoin
<1>5. \A i \in 1..k : u[i] = b[i]
  BY <1>1 DEF Leads
<1>6. \A i \in 1..k : m[i] = b[i]
  BY <1>2, <1>4, <1>5
<1>7. IsPrefix(b, m)
  <2>1. PICK p, q : p = SubSeq(b, 1, k) /\ q = SubSeq(m, 1, k)
    OBVIOUS
  <2>2. 1 \in Nat /\ 1 <= 1 /\ 1 <= k + 1 /\ k <= Len(b) /\ k <= Len(m)
    BY <1>1, <1>2
  <2>3. IsSlice(p, b, 1, k) /\ IsSlice(q, m, 1, k)
    BY <1>2, <2>1, <2>2, Slices
  <2>4. k - 1 + 1 = k /\ \A i \in 1..k : 1 + i - 1 = i
    BY <1>2
  <2>5. /\ p \in Seq(Words) /\ q \in Seq(Words) /\ Len(p) = k /\ Len(q) = k
        /\ \A i \in 1..k : p[i] = q[i]
    BY <1>6, <2>3, <2>4 DEF IsSlice
  <2>6. p = q
    BY <2>5, SeqEqual
  <2>7. QED
    BY <1>1, <1>2, <2>1, <2>6 DEF IsPrefix
<1>8. Len(u) = Len(b) => m = b
  <2>1. SUFFICES ASSUME Len(u) = Len(b) PROVE m = b
    OBVIOUS
  <2>2. l = k
    BY <1>1, <1>2, <1>4, <2>1
  <2>3. QED
    BY <1>1, <1>6, <2>2, SeqEqual
<1>9. QED
  BY <1>1, <1>7, <1>8

(* Of an answer the client has the header: it waits, or has all of it.       *)
Outcome(p) ==
  \/ /\ Len(p.mBytes) >= p.mContentLength
     /\ responce' = [p EXCEPT !.mBody = p.mBytes, !.mBytes = <<>>]
     /\ \/ client = "reading" /\ client' = "accepted" /\ promised' = responce'
        \/ client # "reading" /\ client' = "future_error" /\ UNCHANGED promised
  \/ Len(p.mBytes) < p.mContentLength /\ responce' = p /\ UNCHANGED <<client, promised>>

(* A Responce keeps its header when all its bytes become the body.           *)
LEMMA BodyKeepsHeader ==
  ASSUME NEW p, NEW a, HasHeader(p, a)
  PROVE  \A q : q = [p EXCEPT !.mBody = p.mBytes, !.mBytes = <<>>] =>
                  HasHeader(q, a) /\ q.mBody = p.mBytes /\ q.mStatus = a.status
<1>0. SUFFICES ASSUME NEW q, q = [p EXCEPT !.mBody = p.mBytes, !.mBytes = <<>>]
               PROVE  HasHeader(q, a) /\ q.mBody = p.mBytes /\ q.mStatus = a.status
  OBVIOUS
<1>1. p = [mBytes |-> p.mBytes, mStatus |-> a.status, mHeader |-> p.mHeader,
           mContentLength |-> Len(a.body), mBody |-> p.mBody] /\ p.mHeader # <<>>
  BY DEF HasHeader
<1>2. PICK b, s, h, l, x : b = p.mBytes /\ s = a.status /\ h = p.mHeader /\ l = Len(a.body) /\ x = p.mBody
  OBVIOUS
<1>3. p = [mBytes |-> b, mStatus |-> s, mHeader |-> h, mContentLength |-> l, mBody |-> x]
  BY <1>1, <1>2, Zenon
<1>4. q = [p EXCEPT !.mBody = b, !.mBytes = <<>>]
  BY <1>0, <1>2, Zenon
<1>5. q = [mBytes |-> <<>>, mStatus |-> s, mHeader |-> h, mContentLength |-> l, mBody |-> b]
  BY <1>3, <1>4
<1>6. q.mBytes = <<>> /\ q.mHeader = h /\ q.mBody = b /\ q.mStatus = s
  BY <1>5
<1>7. q = [mBytes |-> q.mBytes, mStatus |-> a.status, mHeader |-> q.mHeader,
           mContentLength |-> Len(a.body), mBody |-> q.mBody]
  BY <1>2, <1>5, <1>6, Zenon
<1>8. q.mHeader # <<>>
  BY <1>1, <1>2, <1>6, Zenon
<1>9. HasHeader(q, a)
  BY <1>7, <1>8, Zenon DEF HasHeader
<1>10. QED
  BY <1>2, <1>6, <1>9, Zenon

LEMMA OutcomeReads ==
  ASSUME HttpTypes, client = "reading", answers # <<>>, UNCHANGED answers, toClient' \in Seq(Words),
         NEW p, HasHeader(p, answers[1]), p.mBytes \in Seq(Words),
         Comes(answers[1].body, p.mBytes \o toClient', Len(answers)),
         Outcome(p)
  PROVE  FirstIsRead'
<1>1. PICK a : a = answers[1]
  OBVIOUS
<1>2. CASE /\ responce' = [p EXCEPT !.mBody = p.mBytes, !.mBytes = <<>>] /\ client' = "accepted"
           /\ promised' = responce' /\ Len(p.mBytes) >= p.mContentLength
  <2>1. HasHeader(responce', a) /\ responce'.mBody = p.mBytes /\ responce'.mStatus = a.status
    <3>1. PICK q : q = responce'
      OBVIOUS
    <3>2. q = [p EXCEPT !.mBody = p.mBytes, !.mBytes = <<>>]
      BY <1>2, <3>1, Zenon
    <3>3. HasHeader(p, a)
      BY <1>1, Zenon
    <3>4. HasHeader(q, a) /\ q.mBody = p.mBytes /\ q.mStatus = a.status
      BY <3>2, <3>3, BodyKeepsHeader, ZenonT(60)
    <3>5. QED
      BY <3>1, <3>4
  <2>2. a \in ShortAnswer
    BY <1>1, ElementOfSeq, LenProperties, EmptySeq DEF HttpTypes
  <2>3. a.body \in Seq(Words) /\ Len(a.body) \in Nat
    BY <2>2, ShortAnswerTypes
  <2>4. Len(a.body) <= Len(p.mBytes)
    <3>1. Len(p.mBytes) \in Nat
      BY LenProperties
    <3>2. p.mContentLength = Len(a.body)
      <4>1. p = [mBytes |-> p.mBytes, mStatus |-> a.status, mHeader |-> p.mHeader,
                 mContentLength |-> Len(a.body), mBody |-> p.mBody]
        BY <1>1 DEF HasHeader
      <4>2. QED
        BY <4>1
    <3>3. QED
      BY <1>2, <2>3, <3>1, <3>2
  <2>5. PICK t \in Seq(Words) : t = toClient'
    OBVIOUS
  <2>6. Leads(a.body, p.mBytes \o t) /\ (Len(answers) = 1 => Len(p.mBytes \o t) = Len(a.body))
    BY <1>1, <2>5 DEF Comes
  <2>7. IsPrefix(a.body, p.mBytes) /\ (Len(answers) = 1 => p.mBytes = a.body)
    BY <2>3, <2>4, <2>6, LeadsShort
  <2>8. IsPromised(a, Len(answers))'
    BY <1>1, <1>2, <2>1, <2>7 DEF IsPromised
  <2>9. client' # "reading" /\ client' # "out_of_range" /\ answers' # <<>> /\ answers'[1] = a
    BY <1>1, <1>2
  <2>10. IsPromised(answers[1], Len(answers))'
    BY <1>1, <2>8
  <2>11. QED
    BY <1>1, <2>1, <2>9, <2>10 DEF FirstIsRead
<1>3. CASE responce' = p /\ UNCHANGED client
  <2>1. client' = "reading" /\ client' # "out_of_range"
    BY <1>3
  <2>2. QED
    BY <1>3, <2>1 DEF FirstIsRead
<1>4. QED
  BY <1>2, <1>3 DEF Outcome

LEMMA ClientRxEnds ==
  ASSUME NEW n, ClientRx(n), NEW r, r = [responce EXCEPT !.mBytes = @ \o SubSeq(toClient, 1, n)],
         \A s \in Statuses(r) : s.mStatus # "throws"
  PROVE  \E s \in Statuses(r) : Outcome(ParseHeader(s))
<1>1. PICK s \in Statuses(r) :
        LET parsed == ParseHeader(s)
        IN \/ /\ s.mStatus = "throws"
              /\ client' = "out_of_range" /\ UNCHANGED <<responce, promised>>
           \/ /\ s.mStatus # "throws" /\ Len(parsed.mBytes) >= parsed.mContentLength
              /\ responce' = [parsed EXCEPT !.mBody = parsed.mBytes, !.mBytes = <<>>]
              /\ IF client = "reading"
                   THEN client' = "accepted" /\ promised' = responce'
                   ELSE client' = "future_error" /\ UNCHANGED promised
           \/ /\ s.mStatus # "throws" /\ Len(parsed.mBytes) < parsed.mContentLength
              /\ responce' = parsed /\ UNCHANGED <<client, promised>>
  BY DEF ClientRx
<1>2. Outcome(ParseHeader(s))
  BY <1>1, Zenon DEF Outcome
<1>3. QED
  BY <1>2

(* What is behind the eight words of a header in a chunk and behind it.      *)
IsBehind(u, s) == Len(u) = Len(s) - 8 /\ \A i \in 1..(Len(s) - 8) : u[i] = s[8 + i]

LEMMA BehindHeader ==
  ASSUME NEW s \in Seq(Words), NEW n \in 8..Len(s), NEW c, IsSlice(c, s, 1, n),
         NEW q, IsSlice(q, c, 9, Len(c)), NEW t, IsSlice(t, s, n + 1, Len(s))
  PROVE  IsBehind(q \o t, s)
<1>1. PICK len \in Nat : len = Len(s)
  BY LenProperties
<1>2. Len(c) = n /\ \A i \in 1..n : c[i] = s[i]
  <2>1. n - 1 + 1 = n /\ \A i \in 1..n : 1 + i - 1 = i
    BY <1>1
  <2>2. QED
    BY <2>1 DEF IsSlice
<1>3. q \in Seq(Words) /\ Len(q) = n - 8 /\ \A i \in 1..(n - 8) : q[i] = s[8 + i]
  <2>1. \A i \in 1..(n - 8) : 9 + i - 1 = 8 + i /\ 8 + i \in 1..n
    BY <1>1
  <2>2. n - 9 + 1 = n - 8
    BY <1>1
  <2>3. QED
    BY <1>2, <2>1, <2>2 DEF IsSlice
<1>4. t \in Seq(Words) /\ Len(t) = len - n /\ \A i \in 1..(len - n) : t[i] = s[n + i]
  <2>1. \A i \in 1..(len - n) : (n + 1) + i - 1 = n + i
    BY <1>1
  <2>2. len - (n + 1) + 1 = len - n
    BY <1>1
  <2>3. QED
    BY <1>1, <2>1, <2>2 DEF IsSlice
<1>5. PICK u : u = q \o t
  OBVIOUS
<1>6. IsJoin(u, q, t)
  BY <1>3, <1>4, <1>5, Joins
<1>7. /\ Len(u) = (n - 8) + (len - n) /\ \A i \in 1..(n - 8) : u[i] = s[8 + i]
      /\ \A i \in 1..(len - n) : u[(n - 8) + i] = s[n + i]
  BY <1>3, <1>4, <1>6 DEF IsJoin
<1>8. ASSUME NEW i \in 1..(len - 8) PROVE u[i] = s[8 + i]
  <2>1. CASE i <= n - 8
    BY <1>1, <1>7, <2>1
  <2>2. CASE i > n - 8
    <3>1. PICK j \in 1..(len - n) : i = (n - 8) + j
      <4>1. i - (n - 8) \in 1..(len - n) /\ i = (n - 8) + (i - (n - 8))
        BY <1>1, <2>2
      <4>2. QED
        BY <4>1
    <3>2. n + j = 8 + i
      BY <1>1, <3>1
    <3>3. QED
      BY <1>7, <3>1, <3>2
  <2>3. QED
    BY <1>1, <2>1, <2>2
<1>9. Len(u) = len - 8
  BY <1>1, <1>7
<1>10. QED
  BY <1>1, <1>5, <1>8, <1>9 DEF IsBehind

LEMMA SlicesJoin ==
  ASSUME NEW s \in Seq(Words), NEW n \in 1..Len(s), NEW c, IsSlice(c, s, 1, n),
         NEW t, IsSlice(t, s, n + 1, Len(s))
  PROVE  c \o t = s
<1>1. PICK len \in Nat : len = Len(s)
  BY LenProperties
<1>2. c \in Seq(Words) /\ Len(c) = n /\ \A i \in 1..n : c[i] = s[i]
  BY <1>1 DEF IsSlice
<1>3. t \in Seq(Words) /\ Len(t) = len - n /\ \A i \in 1..(len - n) : t[i] = s[n + i]
  <2>1. \A i \in 1..(len - n) : (n + 1) + i - 1 = n + i
    BY <1>1
  <2>2. len - (n + 1) + 1 = len - n
    BY <1>1
  <2>3. QED
    BY <1>1, <2>1, <2>2 DEF IsSlice
<1>4. PICK u : u = c \o t
  OBVIOUS
<1>5. IsJoin(u, c, t)
  BY <1>2, <1>3, <1>4, Joins
<1>6. /\ u \in Seq(Words) /\ Len(u) = n + (len - n) /\ \A i \in 1..n : u[i] = s[i]
      /\ \A i \in 1..(len - n) : u[n + i] = s[n + i]
  BY <1>2, <1>3, <1>5 DEF IsJoin
<1>7. ASSUME NEW i \in 1..len PROVE u[i] = s[i]
  <2>1. CASE i <= n
    BY <1>1, <1>6, <2>1
  <2>2. CASE i > n
    <3>1. i - n \in 1..(len - n) /\ i = n + (i - n)
      BY <1>1, <2>2
    <3>2. QED
      BY <1>6, <3>1
  <2>3. QED
    BY <1>1, <2>1, <2>2
<1>8. Len(u) = len
  BY <1>1, <1>6
<1>9. QED
  BY <1>1, <1>4, <1>6, <1>7, <1>8, SeqEqual

LEMMA FirstChunkReads ==
  ASSUME HttpTypes, NEW n, ClientRx(n), client = "reading", ~headerSplit', responce = NewResponce,
         answers # <<>>,
         Comes(ToBytes(answers[1]), toClient, Len(answers))
  PROVE  FirstIsRead'
<1>1. PICK a, w, c : a = answers[1] /\ w = ToBytes(a) /\ c = SubSeq(toClient, 1, n)
  OBVIOUS
<1>2. /\ n \in 1..Len(toClient) /\ Len(toClient) \in Nat /\ IsSlice(c, toClient, 1, n)
      /\ IsSlice(toClient', toClient, n + 1, Len(toClient)) /\ Has(Blank, c) /\ UNCHANGED answers
  BY <1>1, ClientRxDoes
<1>3. a \in ShortAnswer
  BY <1>1, ElementOfSeq, LenProperties, EmptySeq DEF HttpTypes
<1>4. Len(a.body) \in Nat /\ a.status # "throws"
  BY <1>3, ShortAnswerTypes
<1>5. IsAnswer(w, a)
  BY <1>1, <1>3, AnswerWords
<1>6. /\ Len(w) = 8 + Len(a.body) /\ (\A i \in 1..Len(a.body) : w[8 + i] = a.body[i])
      /\ Len(w) <= Len(toClient) /\ (\A i \in 1..Len(w) : toClient[i] = w[i])
      /\ Len(answers) = 1 => Len(toClient) = Len(w)
  BY <1>1, <1>5 DEF IsAnswer, Comes, Leads
<1>7. c \in Seq(Words) /\ Len(c) = n /\ \A i \in 1..n : c[i] = toClient[i]
  BY <1>2 DEF IsSlice
<1>8. \A i \in 1..8 : i <= Len(c) => c[i] = w[i]
  BY <1>2, <1>4, <1>6, <1>7
<1>9. HeadWords(c, a) /\ n >= 8
  <2>1. HeadWords(c, a)
    BY <1>2, <1>3, <1>5, <1>7, <1>8, HeaderIsThere
  <2>2. QED
    BY <1>7, <2>1 DEF HeadWords
<1>10. PICK r : r = [responce EXCEPT !.mBytes = @ \o c]
  OBVIOUS
<1>11. r = Reading(c, "eUninitialized")
  <2>1. <<>> \o c = c
    BY <1>7, ConcatEmptySeq
  <2>2. QED
    BY <1>10, <2>1 DEF NewResponce, Reading
<1>12. \A s \in Statuses(r) : s = Reading(SubSeq(c, 4, Len(c)), a.status)
  BY <1>3, <1>7, <1>9, <1>11, FirstStatus
<1>13. \A s \in Statuses(r) : s.mStatus # "throws"
  BY <1>4, <1>12 DEF Reading
<1>14. PICK s \in Statuses(r) : Outcome(ParseHeader(s))
  BY <1>1, <1>10, <1>13, ClientRxEnds
<1>15. PICK p : p = ParseHeader(s)
  OBVIOUS
<1>16. HasHeader(p, a) /\ IsSlice(p.mBytes, c, 9, Len(c))
  BY <1>3, <1>7, <1>9, <1>12, <1>15, FirstHeader
<1>17. p.mBytes \in Seq(Words) /\ toClient' \in Seq(Words) /\ toClient \in Seq(Words)
  BY <1>2, <1>16 DEF IsSlice, HttpTypes
<1>18. n \in 8..Len(toClient)
  BY <1>2, <1>9
<1>19. PICK u : u = p.mBytes \o toClient'
  OBVIOUS
<1>20. Len(u) = Len(toClient) - 8 /\ \A i \in 1..(Len(toClient) - 8) : u[i] = toClient[8 + i]
  <2>1. IsBehind(u, toClient)
    BY <1>2, <1>16, <1>17, <1>18, <1>19, BehindHeader
  <2>2. QED
    BY <2>1 DEF IsBehind
<1>21. Comes(a.body, u, Len(answers))
  <2>1. Len(a.body) <= Len(u) /\ (Len(answers) = 1 => Len(u) = Len(a.body))
    BY <1>2, <1>4, <1>6, <1>20
  <2>2. ASSUME NEW i \in 1..Len(a.body) PROVE u[i] = a.body[i]
    <3>1. i \in 1..(Len(toClient) - 8) /\ 8 + i \in 1..Len(w)
      BY <1>2, <1>4, <1>6
    <3>2. QED
      BY <1>6, <1>20, <3>1
  <2>3. QED
    BY <2>1, <2>2 DEF Comes, Leads
<1>22. QED
  BY <1>1, <1>2, <1>14, <1>15, <1>16, <1>17, <1>19, <1>21, OutcomeReads

(* Of a Responce that has its header a chunk can only lengthen the bytes.    *)
LEMMA HeaderIsKept ==
  ASSUME HttpTypes, NEW n, ClientRx(n), answers # <<>>, HasHeader(responce, answers[1]),
         NEW c, c = SubSeq(toClient, 1, n)
  PROVE  \E r : HasHeader(r, answers[1]) /\ r.mBytes = responce.mBytes \o c /\ Outcome(r)
<1>1. PICK a, b : a = answers[1] /\ b = responce.mBytes
  OBVIOUS
<1>2. a \in ShortAnswer
  BY <1>1, ElementOfSeq, LenProperties, EmptySeq DEF HttpTypes
<1>3. a.status # "throws" /\ a.status # "eUninitialized"
  BY <1>2, ShortAnswerTypes
<1>4. PICK r : r = [responce EXCEPT !.mBytes = @ \o c]
  OBVIOUS
<1>5. HasHeader(r, a) /\ r.mBytes = b \o c
  <2>1. /\ responce = [mBytes |-> b, mStatus |-> a.status, mHeader |-> responce.mHeader,
                       mContentLength |-> Len(a.body), mBody |-> responce.mBody]
        /\ responce.mHeader # <<>>
    BY <1>1 DEF HasHeader
  <2>2. PICK s, h, l, x : s = a.status /\ h = responce.mHeader /\ l = Len(a.body) /\ x = responce.mBody
    OBVIOUS
  <2>3. responce = [mBytes |-> b, mStatus |-> s, mHeader |-> h, mContentLength |-> l, mBody |-> x]
    BY <2>1, <2>2, Zenon
  <2>4. r = [mBytes |-> b \o c, mStatus |-> s, mHeader |-> h, mContentLength |-> l, mBody |-> x]
    BY <1>4, <2>3
  <2>5. r.mBytes = b \o c /\ r.mHeader = h /\ r.mBody = x
    BY <2>4
  <2>6. QED
    BY <2>1, <2>2, <2>4, <2>5 DEF HasHeader
<1>6. r.mStatus = a.status /\ r.mHeader # <<>>
  BY <1>5 DEF HasHeader
<1>7. Statuses(r) = {r} /\ ParseHeader(r) = r
  BY <1>3, <1>6 DEF Statuses, ParseHeader
<1>8. \A s \in Statuses(r) : s.mStatus # "throws"
  BY <1>3, <1>6, <1>7
<1>9. PICK s \in Statuses(r) : Outcome(ParseHeader(s))
  BY <1>4, <1>8, ClientRxEnds
<1>10. Outcome(r)
  BY <1>7, <1>9
<1>11. QED
  BY <1>1, <1>5, <1>10

LEMMA LaterChunkReads ==
  ASSUME HttpTypes, NEW n, ClientRx(n), client = "reading", answers # <<>>,
         HasHeader(responce, answers[1]), responce.mBytes \in Seq(Words),
         Comes(answers[1].body, responce.mBytes \o toClient, Len(answers))
  PROVE  FirstIsRead'
<1>1. PICK a, b, c : a = answers[1] /\ b = responce.mBytes /\ c = SubSeq(toClient, 1, n)
  OBVIOUS
<1>2. /\ n \in 1..Len(toClient) /\ IsSlice(c, toClient, 1, n) /\ toClient \in Seq(Words)
      /\ IsSlice(toClient', toClient, n + 1, Len(toClient)) /\ UNCHANGED answers
  BY <1>1, ClientRxDoes DEF HttpTypes
<1>3. c \in Seq(Words) /\ toClient' \in Seq(Words) /\ c \o toClient' = toClient
  <2>1. c \o toClient' = toClient
    BY <1>2, SlicesJoin
  <2>2. QED
    BY <1>2, <2>1 DEF IsSlice
<1>4. PICK r : HasHeader(r, a) /\ r.mBytes = b \o c /\ Outcome(r)
  BY <1>1, HeaderIsKept
<1>5. r.mBytes \in Seq(Words) /\ r.mBytes \o toClient' = b \o toClient
  <2>1. b \in Seq(Words)
    BY <1>1
  <2>2. b \o c \in Seq(Words)
    BY <1>3, <2>1, ConcatProperties, Zenon
  <2>3. PICK t : t = toClient'
    OBVIOUS
  <2>4. t \in Seq(Words) /\ c \in Seq(Words)
    BY <1>3, <2>3
  <2>5. (b \o c) \o t = b \o (c \o t)
    BY <2>1, <2>4, ConcatAssociative, SMTT(40)
  <2>6. QED
    BY <1>3, <1>4, <2>2, <2>3, <2>5, Zenon
<1>6. QED
  BY <1>1, <1>2, <1>3, <1>4, <1>5, OutcomeReads

(* More chunks after the answer was promised: the status is known, so that   *)
(* none of them makes ParseStatus throw, and the promise is not settled anew.*)
LEMMA MoreChunksRead ==
  ASSUME HttpTypes, NEW n, ClientRx(n), client = "accepted", answers # <<>>,
         HasHeader(responce, answers[1]), IsPromised(answers[1], Len(answers))
  PROVE  FirstIsRead'
<1>1. PICK a, c : a = answers[1] /\ c = SubSeq(toClient, 1, n)
  OBVIOUS
<1>2. UNCHANGED answers
  BY ClientRxDoes
<1>3. PICK r : HasHeader(r, a) /\ r.mBytes = responce.mBytes \o c /\ Outcome(r)
  BY <1>1, HeaderIsKept
<1>4. /\ client' \in {"accepted", "future_error"} /\ UNCHANGED promised
      /\ responce' = r \/ responce' = [r EXCEPT !.mBody = r.mBytes, !.mBytes = <<>>]
  BY <1>3 DEF Outcome
<1>5. HasHeader(responce', a)
  <2>1. PICK q : q = responce'
    OBVIOUS
  <2>2. HasHeader(q, a)
    <3>1. CASE q = r
      BY <1>3, <3>1
    <3>2. CASE q = [r EXCEPT !.mBody = r.mBytes, !.mBytes = <<>>]
      BY <1>3, <3>2, BodyKeepsHeader, ZenonT(60)
    <3>3. QED
      BY <1>4, <2>1, <3>1, <3>2, Zenon
  <2>3. QED
    BY <2>1, <2>2
<1>6. IsPromised(answers[1], Len(answers))'
  BY <1>2, <1>4 DEF IsPromised
<1>7. client' # "reading" /\ client' # "out_of_range" /\ answers' # <<>> /\ answers'[1] = a
  BY <1>1, <1>2, <1>4
<1>8. QED
  BY <1>5, <1>6, <1>7 DEF FirstIsRead

LEMMA ClientRxStep ==
  ASSUME HttpTypes, FirstIsRead, NEW n, ClientRx(n)
  PROVE  FirstIsRead'
<1>1. SUFFICES ASSUME ~headerSplit' PROVE FirstIsRead'
  BY DEF FirstIsRead
<1>2. client \in {"reading", "accepted"} /\ ~headerSplit /\ n \in 1..Len(toClient)
  BY <1>1, ClientRxDoes
<1>3. CASE /\ client = "reading" /\ responce = NewResponce
           /\ IF answers = <<>> THEN toClient = <<>> ELSE Comes(ToBytes(answers[1]), toClient, Len(answers))
  <2>1. answers # <<>>
    <3>1. toClient # <<>>
      BY <1>2
    <3>2. QED
      BY <1>3, <3>1
  <2>2. QED
    BY <1>1, <1>3, <2>1, FirstChunkReads
<1>4. CASE /\ client = "reading" /\ answers # <<>> /\ HasHeader(responce, answers[1])
           /\ responce.mBytes \in Seq(Words)
           /\ Comes(answers[1].body, responce.mBytes \o toClient, Len(answers))
  BY <1>4, LaterChunkReads
<1>5. CASE /\ client = "accepted" /\ answers # <<>> /\ HasHeader(responce, answers[1])
           /\ IsPromised(answers[1], Len(answers))
  BY <1>5, MoreChunksRead
<1>6. QED
  BY <1>2, <1>3, <1>4, <1>5 DEF FirstIsRead

-----------------------------------------------------------------------------
(* The server.  What a request begins with, word by word.                    *)
BeginsWith(t, line) ==
  /\ Len(t) >= Len(line) + 4 /\ \A i \in 1..Len(line) : t[i] = line[i]
  /\ t[Len(line) + 1] = NL /\ t[Len(line) + 2] = "Host" /\ t[Len(line) + 3] = NL /\ t[Len(line) + 4] = NL

LEMMA AskTypes ==
  ASSUME NEW ask \in Asks
  PROVE  /\ ask.line \in Seq(Words) /\ ask.body \in Seq(Words) /\ Len(ask.line) \in Nat
         /\ \A i \in 1..Len(ask.line) : ask.line[i] # NL
<1>1. ask.line \in Seq(Words \ {NL}) /\ ask.body \in Seq(Words)
  BY HttpAssumption DEF AskType
<1>2. PICK line : line = ask.line
  OBVIOUS
<1>3. line \in Seq(Words \ {NL})
  BY <1>1, <1>2
<1>4. Len(line) \in Nat /\ \A i \in 1..Len(line) : line[i] \in Words \ {NL}
  BY <1>3, LenProperties, ElementOfSeq
<1>5. line \in Seq(Words)
  BY <1>3, SeqMonotonic
<1>6. QED
  BY <1>1, <1>2, <1>4, <1>5

LEMMA HeadIsKnown ==
  ASSUME NEW ask \in Asks
  PROVE  HeadOf(ask) \in Seq(Words) /\ BeginsWith(HeadOf(ask), ask.line) /\ Len(HeadOf(ask)) = Len(ask.line) + 4
<1>1. PICK l, k : l = ask.line /\ k = Len(ask.line)
  OBVIOUS
<1>2. l \in Seq(Words) /\ k \in Nat /\ Len(l) = k
  BY <1>1, AskTypes
<1>3. PICK h : h = <<NL, "Host">>
  OBVIOUS
<1>4. h \in Seq(Words) /\ Len(h) = 2 /\ h[1] = NL /\ h[2] = "Host"
  <2>1. NL \in Words /\ "Host" \in Words
    BY HttpAssumption
  <2>2. QED
    BY <1>3, <2>1, TwoWords
<1>5. Blank \in Seq(Words) /\ Len(Blank) = 2 /\ Blank[1] = NL /\ Blank[2] = NL
  BY BlankIsTwo
<1>6. PICK g : g = l \o h
  OBVIOUS
<1>7. IsJoin(g, l, h)
  BY <1>2, <1>4, <1>6, Joins
<1>8. /\ g \in Seq(Words) /\ Len(g) = k + 2 /\ (\A i \in 1..k : g[i] = l[i])
      /\ g[k + 1] = NL /\ g[k + 2] = "Host"
  <2>1. 1 \in 1..Len(h) /\ 2 \in 1..Len(h)
    BY <1>4
  <2>2. QED
    BY <1>2, <1>4, <1>7, <2>1 DEF IsJoin
<1>9. PICK t : t = g \o Blank
  OBVIOUS
<1>10. IsJoin(t, g, Blank)
  BY <1>5, <1>8, <1>9, Joins
<1>11. /\ t \in Seq(Words) /\ Len(t) = k + 4 /\ (\A i \in 1..(k + 2) : t[i] = g[i])
       /\ t[k + 3] = NL /\ t[k + 4] = NL
  <2>1. 1 \in 1..Len(Blank) /\ 2 \in 1..Len(Blank) /\ (k + 2) + 1 = k + 3 /\ (k + 2) + 2 = k + 4
    BY <1>2, <1>5
  <2>2. t[(k + 2) + 1] = NL /\ t[(k + 2) + 2] = NL
    BY <1>5, <1>8, <1>10, <2>1 DEF IsJoin
  <2>3. QED
    BY <1>2, <1>5, <1>8, <1>10, <2>1, <2>2 DEF IsJoin
<1>12. /\ k + 1 \in 1..(k + 2) /\ k + 2 \in 1..(k + 2) /\ \A i \in 1..k : i \in 1..(k + 2)
  BY <1>2
<1>13. BeginsWith(t, l)
  BY <1>2, <1>8, <1>11, <1>12 DEF BeginsWith
<1>14. QED
  BY <1>1, <1>6, <1>3, <1>9, <1>11, <1>13 DEF HeadOf

(* A sequence that leads with one goes on doing so when more is appended.    *)
LEMMA LeadsOn ==
  ASSUME NEW h \in Seq(Words), NEW s \in Seq(Words), NEW t \in Seq(Words), Leads(h, s)
  PROVE  Leads(h, s \o t)
<1>1. PICK k, m, n : k = Len(h) /\ m = Len(s) /\ n = Len(t)
  OBVIOUS
<1>2. k \in Nat /\ m \in Nat /\ n \in Nat
  BY <1>1, LenProperties
<1>3. PICK u : u = s \o t
  OBVIOUS
<1>4. IsJoin(u, s, t)
  BY <1>3, Joins
<1>5. Len(u) = m + n /\ (\A i \in 1..m : u[i] = s[i]) /\ k <= m /\ \A i \in 1..k : s[i] = h[i]
  BY <1>1, <1>4 DEF IsJoin, Leads
<1>6. \A i \in 1..k : u[i] = h[i]
  BY <1>2, <1>5
<1>7. k <= Len(u)
  BY <1>2, <1>5
<1>8. QED
  BY <1>1, <1>3, <1>6, <1>7 DEF Leads

LEMMA LeadsItself ==
  ASSUME NEW h \in Seq(Words), NEW t \in Seq(Words)
  PROVE  Leads(h, h) /\ Leads(h, h \o t)
<1>1. Leads(h, h)
  BY LenProperties DEF Leads
<1>2. QED
  BY <1>1, LeadsOn

(* The first chunk of a request: its blank line is the one behind the header. *)
LEMMA RequestHeader ==
  ASSUME NEW ask \in Asks, NEW s \in Seq(Words), Leads(HeadOf(ask), s), NEW n \in 1..Len(s),
         NEW c, IsSlice(c, s, 1, n), Has(Blank, c)
  PROVE  CutAt(Blank, 2, c, Len(ask.line) + 3) /\ BeginsWith(c, ask.line) /\ Len(c) = n
<1>1. PICK l, k, t : l = ask.line /\ k = Len(ask.line) /\ t = HeadOf(ask)
  OBVIOUS
<1>2. Len(s) \in Nat /\ k \in Nat /\ \A i \in 1..k : l[i] # NL
  BY <1>1, AskTypes, LenProperties
<1>3. BeginsWith(t, l) /\ Len(t) = k + 4
  BY <1>1, HeadIsKnown
<1>4. Len(t) <= Len(s) /\ \A i \in 1..Len(t) : s[i] = t[i]
  BY <1>1 DEF Leads
<1>5. /\ (\A i \in 1..k : s[i] = l[i]) /\ s[k + 1] = NL /\ s[k + 2] = "Host" /\ s[k + 3] = NL /\ s[k + 4] = NL
  <2>1. /\ (\A i \in 1..k : t[i] = l[i]) /\ t[k + 1] = NL /\ t[k + 2] = "Host" /\ t[k + 3] = NL /\ t[k + 4] = NL
    BY <1>1, <1>3 DEF BeginsWith
  <2>2. /\ k + 1 \in 1..(k + 4) /\ k + 2 \in 1..(k + 4) /\ k + 3 \in 1..(k + 4) /\ k + 4 \in 1..(k + 4)
        /\ \A i \in 1..k : i \in 1..(k + 4)
    BY <1>2
  <2>3. QED
    BY <1>3, <1>4, <2>1, <2>2
<1>6. c \in Seq(Words) /\ Len(c) = n /\ \A i \in 1..n : c[i] = s[i]
  BY <1>2 DEF IsSlice
<1>7. PICK j \in 1..(n - 1) : c[j] = NL /\ c[j + 1] = NL
  BY <1>6, BlanksIn DEF Has
<1>8. \A q \in 1..(k + 2) : ~(s[q] = NL /\ s[q + 1] = NL)
  <2>1. "Host" # NL
    BY DEF NL
  <2>2. \A q \in 1..(k + 2) : q \in 1..k \/ q = k + 1 \/ q = k + 2
    BY <1>2
  <2>3. (k + 1) + 1 = k + 2
    BY <1>2
  <2>4. QED
    BY <1>2, <1>5, <2>1, <2>2, <2>3
<1>9. j \notin 1..(k + 2)
  <2>1. s[j] = NL /\ s[j + 1] = NL
    <3>1. j \in 1..n /\ j + 1 \in 1..n
      BY <1>2
    <3>2. QED
      BY <1>6, <1>7, <3>1
  <2>2. QED
    BY <1>8, <2>1
<1>10. n >= k + 4
  BY <1>2, <1>9
<1>11. /\ (\A i \in 1..k : c[i] = l[i]) /\ c[k + 1] = NL /\ c[k + 2] = "Host" /\ c[k + 3] = NL /\ c[k + 4] = NL
       /\ \A q \in 1..(k + 2) : ~(c[q] = NL /\ c[q + 1] = NL)
  <2>1. /\ k + 1 \in 1..n /\ k + 2 \in 1..n /\ k + 3 \in 1..n /\ k + 4 \in 1..n
        /\ (\A i \in 1..k : i \in 1..n) /\ \A q \in 1..(k + 2) : q \in 1..n /\ q + 1 \in 1..n
    BY <1>2, <1>10
  <2>2. QED
    BY <1>5, <1>6, <1>8, <2>1
<1>12. BeginsWith(c, l)
  BY <1>1, <1>6, <1>10, <1>11 DEF BeginsWith
<1>13. CutAt(Blank, 2, c, k + 3)
  <2>1. k + 3 \in 1..(Len(c) - 1) /\ (k + 3) + 1 = k + 4 /\ (k + 3) - 1 = k + 2
    BY <1>2, <1>6, <1>10
  <2>2. c[(k + 3) + 1] = NL /\ \A q \in 1..((k + 3) - 1) : ~(c[q] = NL /\ c[q + 1] = NL)
    BY <1>11, <2>1
  <2>3. QED
    BY <1>6, <1>11, <2>1, <2>2, BlankCut
<1>14. QED
  BY <1>1, <1>6, <1>12, <1>13

(* Its first line, in the header.                                            *)
LEMMA RequestLine ==
  ASSUME NEW ask \in Asks, NEW c \in Seq(Words), BeginsWith(c, ask.line),
         NEW header, header = SubSeq(c, 1, Len(ask.line) + 2)
  PROVE  header # <<>> /\ Has(<<NL>>, header) /\ Before(<<NL>>, header) = ask.line
<1>1. PICK l, k : l = ask.line /\ k = Len(ask.line)
  OBVIOUS
<1>2. Len(c) \in Nat /\ k \in Nat /\ l \in Seq(Words) /\ Len(l) = k /\ \A i \in 1..k : l[i] # NL
  BY <1>1, AskTypes, LenProperties
<1>3. Len(c) >= k + 4 /\ (\A i \in 1..k : c[i] = l[i]) /\ c[k + 1] = NL
  BY <1>1 DEF BeginsWith
<1>4. IsSlice(header, c, 1, k + 2)
  <2>1. 1 \in Nat /\ k + 2 \in Nat /\ 1 <= 1 /\ 1 <= (k + 2) + 1 /\ k + 2 <= Len(c)
    BY <1>2, <1>3
  <2>2. QED
    BY <1>1, <2>1, Slices
<1>5. header \in Seq(Words) /\ Len(header) = k + 2 /\ \A i \in 1..(k + 2) : header[i] = c[i]
  <2>1. (k + 2) - 1 + 1 = k + 2 /\ \A i \in 1..(k + 2) : 1 + i - 1 = i
    BY <1>2
  <2>2. QED
    BY <1>4, <2>1 DEF IsSlice
<1>6. header # <<>>
  <2>1. Len(<<>>) = 0 /\ k + 2 # 0
    BY <1>2
  <2>2. QED
    BY <1>5, <2>1, Zenon
<1>7. CutAt(<<NL>>, 1, header, k + 1)
  <2>1. k + 1 \in 1..Len(header) /\ (k + 1) - 1 = k /\ \A i \in 1..k : i \in 1..(k + 2)
    BY <1>2, <1>5
  <2>2. header[k + 1] = NL /\ \A q \in 1..((k + 1) - 1) : header[q] # NL
    BY <1>2, <1>3, <1>5, <2>1
  <2>3. QED
    BY <1>5, <2>1, <2>2, BreakCut
<1>8. PICK line : line = SubSeq(header, 1, k)
  OBVIOUS
<1>9. IsSlice(line, header, 1, k)
  <2>1. 1 \in Nat /\ 1 <= 1 /\ 1 <= k + 1 /\ k <= Len(header)
    BY <1>2, <1>5
  <2>2. QED
    BY <1>2, <1>5, <1>8, <2>1, Slices
<1>10. line = l
  <2>1. k - 1 + 1 = k /\ \A i \in 1..k : 1 + i - 1 = i /\ i \in 1..(k + 2)
    BY <1>2
  <2>2. line \in Seq(Words) /\ Len(line) = k /\ \A i \in 1..k : line[i] = l[i]
    BY <1>3, <1>5, <1>9, <2>1 DEF IsSlice
  <2>3. QED
    BY <1>2, <2>2, SeqEqual
<1>11. Has(<<NL>>, header) /\ Before(<<NL>>, header) = line
  <2>1. (k + 1) - 1 = k
    BY <1>2
  <2>2. QED
    BY <1>7, <1>8, <2>1 DEF CutAt
<1>12. QED
  BY <1>1, <1>6, <1>10, <1>11

LEMMA RequestIsRead ==
  ASSUME NEW ask \in Asks, NEW s \in Seq(Words), Leads(HeadOf(ask), s), NEW n \in 1..Len(s),
         NEW c, IsSlice(c, s, 1, n), Has(Blank, c),
         NEW p, p = ParseRequestHeader([NewRequest EXCEPT !.mBytes = @ \o c]),
         NEW q, q = AddToRequest(p)
  PROVE  p.mHeader # <<>> /\ q.mHeader # <<>> /\ [type |-> q.mRequestType, url |-> q.mUrl] = Routed(ask)
<1>1. PICK l, k : l = ask.line /\ k = Len(ask.line)
  OBVIOUS
<1>2. k \in Nat /\ c \in Seq(Words)
  BY <1>1, AskTypes DEF IsSlice
<1>3. CutAt(Blank, 2, c, k + 3) /\ BeginsWith(c, l)
  BY <1>1, RequestHeader
<1>4. PICK header, rest : header = SubSeq(c, 1, k + 2) /\ rest = After(Blank, c)
  OBVIOUS
<1>5. Before(Blank, c) = header
  <2>1. (k + 3) - 1 = k + 2
    BY <1>2
  <2>2. QED
    BY <1>3, <1>4, <2>1 DEF CutAt
<1>6. header # <<>> /\ Has(<<NL>>, header) /\ Before(<<NL>>, header) = l
  BY <1>1, <1>2, <1>3, <1>4, RequestLine
<1>7. PICK r : r = [NewRequest EXCEPT !.mBytes = @ \o c]
  OBVIOUS
<1>8. r = [mBytes |-> c, mRequestType |-> "eUnknown", mUrl |-> "/",
           mHeader |-> <<>>, mContentLength |-> 0, mBody |-> <<>>]
  <2>1. <<>> \o c = c
    BY <1>2, ConcatEmptySeq
  <2>2. QED
    BY <1>7, <2>1 DEF NewRequest
<1>9. p = [mBytes |-> rest, mRequestType |-> "eUnknown", mUrl |-> "/",
           mHeader |-> header, mContentLength |-> 0, mBody |-> <<>>]
  <2>1. r.mHeader = <<>> /\ r.mBytes = c
    BY <1>8
  <2>2. p = [r EXCEPT !.mHeader = header, !.mBytes = rest]
    BY <1>4, <1>5, <1>7, <2>1, Zenon DEF ParseRequestHeader
  <2>3. QED
    BY <1>8, <2>2
<1>10. /\ p.mHeader = header /\ p.mRequestType = "eUnknown" /\ p.mUrl = "/"
  BY <1>9
<1>11. PICK type, url : /\ type = (IF k < 2 THEN "eFail" ELSE TypeOfWord(l[1]))
                        /\ url = (IF k < 2 THEN "/" ELSE l[2])
  OBVIOUS
<1>12. ParseRequest(p) = [mBytes |-> rest, mRequestType |-> type, mUrl |-> url,
                          mHeader |-> header, mContentLength |-> 0, mBody |-> <<>>]
  <2>1. ParseRequest(p) = IF k < 2 THEN [p EXCEPT !.mRequestType = "eFail"]
                          ELSE [p EXCEPT !.mRequestType = TypeOfWord(l[1]), !.mUrl = l[2]]
    BY <1>1, <1>6, <1>10 DEF ParseRequest
  <2>2. PICK y, e : y = ParseRequest(p) /\ e = <<>>
    OBVIOUS
  <2>3. p = [mBytes |-> rest, mRequestType |-> "eUnknown", mUrl |-> "/",
             mHeader |-> header, mContentLength |-> 0, mBody |-> e]
    BY <1>9, <2>2, Zenon
  <2>4. y = [mBytes |-> rest, mRequestType |-> type, mUrl |-> url,
             mHeader |-> header, mContentLength |-> 0, mBody |-> e]
    <3>1. CASE k < 2
      <4>1. y = [p EXCEPT !.mRequestType = type] /\ url = "/"
        <5>1. type = "eFail" /\ url = "/"
          BY <1>11, <3>1
        <5>2. ParseRequest(p) = [p EXCEPT !.mRequestType = "eFail"]
          BY <2>1, <3>1, Zenon
        <5>3. QED
          BY <2>2, <5>1, <5>2, Zenon
      <4>2. QED
        BY <2>3, <4>1
    <3>2. CASE ~(k < 2)
      <4>1. y = [p EXCEPT !.mRequestType = type, !.mUrl = url]
        <5>1. type = TypeOfWord(l[1]) /\ url = l[2]
          BY <1>11, <3>2
        <5>2. ParseRequest(p) = [p EXCEPT !.mRequestType = TypeOfWord(l[1]), !.mUrl = l[2]]
          BY <2>1, <3>2, Zenon
        <5>3. QED
          BY <2>2, <5>1, <5>2, Zenon
      <4>2. PICK f : f = [p EXCEPT !.mRequestType = type]
        OBVIOUS
      <4>3. f = [mBytes |-> rest, mRequestType |-> type, mUrl |-> "/",
                 mHeader |-> header, mContentLength |-> 0, mBody |-> e]
        BY <2>3, <4>2
      <4>4. y = [f EXCEPT !.mUrl = url]
        BY <4>1, <4>2, Zenon
      <4>5. QED
        BY <4>3, <4>4
    <3>3. QED
      BY <3>1, <3>2
  <2>5. QED
    BY <2>2, <2>4, Zenon
<1>13. q.mRequestType = type /\ q.mUrl = url /\ q.mHeader = header
  <2>1. PICK y : y = ParseRequest(p)
    OBVIOUS
  <2>2. q = [y EXCEPT !.mBody = y.mBytes, !.mBytes = <<>>]
    BY <1>10, <2>1, Zenon DEF AddToRequest, TakeRequestBody
  <2>3. y = [mBytes |-> rest, mRequestType |-> type, mUrl |-> url,
             mHeader |-> header, mContentLength |-> 0, mBody |-> <<>>]
    BY <1>12, <2>1
  <2>4. QED
    BY <2>2, <2>3
<1>14. [type |-> type, url |-> url] = Routed(ask)
  BY <1>1, <1>11 DEF Routed
<1>15. QED
  BY <1>6, <1>10, <1>13, <1>14

LEMMA AnswerIsShort == ASSUME HttpTypes, NEW r PROVE AnswerTo(r) \in ShortAnswer
<1>1. PICK route : route = [type |-> r.mRequestType, url |-> r.mUrl]
  OBVIOUS
<1>2. CASE route \in mCallbacks
  <2>1. route \in DOMAIN Answers
    BY <1>2 DEF HttpTypes
  <2>2. Answers[route] \in ShortAnswer
    BY <2>1, HttpAssumption DEF ShortAnswer
  <2>3. QED
    BY <1>1, <1>2, <2>2 DEF AnswerTo
<1>3. CASE route \notin mCallbacks
  <2>1. AnswerTo(r) = ErrorAnswer
    BY <1>1, <1>3 DEF AnswerTo
  <2>2. "0" \in Words \ {NL, "eUninitialized", "throws"} /\ "error" \in Words /\ MaxBody >= 1
    BY HttpAssumption DEF NL
  <2>3. ErrorAnswer \in Answer
    BY <2>2 DEF ErrorAnswer, Answer
  <2>4. Len(ErrorAnswer.body) = 1
    BY DEF ErrorAnswer
  <2>5. QED
    BY <2>1, <2>2, <2>3, <2>4, HttpAssumption DEF ShortAnswer
<1>4. QED
  BY <1>2, <1>3

(* Another answer is written behind what is on its way.                      *)
LEMMA AnswerComes ==
  ASSUME HttpTypes, FirstIsRead, NEW a \in ShortAnswer,
         answers' = Append(answers, a), toClient' = toClient \o ToBytes(a),
         UNCHANGED <<responce, client, promised, headerSplit>>
  PROVE  FirstIsRead'
<1>1. PICK w, m : w = ToBytes(a) /\ m = Len(answers)
  OBVIOUS
<1>2. w \in Seq(Words) /\ toClient \in Seq(Words) /\ m \in Nat
  BY <1>1, AnswerWords, LenProperties DEF IsAnswer, HttpTypes
<1>3. answers' # <<>> /\ Len(answers') = m + 1
  BY <1>1, AppendProperties DEF HttpTypes
<1>4. CASE answers = <<>>
  <2>1. answers'[1] = a /\ Len(answers') = 1
    BY <1>4
  <2>2. SUFFICES ASSUME ~headerSplit PROVE FirstIsRead'
    BY DEF FirstIsRead
  <2>3. client = "reading" /\ responce = NewResponce /\ toClient = <<>>
    BY <1>4, <2>2 DEF FirstIsRead
  <2>4. toClient' = w
    BY <1>1, <1>2, <2>3, ConcatEmptySeq
  <2>5. Comes(w, w, 1)
    BY <1>2, LeadsItself DEF Comes
  <2>6. Comes(ToBytes(answers'[1]), toClient', Len(answers'))
    BY <1>1, <2>1, <2>4, <2>5, Zenon
  <2>7. client' = "reading" /\ responce' = NewResponce
    BY <2>3
  <2>8. QED
    BY <1>3, <2>6, <2>7 DEF FirstIsRead
<1>5. CASE answers # <<>>
  <2>1. PICK b : b = answers[1]
    OBVIOUS
  <2>2. m >= 1 /\ Len(answers') # 1 /\ answers'[1] = b
    <3>1. m # 0
      BY <1>1, <1>5, EmptySeq DEF HttpTypes
    <3>2. \A i \in 1..m : Append(answers, a)[i] = answers[i]
      BY <1>1, AppendProperties DEF HttpTypes
    <3>3. QED
      BY <1>2, <1>3, <2>1, <3>1, <3>2
  <2>3. b \in ShortAnswer
    BY <1>1, <1>2, <2>1, <2>2, ElementOfSeq DEF HttpTypes
  <2>4. ToBytes(b) \in Seq(Words) /\ b.body \in Seq(Words)
    BY <2>3, AnswerWords, ShortAnswerTypes DEF IsAnswer
  <2>5. ASSUME NEW h \in Seq(Words), NEW s \in Seq(Words), Comes(h, s \o toClient, m)
        PROVE  Comes(h, s \o toClient', Len(answers'))
    <3>1. s \o toClient \in Seq(Words) /\ Leads(h, s \o toClient)
      BY <1>2, <2>5, ConcatProperties DEF Comes
    <3>2. (s \o toClient) \o w = s \o (toClient \o w)
      <4>1. PICK t : t = toClient
        OBVIOUS
      <4>2. t \in Seq(Words) /\ w \in Seq(Words)
        BY <1>2, <4>1
      <4>3. (s \o t) \o w = s \o (t \o w)
        BY <4>2, ConcatAssociative, SMTT(40)
      <4>4. QED
        BY <4>1, <4>3, Zenon
    <3>3. Leads(h, (s \o toClient) \o w)
      BY <1>2, <3>1, LeadsOn
    <3>4. Leads(h, s \o toClient')
      BY <1>1, <3>2, <3>3
    <3>5. QED
      BY <2>2, <3>4 DEF Comes
  <2>6. ASSUME NEW h \in Seq(Words), Comes(h, toClient, m) PROVE Comes(h, toClient', Len(answers'))
    <3>1. Leads(h, toClient \o w)
      BY <1>2, <2>6, LeadsOn DEF Comes
    <3>2. QED
      BY <1>1, <2>2, <3>1 DEF Comes
  <2>7. SUFFICES ASSUME ~headerSplit PROVE FirstIsRead'
    BY DEF FirstIsRead
  <2>8. CASE client = "reading" /\ responce = NewResponce /\ Comes(ToBytes(b), toClient, m)
    <3>1. Comes(ToBytes(answers'[1]), toClient', Len(answers'))
      BY <2>2, <2>4, <2>6, <2>8
    <3>2. client' = "reading" /\ responce' = NewResponce
      BY <2>8
    <3>3. QED
      BY <1>3, <3>1, <3>2 DEF FirstIsRead
  <2>9. CASE /\ client # "out_of_range" /\ HasHeader(responce, b)
             /\ client = "reading" => responce.mBytes \in Seq(Words) /\ Comes(b.body, responce.mBytes \o toClient, m)
             /\ client # "reading" => IsPromised(b, m)
    <3>1. client = "reading" =>
            responce.mBytes \in Seq(Words) /\ Comes(b.body, responce.mBytes \o toClient', Len(answers'))
      BY <2>4, <2>5, <2>9
    <3>2. client # "reading" => IsPromised(answers[1], Len(answers))'
      BY <2>2, <2>9 DEF IsPromised
    <3>3. QED
      BY <1>3, <2>2, <2>9, <3>1, <3>2 DEF FirstIsRead
  <2>10. QED
    BY <1>1, <1>5, <2>1, <2>7, <2>8, <2>9 DEF FirstIsRead
<1>6. QED
  BY <1>4, <1>5

(* What the session's slot does, of the request p as its header is read.     *)
Served(p) ==
  \/ /\ ReadsNoHeader(p)
     /\ server' = "crashed" /\ UNCHANGED <<request, answers, toClient>>
  \/ /\ ~ReadsNoHeader(p)
     /\ request' = AddToRequest(p) /\ answers' = Append(answers, AnswerTo(AddToRequest(p)))
     /\ toClient' = toClient \o ToBytes(AnswerTo(AddToRequest(p))) /\ UNCHANGED server

LEMMA ServerRxDoes ==
  ASSUME HttpTypes, NEW n, ServerRx(n), NEW c, c = SubSeq(toServer, 1, n)
  PROVE  /\ server = "running" /\ n \in 1..Len(toServer)
         /\ IsSlice(c, toServer, 1, n) /\ toServer' \in Seq(Words)
         /\ Served(ParseRequestHeader([request EXCEPT !.mBytes = @ \o c]))
         /\ UNCHANGED <<mCallbacks, responce, client, promised, asked, headerSplit>>
<1>1. toServer \in Seq(Words) /\ Len(toServer) \in Nat
  BY LenProperties DEF HttpTypes
<1>2. /\ server = "running" /\ n \in 1..Len(toServer)
      /\ toServer' = SubSeq(toServer, n + 1, Len(toServer))
      /\ UNCHANGED <<mCallbacks, responce, client, promised, asked, headerSplit>>
  BY Zenon DEF ServerRx
<1>3. PICK p : p = ParseRequestHeader([request EXCEPT !.mBytes = @ \o c])
  OBVIOUS
<1>4. IF ReadsNoHeader(p)
        THEN server' = "crashed" /\ UNCHANGED <<request, answers, toClient>>
        ELSE /\ request' = AddToRequest(p) /\ answers' = Append(answers, AnswerTo(AddToRequest(p)))
             /\ toClient' = toClient \o ToBytes(AnswerTo(AddToRequest(p)))
             /\ UNCHANGED server
  BY <1>3, Zenon DEF ServerRx
<1>5. Served(p)
  BY <1>4, Zenon DEF Served
<1>6. /\ n \in Nat /\ n + 1 \in Nat /\ 1 \in Nat /\ 1 <= 1 /\ 1 <= n + 1 /\ n <= Len(toServer)
      /\ n + 1 <= Len(toServer) + 1 /\ Len(toServer) <= Len(toServer)
  BY <1>1, <1>2
<1>7. IsSlice(c, toServer, 1, n)
  BY <1>1, <1>6, Slices
<1>8. IsSlice(SubSeq(toServer, n + 1, Len(toServer)), toServer, n + 1, Len(toServer))
  BY <1>1, <1>6, Slices
<1>9. toServer' \in Seq(Words)
  BY <1>2, <1>8 DEF IsSlice
<1>10. QED
  BY <1>2, <1>3, <1>5, <1>7, <1>9

(* The first chunk crashes the server or gives the first answer.             *)
LEMMA FirstChunkServed ==
  ASSUME HttpTypes, FirstIsServed, NEW n, ServerRx(n), answers = <<>>
  PROVE  /\ asked # <<>>
         /\ \/ server' = "crashed" /\ answers' = <<>>
            \/ /\ request'.mHeader # <<>> /\ server' = "running"
               /\ Len(answers') = 1
               /\ Routed(asked[1].ask) \in asked[1].registered => answers'[1] = Answers[Routed(asked[1].ask)]
<1>1. PICK c : c = SubSeq(toServer, 1, n)
  OBVIOUS
<1>2. PICK p : p = ParseRequestHeader([request EXCEPT !.mBytes = @ \o c])
  OBVIOUS
<1>3. /\ server = "running" /\ n \in 1..Len(toServer) /\ IsSlice(c, toServer, 1, n) /\ Served(p)
      /\ toServer \in Seq(Words)
  BY <1>1, <1>2, ServerRxDoes DEF HttpTypes
<1>4. request = NewRequest
  BY <1>3 DEF FirstIsServed
<1>5. asked # <<>>
  <2>1. toServer # <<>>
    BY <1>3
  <2>2. QED
    BY <2>1 DEF FirstIsServed
<1>6. PICK ask, registered : ask = asked[1].ask /\ registered = asked[1].registered
  OBVIOUS
<1>7. ask \in Asks
  <2>1. Len(asked) \in Nat \ {0}
    BY <1>5, EmptySeq DEF HttpTypes
  <2>2. asked[1] \in [ask : Asks, registered : SUBSET DOMAIN Answers]
    <3>1. PICK S : S = [ask : Asks, registered : SUBSET DOMAIN Answers]
      OBVIOUS
    <3>2. asked \in Seq(S) /\ 1 \in 1..Len(asked)
      BY <2>1, <3>1 DEF HttpTypes
    <3>3. asked[1] \in S
      BY <3>2, ElementOfSeq
    <3>4. QED
      BY <3>1, <3>3
  <2>3. QED
    BY <1>6, <2>2
<1>8. Leads(HeadOf(ask), toServer) /\ registered \subseteq mCallbacks
  BY <1>3, <1>5, <1>6 DEF FirstIsServed
<1>9. CASE ReadsNoHeader(p)
  BY <1>3, <1>5, <1>9 DEF Served
<1>10. CASE ~ReadsNoHeader(p)
  <2>1. Has(Blank, c)
    <3>1. SUFFICES ASSUME ~Has(Blank, c) PROVE ReadsNoHeader(p)
      BY <1>10
    <3>2. PICK r : r = [NewRequest EXCEPT !.mBytes = @ \o c]
      OBVIOUS
    <3>3. r.mHeader = <<>> /\ r.mRequestType = "eUnknown" /\ r.mBytes = c
      <4>1. <<>> \o c = c
        BY <1>3, ConcatEmptySeq DEF IsSlice
      <4>2. QED
        BY <3>2, <4>1 DEF NewRequest
    <3>4. p = r
      <4>1. p = ParseRequestHeader(r)
        BY <1>2, <1>4, <3>2
      <4>2. QED
        BY <3>1, <3>3, <4>1, Zenon DEF ParseRequestHeader
    <3>5. QED
      BY <3>3, <3>4 DEF ReadsNoHeader
  <2>2. PICK q : q = AddToRequest(p)
    OBVIOUS
  <2>3. q.mHeader # <<>> /\ [type |-> q.mRequestType, url |-> q.mUrl] = Routed(ask)
    <3>1. p = ParseRequestHeader([NewRequest EXCEPT !.mBytes = @ \o c])
      BY <1>2, <1>4, Zenon
    <3>2. QED
      BY <1>3, <1>7, <1>8, <2>1, <2>2, <3>1, RequestIsRead
  <2>4. Routed(ask) \in registered => AnswerTo(q) = Answers[Routed(ask)]
    BY <1>8, <2>3 DEF AnswerTo
  <2>5. request' = q /\ answers' = Append(answers, AnswerTo(q)) /\ server' = server
    BY <1>3, <1>10, <2>2, Zenon DEF Served
  <2>6. answers' = <<AnswerTo(q)>>
    BY <2>5
  <2>7. QED
    BY <1>3, <1>5, <1>6, <2>3, <2>4, <2>5, <2>6
<1>11. QED
  BY <1>9, <1>10

(* A later one gives another answer.                                         *)
LEMMA LaterChunkServed ==
  ASSUME HttpTypes, FirstIsServed, NEW n, ServerRx(n), answers # <<>>
  PROVE  /\ request'.mHeader # <<>> /\ server' = "running"
         /\ answers' # <<>> /\ answers'[1] = answers[1]
<1>1. PICK c : c = SubSeq(toServer, 1, n)
  OBVIOUS
<1>2. PICK r : r = [request EXCEPT !.mBytes = @ \o c]
  OBVIOUS
<1>3. PICK p : p = ParseRequestHeader(r)
  OBVIOUS
<1>4. server = "running" /\ Served(p)
  BY <1>1, <1>2, <1>3, ServerRxDoes
<1>5. request.mHeader # <<>>
  BY DEF FirstIsServed
<1>6. r.mHeader = request.mHeader
  BY <1>2
<1>7. p = r
  BY <1>3, <1>5, <1>6, Zenon DEF ParseRequestHeader
<1>8. p.mHeader # <<>>
  BY <1>5, <1>6, <1>7
<1>9. ~ReadsNoHeader(p)
  BY <1>8, Zenon DEF ReadsNoHeader
<1>10. PICK a : a = AnswerTo(AddToRequest(p))
  OBVIOUS
<1>11. request' = AddToRequest(p) /\ answers' = Append(answers, a) /\ server' = server
  BY <1>4, <1>9, <1>10, Zenon DEF Served
<1>12. AddToRequest(p).mHeader = p.mHeader
  BY DEF AddToRequest, TakeRequestBody, ParseRequest
<1>13. answers' # <<>> /\ answers'[1] = answers[1]
  <2>1. Len(answers) \in Nat \ {0} /\ a \in ShortAnswer
    BY <1>10, AnswerIsShort, EmptySeq DEF HttpTypes
  <2>2. 1 \in 1..Len(answers)
    BY <2>1
  <2>3. /\ Append(answers, a) # <<>> /\ \A i \in 1..Len(answers) : Append(answers, a)[i] = answers[i]
    BY <2>1, AppendProperties DEF HttpTypes
  <2>4. QED
    BY <1>11, <2>2, <2>3
<1>14. QED
  BY <1>4, <1>8, <1>11, <1>12, <1>13, Zenon

LEMMA ServerRxStep == ASSUME IInv, NEW n, ServerRx(n) PROVE IInv'
<1>1. HttpTypes /\ FirstIsServed /\ FirstIsRead
  BY DEF IInv
<1>2. PICK c : c = SubSeq(toServer, 1, n)
  OBVIOUS
<1>3. PICK p : p = ParseRequestHeader([request EXCEPT !.mBytes = @ \o c])
  OBVIOUS
<1>4. /\ server = "running" /\ toServer' \in Seq(Words) /\ Served(p)
      /\ UNCHANGED <<mCallbacks, responce, client, promised, asked, headerSplit>>
  BY <1>1, <1>2, <1>3, ServerRxDoes
<1>5. PICK a : a = AnswerTo(AddToRequest(p))
  OBVIOUS
<1>6. a \in ShortAnswer /\ ToBytes(a) \in Seq(Words)
  <2>1. a \in ShortAnswer
    BY <1>1, <1>5, AnswerIsShort
  <2>2. QED
    BY <2>1, AnswerWords DEF IsAnswer
<1>7. \/ server' = "crashed" /\ UNCHANGED <<answers, toClient>>
      \/ /\ answers' = Append(answers, a) /\ toClient' = toClient \o ToBytes(a) /\ UNCHANGED server
  BY <1>4, <1>5, Zenon DEF Served
<1>8. HttpTypes'
  <2>1. toClient' \in Seq(Words) /\ answers' \in Seq(ShortAnswer)
    <3>1. CASE UNCHANGED <<answers, toClient>>
      BY <1>1, <3>1 DEF HttpTypes
    <3>2. CASE answers' = Append(answers, a) /\ toClient' = toClient \o ToBytes(a)
      <4>1. toClient \o ToBytes(a) \in Seq(Words)
        BY <1>1, <1>6, ConcatProperties DEF HttpTypes
      <4>2. Append(answers, a) \in Seq(ShortAnswer)
        BY <1>1, <1>6, AppendProperties DEF HttpTypes
      <4>3. QED
        BY <3>2, <4>1, <4>2
    <3>3. QED
      BY <1>7, <3>1, <3>2
  <2>2. server' \in {"running", "crashed"}
    BY <1>4, <1>7
  <2>3. QED
    BY <1>1, <1>4, <2>1, <2>2 DEF HttpTypes
<1>9. FirstIsServed'
  <2>1. asked # <<>> /\ asked' = asked /\ mCallbacks' = mCallbacks
    <3>1. CASE answers = <<>>
      BY <1>1, <1>4, <3>1, FirstChunkServed
    <3>2. CASE answers # <<>>
      BY <1>1, <1>4, <3>2 DEF FirstIsServed
    <3>3. QED
      BY <3>1, <3>2
  <2>2. asked[1].registered \subseteq mCallbacks
    BY <1>1, <2>1 DEF FirstIsServed
  <2>3. CASE answers = <<>>
    <3>1. CASE server' = "crashed" /\ answers' = <<>>
      BY <2>1, <2>2, <3>1 DEF FirstIsServed
    <3>2. CASE /\ request'.mHeader # <<>> /\ server' = "running" /\ Len(answers') = 1
               /\ Routed(asked[1].ask) \in asked[1].registered => answers'[1] = Answers[Routed(asked[1].ask)]
      <4>1. answers' # <<>>
        BY <3>2
      <4>2. QED
        BY <2>1, <2>2, <3>2, <4>1 DEF FirstIsServed
    <3>3. QED
      BY <1>1, <2>3, <3>1, <3>2, FirstChunkServed
  <2>4. CASE answers # <<>>
    <3>1. request'.mHeader # <<>> /\ server' = "running" /\ answers' # <<>> /\ answers'[1] = answers[1]
      BY <1>1, <2>4, LaterChunkServed
    <3>2. Routed(asked[1].ask) \in asked[1].registered => answers[1] = Answers[Routed(asked[1].ask)]
      BY <1>1, <2>4 DEF FirstIsServed
    <3>3. QED
      BY <2>1, <2>2, <3>1, <3>2 DEF FirstIsServed
  <2>5. QED
    BY <2>3, <2>4
<1>10. FirstIsRead'
  <2>1. CASE UNCHANGED <<answers, toClient>>
    BY <1>1, <1>4, <2>1, ReadingIsKept
  <2>2. CASE answers' = Append(answers, a) /\ toClient' = toClient \o ToBytes(a)
    BY <1>1, <1>4, <1>6, <2>2, AnswerComes
  <2>3. QED
    BY <1>7, <2>1, <2>2
<1>11. QED
  BY <1>8, <1>9, <1>10 DEF IInv

LEMMA AskStep == ASSUME IInv, NEW ask \in Asks, Ask(ask) PROVE IInv'
<1>1. /\ HttpTypes /\ FirstIsServed /\ FirstIsRead
      /\ toServer \in Seq(Words) /\ asked \in Seq([ask : Asks, registered : SUBSET DOMAIN Answers])
      /\ mCallbacks \in SUBSET DOMAIN Answers
  BY DEF IInv, HttpTypes
<1>2. PICK one : one = [ask |-> ask, registered |-> mCallbacks]
  OBVIOUS
<1>3. /\ asked' = Append(asked, one)
      /\ toServer' = (((toServer \o ask.line) \o <<NL, "Host">>) \o Blank) \o ask.body
      /\ UNCHANGED <<mCallbacks, request, server, toClient, responce, client, promised, answers, reads,
                 headerSplit>>
  BY <1>2 DEF Ask
<1>4. PICK l, h, b : l = ask.line /\ h = <<NL, "Host">> /\ b = ask.body
  OBVIOUS
<1>5. l \in Seq(Words) /\ h \in Seq(Words) /\ b \in Seq(Words) /\ Blank \in Seq(Words)
  <2>1. NL \in Words /\ "Host" \in Words
    BY HttpAssumption
  <2>2. h \in Seq(Words)
    BY <1>4, <2>1, TwoWords
  <2>3. QED
    BY <1>4, <2>2, AskTypes, BlankIsTwo
<1>6. one \in [ask : Asks, registered : SUBSET DOMAIN Answers]
  BY <1>1, <1>2
<1>7. PICK t1, t2, t3, t4 :
        t1 = toServer \o l /\ t2 = t1 \o h /\ t3 = t2 \o Blank /\ t4 = t3 \o b
  OBVIOUS
<1>8. /\ t1 \in Seq(Words) /\ t2 \in Seq(Words) /\ t3 \in Seq(Words) /\ t4 \in Seq(Words)
      /\ toServer' = t4
  <2>1. t1 \in Seq(Words)
    BY <1>1, <1>5, <1>7, ConcatProperties
  <2>2. t2 \in Seq(Words)
    BY <1>5, <1>7, <2>1, ConcatProperties
  <2>3. t3 \in Seq(Words)
    BY <1>5, <1>7, <2>2, ConcatProperties
  <2>4. t4 \in Seq(Words)
    BY <1>5, <1>7, <2>3, ConcatProperties
  <2>5. QED
    BY <1>3, <1>4, <1>7, <2>1, <2>2, <2>3, <2>4, Zenon
<1>9. HttpTypes'
  <2>1. asked' \in Seq([ask : Asks, registered : SUBSET DOMAIN Answers])
    BY <1>1, <1>3, <1>6, AppendProperties
  <2>2. QED
    BY <1>1, <1>3, <1>8, <2>1 DEF HttpTypes
<1>10. FirstIsServed'
  <2>1. asked' # <<>>
    BY <1>1, <1>3, <1>6, AppendProperties
  <2>2. CASE asked = <<>>
    <3>1. toServer = <<>> /\ answers = <<>>
      BY <1>1, <2>2 DEF FirstIsServed
    <3>2. asked'[1] = one /\ one.ask = ask /\ one.registered = mCallbacks
      BY <1>2, <1>3, <2>2
    <3>3. t1 = l
      BY <1>5, <1>7, <3>1, ConcatEmptySeq
    <3>4. t3 = HeadOf(ask)
      BY <1>4, <1>7, <3>3, Zenon DEF HeadOf
    <3>5. Leads(HeadOf(ask), t4)
      <4>1. Leads(t3, t3 \o b)
        BY <1>5, <1>8, LeadsItself
      <4>2. QED
        BY <1>7, <3>4, <4>1, Zenon
    <3>6. server = "running" => request = NewRequest
      BY <1>1, <3>1 DEF FirstIsServed
    <3>7. QED
      BY <1>3, <1>8, <2>1, <3>1, <3>2, <3>5, <3>6 DEF FirstIsServed
  <2>3. CASE asked # <<>>
    <3>1. asked'[1] = asked[1]
      <4>1. PICK S : S = [ask : Asks, registered : SUBSET DOMAIN Answers]
        OBVIOUS
      <4>2. asked \in Seq(S) /\ one \in S
        BY <1>1, <1>6, <4>1
      <4>3. \A i \in 1..Len(asked) : Append(asked, one)[i] = asked[i]
        BY <4>2, AppendProperties
      <4>4. 1 \in 1..Len(asked)
        <5>1. Len(asked) \in Nat \ {0}
          BY <2>3, <4>2, EmptySeq
        <5>2. QED
          BY <5>1
      <4>5. QED
        BY <1>3, <4>3, <4>4
    <3>2. PICK first : first = asked[1]
      OBVIOUS
    <3>3. first.ask \in Asks
      <4>1. PICK S : S = [ask : Asks, registered : SUBSET DOMAIN Answers]
        OBVIOUS
      <4>2. asked \in Seq(S)
        BY <1>1, <4>1
      <4>3. Len(asked) \in Nat \ {0}
        BY <2>3, <4>2, EmptySeq
      <4>4. 1 \in 1..Len(asked)
        BY <4>3
      <4>5. asked[1] \in S
        BY <4>2, <4>4, ElementOfSeq
      <4>6. QED
        BY <3>2, <4>1, <4>5
    <3>4. answers = <<>> /\ server = "running" => request = NewRequest /\ Leads(HeadOf(first.ask), t4)
      <4>1. SUFFICES ASSUME answers = <<>>, server = "running"
                     PROVE  request = NewRequest /\ Leads(HeadOf(first.ask), t4)
        OBVIOUS
      <4>2. PICK head : head = HeadOf(first.ask)
        OBVIOUS
      <4>3. request = NewRequest /\ Leads(head, toServer) /\ head \in Seq(Words)
        BY <1>1, <2>3, <3>2, <3>3, <4>1, <4>2, HeadIsKnown DEF FirstIsServed
      <4>4. Leads(head, t1)
        BY <1>1, <1>5, <1>7, <4>3, LeadsOn
      <4>5. Leads(head, t2)
        BY <1>5, <1>7, <1>8, <4>3, <4>4, LeadsOn
      <4>6. Leads(head, t3)
        BY <1>5, <1>7, <1>8, <4>3, <4>5, LeadsOn
      <4>7. Leads(head, t4)
        BY <1>5, <1>7, <1>8, <4>3, <4>6, LeadsOn
      <4>8. QED
        BY <4>2, <4>3, <4>7
    <3>5. /\ first.registered \subseteq mCallbacks
          /\ answers # <<>> =>
               /\ request.mHeader # <<>> /\ server = "running"
               /\ Routed(first.ask) \in first.registered => answers[1] = Answers[Routed(first.ask)]
      BY <1>1, <2>3, <3>2 DEF FirstIsServed
    <3>6. QED
      BY <1>3, <1>8, <2>1, <3>1, <3>2, <3>4, <3>5 DEF FirstIsServed
  <2>4. QED
    BY <2>2, <2>3
<1>11. FirstIsRead'
  BY <1>1, <1>3, ReadingIsKept
<1>12. QED
  BY <1>9, <1>10, <1>11 DEF IInv

LEMMA RegisterStep == ASSUME IInv, NEW route \in DOMAIN Answers, Register(route) PROVE IInv'
<1>1. /\ mCallbacks' = mCallbacks \cup {route}
      /\ UNCHANGED <<request, server, toServer, toClient, responce, client, promised, asked, answers, headerSplit>>
  BY DEF Register, wires
<1>2. HttpTypes'
  BY <1>1 DEF IInv, HttpTypes
<1>3. FirstIsServed'
  <2>1. FirstIsServed
    BY DEF IInv
  <2>2. asked # <<>> => asked[1].registered \subseteq mCallbacks'
    BY <1>1, <2>1 DEF FirstIsServed
  <2>3. QED
    BY <1>1, <2>1, <2>2, Zenon DEF FirstIsServed
<1>4. FirstIsRead'
  BY <1>1, ReadingIsKept DEF IInv
<1>5. QED
  BY <1>2, <1>3, <1>4 DEF IInv

LEMMA ReadStep == ASSUME IInv, NEW n, ClientRx(n) PROVE IInv'
<1>1. HttpTypes /\ FirstIsServed /\ FirstIsRead
  BY DEF IInv
<1>2. /\ toClient' \in Seq(Words)
      /\ UNCHANGED <<mCallbacks, request, server, toServer, asked, answers, reads>>
  BY <1>1, ClientRxDoes DEF IsSlice
<1>3. client' \in {"reading", "accepted", "out_of_range", "future_error"}
  <2>1. client \in {"reading", "accepted"}
    BY DEF ClientRx
  <2>2. client' = "out_of_range" \/ client' = "accepted" \/ client' = "future_error" \/ client' = client
    BY DEF ClientRx
  <2>3. QED
    BY <2>1, <2>2
<1>4. HttpTypes'
  BY <1>1, <1>2, <1>3 DEF HttpTypes
<1>5. FirstIsServed'
  BY <1>1, <1>2 DEF FirstIsServed
<1>6. FirstIsRead'
  BY <1>1, ClientRxStep
<1>7. QED
  BY <1>4, <1>5, <1>6 DEF IInv

LEMMA InitIInv == Init => IInv
<1>1. SUFFICES ASSUME Init PROVE IInv
  OBVIOUS
<1>2. HttpTypes
  BY <1>1 DEF Init, HttpTypes
<1>3. FirstIsServed
  BY <1>1 DEF Init, FirstIsServed
<1>4. FirstIsRead
  BY <1>1 DEF Init, FirstIsRead
<1>5. QED
  BY <1>2, <1>3, <1>4 DEF IInv

LEMMA IInvStep == IInv /\ [Next]_vars => IInv'
<1>1. SUFFICES ASSUME IInv, [Next]_vars PROVE IInv'
  OBVIOUS
<1>2. ASSUME NEW route \in DOMAIN Answers, Register(route) PROVE IInv'
  BY <1>1, <1>2, RegisterStep
<1>3. ASSUME NEW ask \in Asks, Ask(ask) PROVE IInv'
  BY <1>1, <1>3, AskStep
<1>4. ASSUME NEW n \in 1..Len(toServer), ServerRx(n) PROVE IInv'
  BY <1>1, <1>4, ServerRxStep
<1>5. ASSUME NEW n \in 1..Len(toClient), ClientRx(n) PROVE IInv'
  BY <1>1, <1>5, ReadStep
<1>6. CASE UNCHANGED vars
  <2>1. FirstIsRead'
    BY <1>1, <1>6, ReadingIsKept DEF vars, wires, IInv
  <2>2. QED
    BY <1>1, <1>6, <2>1 DEF vars, wires, IInv, HttpTypes, FirstIsServed
<1>7. QED
  BY <1>1, <1>2, <1>3, <1>4, <1>5, <1>6 DEF Next

LEMMA AlwaysIInv == Spec => []IInv
<1>1. QED
  BY InitIInv, IInvStep, PTL DEF Spec

LEMMA IInvAccepted == IInv => AcceptedIsAnswer
<1>1. SUFFICES ASSUME IInv, client # "reading", ~headerSplit PROVE AcceptedIsAnswer
  BY DEF AcceptedIsAnswer
<1>2. answers # <<>> /\ IsPromised(answers[1], Len(answers))
  BY <1>1 DEF IInv, FirstIsRead
<1>3. Routed(asked[1].ask) \in asked[1].registered => answers[1] = Answers[Routed(asked[1].ask)]
  BY <1>1, <1>2 DEF IInv, FirstIsServed
<1>4. QED
  BY <1>2, <1>3 DEF AcceptedIsAnswer, IsPromised

(* Whatever is asked, whatever the callbacks make and whenever they are       *)
(* registered, in whatever chunks both streams come: a client that got the   *)
(* header in one chunk promises the status and body that were made for its   *)
(* first request, and what follows them only if more was answered            *)
(* (Request.cpp:36-54, Responce.cpp:74-92, 208-215, Server.cpp:49-60).       *)
THEOREM AnswerIsAccepted == Spec => []AcceptedIsAnswer
<1>1. QED
  BY AlwaysIInv, IInvAccepted, PTL

(* The substr of ParseStatus throws at a client only if its first chunk ended *)
(* inside a header.  A client that got the header whole parses no status     *)
(* again, not even of the chunks that come after it has accepted, which are  *)
(* another answer or part of one (Responce.cpp:81-84, 124-136).              *)
THEOREM WholeHeaderNeverThrows == Spec => [](~headerSplit => client # "out_of_range")
<1>1. IInv => (~headerSplit => client # "out_of_range")
  BY DEF IInv, FirstIsRead
<1>2. QED
  BY AlwaysIInv, <1>1, PTL

(* ParseRequest reads mHeader[0] of an empty header only in a first chunk:   *)
(* a session that has answered once never crashes (Request.cpp:36-54, 129).  *)
THEOREM CrashesBeforeItAnswers == Spec => [](server = "crashed" => answers = <<>>)
<1>1. IInv => (server = "crashed" => answers = <<>>)
  <2>1. "crashed" # "running"
    OBVIOUS
  <2>2. QED
    BY <2>1 DEF IInv, FirstIsServed
<1>2. QED
  BY AlwaysIInv, <1>1, PTL

-----------------------------------------------------------------------------
(* The requests of a program, each with such a connection: module Requests.  *)
(* That no request is sent twice and no thread is woken before its answer is *)
(* not inductive: a request is written once because FirstTime is reset by    *)
(* whoever writes first, while those that had tested it before write too     *)
(* (FirstTimeGuards); a notification comes after the answer because no chunk *)
(* is to come before the request is written, so that the value is set once   *)
(* and last (AnsweredOnce).                                                  *)
Steps == {"none", "client", "rx", "error", "connection", "waiting", "woken", "done"}

RequestTypes ==
  /\ FirstTime \in BOOLEAN /\ worker \in [Requests -> Steps]
  /\ link \in [Requests -> {"down", "up"}] /\ io \in [Requests -> {"idle", "first"}]
  /\ toCome \in [Requests -> Nat] /\ notifying \in [Requests -> BOOLEAN]
  /\ promise \in [Requests -> {"none", "value", "exception", "broken"}]
  /\ written \in [Requests -> Nat] /\ spurious \in SUBSET Requests

(* Who has tested FirstTime has not written, and after the first write       *)
(* nobody tests it successfully (Requests.cpp:124-129).                      *)
FirstTimeGuards ==
  \A r \in Requests :
    /\ written[r] > 0 => ~FirstTime /\ io[r] = "idle"
    /\ toCome[r] > 0 => written[r] > 0

(* The value is set by the last chunk, and the thread notified after it      *)
(* (Requests.cpp:100-105).                                                   *)
AnsweredOnce ==
  \A r \in Requests :
    /\ promise[r] = "value" => written[r] > 0 /\ toCome[r] = 0
    /\ notifying[r] => promise[r] = "value"
    /\ worker[r] \in {"woken", "done"} /\ r \notin spurious => promise[r] = "value"

RequestsIInv == RequestTypes /\ FirstTimeGuards /\ NeverSentTwice /\ AnsweredOnce

(* Nothing is connected, written or answered before the threads run.         *)
LEMMA InitRequests == RequestsInit => RequestsIInv
BY RequestsAssumption DEF RequestsInit, RequestsIInv, RequestTypes, Steps, FirstTimeGuards, NeverSentTwice,
       AnsweredOnce

(* No step of a request's threads or of the network breaks the types.        *)
LEMMA RequestTypesStep == RequestTypes /\ [RequestsNext]_requestVars => RequestTypes'
<1> SUFFICES ASSUME RequestTypes, [RequestsNext]_requestVars PROVE RequestTypes'
  OBVIOUS
<1> USE DEF RequestTypes
<1>1. ASSUME NEW r \in Requests, Advance(r) PROVE RequestTypes'
  <2>1. worker' \in [Requests -> Steps]
    BY <1>1 DEF Advance, Follows, Steps
  <2>2. QED
    BY <1>1, <2>1 DEF Advance, network, slots, result
<1>2. ASSUME NEW r \in Requests, Connected(r) PROVE RequestTypes'
  BY <1>2 DEF Connected, result
<1>3. ASSUME NEW r \in Requests, WriteData(r) PROVE RequestTypes'
  <2>1. FirstTime' = FALSE
    BY <1>3 DEF WriteData
  <2>2. FirstTime' \in BOOLEAN
    BY <2>1, Zenon
  <2>3. QED
    BY <1>3, <2>2, RequestsAssumption DEF WriteData, result
<1>4. ASSUME NEW r \in Requests, Refused(r) PROVE RequestTypes'
  BY <1>4 DEF Refused, Settle, slots, result
<1>5. ASSUME NEW r \in Requests, Rx(r) PROVE RequestTypes'
  <2>1. toCome' \in [Requests -> Nat]
    BY <1>5 DEF Rx
  <2>2. notifying' = notifying \/ notifying' = [notifying EXCEPT ![r] = (promise[r] = "none")]
    BY <1>5 DEF Rx
  <2>3. notifying' \in [Requests -> BOOLEAN]
    BY <2>2, Zenon
  <2>4. promise' \in [Requests -> {"none", "value", "exception", "broken"}]
    BY <1>5 DEF Rx, Settle, result
  <2>5. QED
    BY <1>5, <2>1, <2>3, <2>4 DEF Rx, slots
<1>6. ASSUME NEW r \in Requests, RxDestroyed(r) PROVE RequestTypes'
  BY <1>6 DEF RxDestroyed, network, slots
<1>7. ASSUME NEW r \in Requests, Notify(r) PROVE RequestTypes'
  BY <1>7 DEF Notify, network, slots, result, Steps
<1>8. ASSUME NEW r \in Requests, WakeUp(r) PROVE RequestTypes'
  BY <1>8 DEF WakeUp, network, slots, result, Steps
<1>9. ASSUME NEW r \in Requests, Close(r) PROVE RequestTypes'
  BY <1>9 DEF Close, slots, result
<1>10. ASSUME NEW r \in Requests, End(r) PROVE RequestTypes'
  BY <1>10 DEF End, network, slots, Steps
<1>11. CASE UNCHANGED requestVars
  BY <1>11 DEF requestVars, network, slots, result
<1>12. QED
  BY <1>1, <1>2, <1>3, <1>4, <1>5, <1>6, <1>7, <1>8, <1>9, <1>10, <1>11 DEF RequestsNext, Serve

(* Only the slot of the connection writes, and it is there once per test.    *)
LEMMA FirstTimeStep ==
  RequestTypes /\ FirstTimeGuards /\ NeverSentTwice /\ [RequestsNext]_requestVars => FirstTimeGuards' /\ NeverSentTwice'
<1> SUFFICES ASSUME RequestTypes, FirstTimeGuards, NeverSentTwice, [RequestsNext]_requestVars
             PROVE  FirstTimeGuards' /\ NeverSentTwice'
  OBVIOUS
<1> USE DEF RequestTypes, FirstTimeGuards, NeverSentTwice
<1>1. CASE UNCHANGED <<slots, toCome>>
  BY <1>1 DEF slots
<1>2. CASE \E r \in Requests : Advance(r) \/ RxDestroyed(r) \/ Notify(r) \/ WakeUp(r) \/ End(r)
  BY <1>1, <1>2 DEF Advance, RxDestroyed, Notify, WakeUp, End, network
<1>3. CASE \E r \in Requests : Refused(r) \/ Close(r)
  BY <1>1, <1>3 DEF Refused, Close
<1>4. ASSUME NEW r \in Requests, Connected(r) PROVE FirstTimeGuards' /\ NeverSentTwice'
  <2>1. /\ UNCHANGED <<FirstTime, written, toCome>>
        /\ io' = io \/ (FirstTime /\ io' = [io EXCEPT ![r] = "first"])
    BY <1>4 DEF Connected
  <2>2. QED
    BY <2>1
<1>5. ASSUME NEW r \in Requests, WriteData(r) PROVE FirstTimeGuards' /\ NeverSentTwice'
  <2>1. written[r] = 0
    BY <1>5 DEF WriteData
  <2>2. /\ ~FirstTime' /\ written' = [written EXCEPT ![r] = 1] /\ io' = [io EXCEPT ![r] = "idle"]
        /\ toCome' = [toCome EXCEPT ![r] = Chunks]
    BY <1>5, <2>1 DEF WriteData
  <2>3. QED
    BY <2>2
<1>6. ASSUME NEW r \in Requests, Rx(r) PROVE FirstTimeGuards' /\ NeverSentTwice'
  <2>1. toCome[r] > 0 /\ toCome' = [toCome EXCEPT ![r] = @ - 1] /\ UNCHANGED slots
    BY <1>6 DEF Rx
  <2>2. QED
    BY <2>1 DEF slots
<1>7. CASE UNCHANGED requestVars
  BY <1>1, <1>7 DEF requestVars, network
<1>8. QED
  BY <1>2, <1>3, <1>4, <1>5, <1>6, <1>7 DEF RequestsNext, Serve

(* A promise settled stays as it is, until its thread ends.                  *)
LEMMA AnsweredOnceStep == RequestsIInv /\ [RequestsNext]_requestVars => AnsweredOnce'
<1> SUFFICES ASSUME RequestsIInv, [RequestsNext]_requestVars PROVE AnsweredOnce'
  OBVIOUS
<1> USE DEF RequestsIInv, RequestTypes, AnsweredOnce
<1>1. ASSUME NEW r \in Requests, Advance(r) PROVE AnsweredOnce'
  <2>1. /\ worker[r] \in DOMAIN Follows /\ worker' = [worker EXCEPT ![r] = Follows[worker[r]]]
        /\ UNCHANGED <<promise, written, toCome, notifying, spurious>>
    BY <1>1 DEF Advance, network, slots, result
  <2>2. worker'[r] \notin {"woken", "done"}
    BY <2>1 DEF Follows
  <2>3. \A q \in Requests : worker'[q] \in {"woken", "done"} => worker[q] = worker'[q]
    BY <2>1, <2>2
  <2>4. QED
    BY <2>1, <2>3
<1>2. ASSUME NEW r \in Requests, Connected(r) PROVE AnsweredOnce'
  BY <1>2 DEF Connected, result
<1>3. ASSUME NEW r \in Requests, WriteData(r) PROVE AnsweredOnce'
  <2>1. written[r] = 0
    BY <1>3 DEF WriteData, FirstTimeGuards
  <2>2. promise[r] # "value"
    BY <2>1
  <2>3. QED
    BY <1>3, <2>2 DEF WriteData, result
<1>4. ASSUME NEW r \in Requests, Refused(r) PROVE AnsweredOnce'
  BY <1>4 DEF Refused, Settle, slots, result
<1>5. ASSUME NEW r \in Requests, Rx(r) PROVE AnsweredOnce'
  <2>1. /\ toCome[r] > 0 /\ toCome' = [toCome EXCEPT ![r] = @ - 1]
        /\ UNCHANGED <<written, worker, spurious>>
    BY <1>5 DEF Rx, slots
  <2>2. promise[r] # "value" /\ ~notifying[r]
    BY <2>1
  <2>3. CASE toCome[r] = 1 /\ promise[r] = "none"
    <3>1. promise' = [promise EXCEPT ![r] = "value"] /\ notifying' = [notifying EXCEPT ![r] = (promise[r] = "none")]
      BY <1>5, <2>3 DEF Rx, Settle
    <3>2. written[r] > 0 /\ toCome'[r] = 0
      BY <2>1, <2>3 DEF FirstTimeGuards
    <3>3. \A q \in Requests : q # r => promise'[q] = promise[q] /\ notifying'[q] = notifying[q] /\ toCome'[q] = toCome[q]
      BY <2>1, <3>1
    <3>4. promise'[r] = "value"
      BY <3>1
    <3>5. QED
      BY <2>1, <3>2, <3>3, <3>4
  <2>4. CASE ~(toCome[r] = 1 /\ promise[r] = "none")
    <3>1. promise' = promise
      BY <1>5, <2>4 DEF Rx, Settle, result
    <3>2. \A q \in Requests : notifying'[q] => notifying[q]
      BY <1>5, <2>2, <2>4 DEF Rx
    <3>3. QED
      BY <2>1, <2>2, <3>1, <3>2
  <2>5. QED
    BY <2>3, <2>4
<1>6. ASSUME NEW r \in Requests, RxDestroyed(r) PROVE AnsweredOnce'
  BY <1>6 DEF RxDestroyed, network, slots
<1>7. ASSUME NEW r \in Requests, Notify(r) PROVE AnsweredOnce'
  BY <1>7 DEF Notify, network, slots, result
<1>8. ASSUME NEW r \in Requests, WakeUp(r) PROVE AnsweredOnce'
  BY <1>8 DEF WakeUp, network, slots, result
<1>9. ASSUME NEW r \in Requests, Close(r) PROVE AnsweredOnce'
  BY <1>9 DEF Close, slots, result
<1>10. ASSUME NEW r \in Requests, End(r) PROVE AnsweredOnce'
  BY <1>10 DEF End, network, slots
<1>11. CASE UNCHANGED requestVars
  BY <1>11 DEF requestVars, network, slots, result
<1>12. QED
  BY <1>1, <1>2, <1>3, <1>4, <1>5, <1>6, <1>7, <1>8, <1>9, <1>10, <1>11 DEF RequestsNext, Serve

LEMMA RequestsStep == RequestsIInv /\ [RequestsNext]_requestVars => RequestsIInv'
BY RequestTypesStep, FirstTimeStep, AnsweredOnceStep DEF RequestsIInv

LEMMA AlwaysRequestsIInv == RequestsSpec => []RequestsIInv
<1>1. RequestsInit => RequestsIInv
  BY InitRequests
<1>2. RequestsIInv /\ [RequestsNext]_requestVars => RequestsIInv'
  BY RequestsStep
<1>3. QED
  BY <1>1, <1>2, PTL DEF RequestsSpec

(* However many requests a program makes at once and however often their     *)
(* clients reconnect, none is sent twice (Requests.cpp:124-129).             *)
THEOREM SentOnce == RequestsSpec => []NeverSentTwice
<1>1. RequestsIInv => NeverSentTwice
  BY DEF RequestsIInv
<1>2. QED
  BY AlwaysRequestsIInv, <1>1, PTL

(* A thread that was notified, and so destroys what its slots refer to, has  *)
(* its answer and will receive no more of it (Requests.cpp:100-105, 134).    *)
THEOREM WokenAfterTheAnswer == RequestsSpec => []WokenWhenAnswered
<1>1. RequestsIInv => WokenWhenAnswered
  BY DEF RequestsIInv, RequestTypes, AnsweredOnce, WokenWhenAnswered
<1>2. QED
  BY AlwaysRequestsIInv, <1>1, PTL

-----------------------------------------------------------------------------
(* The program has written a request and r has not found FirstTime set.      *)
TooLate(r) == ~FirstTime /\ io[r] = "idle" /\ written[r] = 0

LEMMA TooLateStep == ASSUME NEW r \in Requests, RequestTypes, TooLate(r), [RequestsNext]_requestVars PROVE TooLate(r)'
<1> USE DEF TooLate
<1>1. CASE UNCHANGED slots
  BY <1>1 DEF slots
<1>2. ASSUME NEW q \in Requests, Connected(q) PROVE TooLate(r)'
  BY <1>2 DEF Connected
<1>3. ASSUME NEW q \in Requests, WriteData(q) PROVE TooLate(r)'
  BY <1>3 DEF WriteData, RequestTypes
<1>4. QED
  BY <1>1, <1>2, <1>3 DEF RequestsNext, Serve, Advance, Refused, Rx, RxDestroyed, Notify, WakeUp,
                          Close, End, requestVars

(* The static FirstTime serves the whole program: a request that has not     *)
(* tested it when the first one was written is never written, whatever its   *)
(* client does (Requests.cpp:124).                                           *)
THEOREM LatecomersAreNotWritten ==
  ASSUME NEW r \in Requests
  PROVE  RequestsSpec => [](TooLate(r) => [](written[r] = 0))
<1>1. RequestTypes /\ TooLate(r) /\ [RequestsNext]_requestVars => TooLate(r)'
  BY TooLateStep
<1>2. TooLate(r) => written[r] = 0
  BY DEF TooLate
<1>3. RequestsIInv => RequestTypes
  BY DEF RequestsIInv
<1>4. QED
  BY AlwaysRequestsIInv, <1>1, <1>2, <1>3, PTL DEF RequestsSpec
=============================================================================
