-------------------------------- MODULE Http --------------------------------
(***************************************************************************)
(* One connection between dl::http::Server (Http/Http/Server.cpp), which    *)
(* parses what a session receives with the one Request of that session      *)
(* (Request.cpp) and writes the answer of the registered callback, and a    *)
(* client that parses the answers with a Responce (Responce.cpp) and        *)
(* promises the first it accepts, as dl::request does.  Tcp splits both     *)
(* streams anywhere.  A stream is a sequence of words: NL stands for \r\n,  *)
(* the rest for the words the parsers look at and for lines and body.       *)
(***************************************************************************)
EXTENDS Naturals, Sequences, SequencesExt, FiniteSetsExt

CONSTANTS
  Words,         \* what the two streams are made of
  Asks,          \* what the client may ask: records of a first line and a body
  Answers,       \* what the callback of each route makes: its status and body
  MaxBody,       \* the longest of those bodies, and at least that of an error
  LengthLine(_), \* the header line that Responce's constructor makes of a length
  MaxAsks,       \* bound: requests on the connection
  MaxReads       \* bound: chunks the server reads

NL == "NL"
Blank == <<NL, NL>>

(* A status is a number: neither the one a Responce starts with, nor what no *)
(* number can be read from.                                                  *)
Answer == [status : Words \ {NL, "eUninitialized", "throws"}, body : Seq(Words)]
AskType == [line : Seq(Words \ {NL}), body : Seq(Words)]

ASSUME HttpAssumption ==
  /\ {NL, "HTTP/1.1", "Date", "Host", "0", "error"} \subseteq Words
  /\ {MaxBody, MaxAsks, MaxReads} \subseteq Nat /\ MaxBody > 0
  /\ Asks \subseteq AskType
  /\ \A route \in DOMAIN Answers : Answers[route] \in Answer /\ Len(Answers[route].body) <= MaxBody

(* A length can be told from its line, and from every other line.            *)
ASSUME LengthAssumption ==
  \A n \in 0..MaxBody :
    /\ LengthLine(n) \in Words \ {NL, "Date"}
    /\ \A m \in 0..MaxBody : LengthLine(m) = LengthLine(n) => m = n

VARIABLES
  mCallbacks,    \* the routes registered with the server
  request,       \* the session's Request
  server,        \* "running", or "crashed" after reading through a null pointer
  toServer,      \* bytes written by the client and not read yet
  toClient,      \* bytes written by the server and not read yet
  responce,      \* the client's Responce
  client,        \* "reading", "accepted", or the exception that left its slot
  promised,      \* what Promise.set_value was given
  asked,         \* the requests, each with the routes registered when it was written
  answers,       \* the answers the server has written
  reads,         \* chunks the server has read
  headerSplit    \* the first chunk of the answer ended before its header did

wires == <<toServer, toClient>>
vars == <<mCallbacks, request, server, wires, responce, client, promised, asked, answers, reads, headerSplit>>

(* Where `mark` begins in `bytes`; std::string::find finds the first place.  *)
Places(mark, bytes) ==
  {i \in 1..Len(bytes) + 1 - Len(mark) : SubSeq(bytes, i, i + Len(mark) - 1) = mark}
Has(mark, bytes) == Places(mark, bytes) # {}
Before(mark, bytes) == SubSeq(bytes, 1, Min(Places(mark, bytes)) - 1)
After(mark, bytes) == SubSeq(bytes, Min(Places(mark, bytes)) + Len(mark), Len(bytes))

-----------------------------------------------------------------------------
(* Request.  Its content length is never set to anything but 0.              *)
NewRequest == [mBytes |-> <<>>, mRequestType |-> "eUnknown", mUrl |-> "/",
               mHeader |-> <<>>, mContentLength |-> 0, mBody |-> <<>>]

TypeOfWord(word) == CASE word = "GET" -> "eGet" [] word = "POST" -> "ePost" [] OTHER -> "eUnknown"

(* The first line of the header, which is not empty, split at its blanks.    *)
ParseRequest(r) ==
  LET line == IF Has(<<NL>>, r.mHeader) THEN Before(<<NL>>, r.mHeader) ELSE r.mHeader
  IN IF Len(line) < 2
       THEN [r EXCEPT !.mRequestType = "eFail"]
       ELSE [r EXCEPT !.mRequestType = TypeOfWord(line[1]), !.mUrl = line[2]]

(* ParseHeader, as far as ParseRequest may read mHeader[0].                  *)
ParseRequestHeader(r) ==
  IF r.mHeader = <<>> /\ Has(Blank, r.mBytes)
    THEN [r EXCEPT !.mHeader = Before(Blank, r.mBytes), !.mBytes = After(Blank, r.mBytes)]
    ELSE r

(* mHeader[0] of an empty vector: there is no string to read.                *)
ReadsNoHeader(r) == r.mRequestType = "eUnknown" /\ r.mHeader = <<>>

(* Request::ParseBody, true for any bytes.                                   *)
TakeRequestBody(r) == [r EXCEPT !.mBody = r.mBytes, !.mBytes = <<>>]

(* Request::AddBytes, on the bytes as ParseRequestHeader leaves them.        *)
AddToRequest(r) ==
  TakeRequestBody(IF r.mRequestType = "eUnknown" THEN ParseRequest(r) ELSE r)

-----------------------------------------------------------------------------
(* Responce.                                                                 *)
NewResponce == [mBytes |-> <<>>, mStatus |-> "eUninitialized", mHeader |-> <<>>,
                mContentLength |-> 0, mBody |-> <<>>]

ErrorAnswer == [status |-> "0", body |-> <<"error">>]


(* Mutant of ToBytes: the length counts the byte that ends a C string.       *)
ToBytesLong(answer) ==
  <<"HTTP/1.1", answer.status, NL, "Date", NL, LengthLine(Len(answer.body) + 1)>>
    \o Blank \o answer.body

(* GenerateResponce and ToBytes; a line stands for the lines nobody parses.  *)
ToBytes(answer) ==
  <<"HTTP/1.1", answer.status, NL, "Date", NL, LengthLine(Len(answer.body))>>
    \o Blank \o answer.body

(* ParseStatus skips the eight characters of HTTP/1.1.  On another line it   *)
(* finds some number or none, or, with no eight bytes there, substr throws.  *)
Statuses(r) ==
  IF r.mStatus # "eUninitialized" \/ ~Has(<<NL>>, r.mBytes)
    THEN {r}
    ELSE LET line == Before(<<NL>>, r.mBytes)
             status == IF Len(line) = 2 /\ line[1] = "HTTP/1.1" THEN {line[2]}
                       ELSE {"other", "throws"}
         IN {[r EXCEPT !.mStatus = s, !.mBytes = After(<<NL>>, r.mBytes)] : s \in status}

(* Mutant of ParseHeader: of the blank line only one line break is removed.  *)
ParseHeaderHalf(r) ==
  IF r.mHeader # <<>> \/ ~Has(Blank, r.mBytes)
    THEN r
    ELSE LET header == Before(Blank, r.mBytes)
             lengths == {n \in 0..MaxBody : LengthLine(n) \in ToSet(header)}
         IN [r EXCEPT !.mHeader = header, !.mBytes = <<NL>> \o After(Blank, @),
                      !.mContentLength = IF lengths = {} THEN 1 ELSE CHOOSE n \in lengths : TRUE]

(* ParseHeader and ParseContentLength, which adds a blank if there is none.  *)
ParseHeader(r) ==
  IF r.mHeader # <<>> \/ ~Has(Blank, r.mBytes)
    THEN r
    ELSE LET header == Before(Blank, r.mBytes)
             rest == After(Blank, r.mBytes)
             lengths == {n \in 0..MaxBody : LengthLine(n) \in ToSet(header)}
         IN IF lengths = {}
              THEN [r EXCEPT !.mHeader = header, !.mBytes = Append(rest, " "), !.mContentLength = 1]
              ELSE [r EXCEPT !.mHeader = header, !.mBytes = rest,
                             !.mContentLength = CHOOSE n \in lengths : TRUE]

-----------------------------------------------------------------------------
Init ==
  /\ mCallbacks = {} /\ request = NewRequest /\ server = "running"
  /\ toServer = <<>> /\ toClient = <<>>
  /\ responce = NewResponce /\ client = "reading" /\ promised = NewResponce
  /\ asked = <<>> /\ answers = <<>> /\ reads = 0 /\ headerSplit = FALSE

(* Server::Register, by the user's thread: the server accepts already.       *)
Register(route) ==
  /\ route \notin mCallbacks /\ mCallbacks' = mCallbacks \cup {route}
  /\ UNCHANGED <<request, server, wires, responce, client, promised, asked, answers, reads, headerSplit>>

(* The client writes a request; it need not wait for the answer to another.  *)
Ask(ask) ==
  /\ Len(asked) < MaxAsks
  /\ asked' = Append(asked, [ask |-> ask, registered |-> mCallbacks])
  /\ toServer' = toServer \o ask.line \o <<NL, "Host">> \o Blank \o ask.body
  /\ UNCHANGED <<mCallbacks, request, server, toClient, responce, client, promised, answers, reads,
                 headerSplit>>

(* Server::ParseRequest: what the callbacks registered make of a request.    *)
AnswerTo(r) ==
  LET route == [type |-> r.mRequestType, url |-> r.mUrl]
  IN IF route \in mCallbacks THEN Answers[route] ELSE ErrorAnswer

(* mSignalOnRx of the session: AddBytes of a chunk, and Write of the answer. *)
ServerRx(n) ==
  /\ server = "running" /\ n \in 1..Len(toServer)
  /\ reads < MaxReads /\ reads' = reads + 1
  /\ toServer' = SubSeq(toServer, n + 1, Len(toServer))
  /\ LET parsed == ParseRequestHeader([request EXCEPT !.mBytes = @ \o SubSeq(toServer, 1, n)])
         added == AddToRequest(parsed)
     IN IF ReadsNoHeader(parsed)
          THEN server' = "crashed" /\ UNCHANGED <<request, answers, toClient>>
          ELSE /\ request' = added /\ answers' = Append(answers, AnswerTo(added))
               /\ toClient' = toClient \o ToBytes(AnswerTo(added))
               /\ UNCHANGED server
  /\ UNCHANGED <<mCallbacks, responce, client, promised, asked, headerSplit>>

(* The client's slot: Responce::AddBytes of a chunk moves all there is to    *)
(* the body and returns TRUE if that is as long as mContentLength, and the   *)
(* slot promises a copy.  Until the client is destroyed more chunks may come *)
(* to the same Responce; a promise is settled only once.                     *)
ClientRx(n) ==
  /\ client \in {"reading", "accepted"} /\ n \in 1..Len(toClient)
  /\ toClient' = SubSeq(toClient, n + 1, Len(toClient))
  /\ headerSplit' = (headerSplit \/ (responce = NewResponce /\ ~Has(Blank, SubSeq(toClient, 1, n))))
  /\ \E status \in Statuses([responce EXCEPT !.mBytes = @ \o SubSeq(toClient, 1, n)]) :
       LET parsed == ParseHeader(status)
       IN \/ /\ status.mStatus = "throws"
             /\ client' = "out_of_range" /\ UNCHANGED <<responce, promised>>
          \/ /\ status.mStatus # "throws" /\ Len(parsed.mBytes) >= parsed.mContentLength
             /\ responce' = [parsed EXCEPT !.mBody = parsed.mBytes, !.mBytes = <<>>]
             /\ IF client = "reading"
                  THEN client' = "accepted" /\ promised' = responce'
                  ELSE client' = "future_error" /\ UNCHANGED promised
          \/ /\ status.mStatus # "throws" /\ Len(parsed.mBytes) < parsed.mContentLength
             /\ responce' = parsed /\ UNCHANGED <<client, promised>>
  /\ UNCHANGED <<mCallbacks, request, server, toServer, asked, answers, reads>>

Next ==
  \/ \E route \in DOMAIN Answers : Register(route)
  \/ \E ask \in Asks : Ask(ask)
  \/ \E n \in 1..Len(toServer) : ServerRx(n)
  \/ \E n \in 1..Len(toClient) : ClientRx(n)

Spec == Init /\ [][Next]_vars

(* What is written arrives and the slots run, the client's until it accepts. *)
FairSpec == Spec /\ WF_vars(\E n \in 1..Len(toServer) : ServerRx(n))
                 /\ WF_vars(client = "reading" /\ \E n \in 1..Len(toClient) : ClientRx(n))

-----------------------------------------------------------------------------
Routed(ask) ==
  [type |-> IF Len(ask.line) < 2 THEN "eFail" ELSE TypeOfWord(ask.line[1]),
   url |-> IF Len(ask.line) < 2 THEN "/" ELSE ask.line[2]]

(* A client that accepts an answer whose header came in one chunk promises   *)
(* what the callback of its first request made, if that was registered by    *)
(* then, in however many chunks the request's body, the answer's body and    *)
(* other requests came; and nothing after it, as long as no other answer was *)
(* written (Request.cpp:36-54, Responce.cpp:74-92, 208-215, Server.cpp:49-60, *)
(* Requests.cpp:97-106).                                                     *)
AcceptedIsAnswer ==
  client # "reading" /\ ~headerSplit =>
    LET first == answers[1]
        route == Routed(asked[1].ask)
    IN /\ promised.mStatus = first.status /\ IsPrefix(first.body, promised.mBody)
       /\ Len(answers) = 1 => promised.mBody = first.body
       /\ route \in asked[1].registered => first = Answers[route]

(* Whatever the chunks, a client that asks comes to an end: it accepts an    *)
(* answer, unless the server crashes on a header in parts; no answer leaves  *)
(* it waiting for bytes that never come (Responce.cpp:157-190).              *)
NoEndlessWait ==
  asked # <<>> ~> client # "reading" \/ server = "crashed"
=============================================================================
