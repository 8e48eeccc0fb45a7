-------------------------------- MODULE Rtsp --------------------------------
(***************************************************************************)
(* The RTSP client of the AirPlay 2 streamer script: requests that are     *)
(* answered one by one, the reader that takes an answer apart while its    *)
(* bytes arrive in pieces, and the reaction to a 401.  Text is made of     *)
(* words: a recv that ends inside a word leaves the same two fragments of  *)
(* a line as one that ends beside it.                                      *)
(***************************************************************************)
EXTENDS Naturals, Sequences, FiniteSetsExt

CONSTANTS
  Requests,   (* bound: requests of the script                      *)
  RecvMax,    (* words taken by one recv: 128 bytes                 *)
  MaxPieces,  (* bound: recv calls that take less than they could   *)
  BodyLen     (* length of a body, the value of Content-Length      *)

ASSUME RtspAssumption ==
  Requests \in Nat /\ RecvMax \in Nat \ {0} /\ MaxPieces \in Nat /\ BodyLen \in Nat

White == {" ", "CR", "LF"}
Numbers == {"200", "401", "length", "n"}
Keys == {"Content-Length", "Date", "WWW-Authenticate"}
Bodies == [1 .. BodyLen -> {"b", "LF"}]

VARIABLES
  pc,       (* what _request is about to do                          *)
  req,      (* requests made                                         *)
  pending,  (* the peer has a request it has not answered            *)
  stream,   (* bytes from the peer, not received yet                 *)
  closed,   (* the peer has closed the connection                    *)
  headers,  (* the lines of the answer so far                        *)
  buf,      (* the body so far                                       *)
  status,   (* status of the answer                                  *)
  auth_attempts, (* answers with a 401                               *)
  pieces,   (* recv calls that took less than they could             *)
  answers,  (* history: the bodies the peer has sent                 *)
  results,  (* history: the bodies returned to the script            *)
  spoiled   (* history: a recv of headers left half a line blank     *)

answer == <<headers, buf, status>>
vars == <<pc, req, pending, stream, closed, answer, pieces,
          auth_attempts, answers, results, spoiled>>

Reading == {"headers", "body"}

Init ==
  /\ pc = "idle" /\ req = 0 /\ pending = FALSE /\ stream = <<>> /\ closed = FALSE
  /\ headers = <<>> /\ buf = <<>> /\ status = "" /\ pieces = 0
  /\ auth_attempts = 0 /\ answers = <<>> /\ results = <<>> /\ spoiled = FALSE

-----------------------------------------------------------------------------
(* Sending.                                                                  *)

(* The conditional expression covers the whole message: a request without     *)
(* data sends nothing.                                                       *)
Sends(data) == data

(* Every request of the script has data.  Its answer is awaited at once; a    *)
(* connection the peer has left may refuse it.                               *)
Request ==
  /\ pc = "idle" /\ req < Requests
  /\ req' = req + 1
  /\ \/ pc' = "headers" /\ pending' = (Sends(TRUE) /\ ~closed)
     \/ pc' = "error" /\ closed /\ UNCHANGED pending
  /\ headers' = <<>> /\ buf' = <<>>
  /\ UNCHANGED <<stream, closed, status, pieces, auth_attempts, answers, results, spoiled>>

(* sys.exit behind the last request. *)
Exit ==
  /\ pc = "idle" /\ req = Requests
  /\ pc' = "exit"
  /\ UNCHANGED <<req, pending, stream, closed, answer, pieces>>
  /\ UNCHANGED <<auth_attempts, answers, results, spoiled>>

-----------------------------------------------------------------------------
(* The peer.                                                                 *)

Line(words) == words \o <<"CR", "LF">>
Header(key, value) == Line(<<key, " ", value>>)

Heads(code) ==
  LET status_line == Line(<<"RTSP/1.0", " ", code>>)
      length == Header("Content-Length", "length")
      date == Line(<<"Date", " ", "time", "n">>)
      auth == IF code = "401" THEN Header("WWW-Authenticate", "Digest") ELSE <<>>
  IN {status_line \o length \o date \o auth, status_line \o date \o auth \o length,
      status_line \o date \o auth}

Answer ==
  /\ pending /\ ~closed
  /\ \E code \in {"200", "401"}, body \in Bodies : \E head \in Heads(code) :
       /\ stream' = stream \o head \o Line(<<>>) \o body
       /\ answers' = Append(answers, body)
  /\ pending' = FALSE
  /\ UNCHANGED <<pc, req, closed, answer, pieces, auth_attempts, results, spoiled>>

(* What was sent before can still be read; or it is lost in a reset.         *)
Close ==
  /\ ~closed /\ closed' = TRUE
  /\ UNCHANGED <<pc, req, pending, stream, answer, pieces>>
  /\ UNCHANGED <<auth_attempts, answers, results, spoiled>>

Reset ==
  /\ closed /\ pc \in Reading
  /\ pc' = "error"
  /\ UNCHANGED <<req, pending, stream, closed, answer, pieces>>
  /\ UNCHANGED <<auth_attempts, answers, results, spoiled>>

-----------------------------------------------------------------------------
(* Reading the headers.                                                      *)

(* Where the lines of a chunk end, as the iteration over a BytesIO gives them: *)
(* the last one may lack its line feed.                                      *)
Ends(chunk) ==
  LET ends[i \in 0 .. Len(chunk)] ==
        IF i = 0 THEN <<>>
        ELSE IF chunk[i] = "LF" \/ i = Len(chunk) THEN Append(ends[i - 1], i)
        ELSE ends[i - 1]
  IN ends[Len(chunk)]

Lines(chunk) ==
  LET ends == Ends(chunk)
  IN [k \in DOMAIN ends |-> SubSeq(chunk, IF k = 1 THEN 1 ELSE ends[k - 1] + 1, ends[k])]

OnlyFeed(line) == line = <<"LF">>                \* seeded fault: CR not stripped
(* rstrip() of it is empty. *)
Blank(line) == \A i \in DOMAIN line : line[i] \in White

Words(line) == SelectSeq(line, LAMBDA w : w \notin White)

(* Keys are stored in lower case. *)
Lower(key) ==
  CASE key = "Content-Length" -> "content-length"
    [] key = "Date" -> "date"
    [] key = "WWW-Authenticate" -> "www-authenticate"
    [] OTHER -> key

(* line.split(':', 1): a key has a colon behind it, and "time" has colons in   *)
(* it; with anything else in front of its colon a line has another key.  The  *)
(* last line with a key counts, because `if k not in headers' compares the key *)
(* as received with the stored ones.                                          *)
HasColon(line) == \E i \in DOMAIN line : line[i] \in Keys \cup {"time"}
At(lines, key) == {k \in 2 .. Len(lines) : Lower(lines[k][1]) = key}

(* split(None, 2) of the first line gives two words, the second a number.     *)
CodeAt(line) ==
  {i \in 3 .. Len(line) : /\ line[i] \in Numbers /\ line[i - 1] = " "
                          /\ \A j \in 1 .. i - 2 : line[j] \notin White}

(* int(headers['content-length']) does not raise. *)
HasLength(lines) ==
  LET at == At(lines, "content-length")
  IN at # {} /\ Words(lines[Max(at)]) = <<"Content-Length", "length">>

Parses(lines) ==
  /\ lines # <<>> /\ CodeAt(lines[1]) # {}
  /\ \A k \in 2 .. Len(lines) : HasColon(lines[k])
  /\ HasLength(lines)

(* The number of words the next recv takes of at most `limit'.                *)
Taken(limit) ==
  LET most == Min({limit, Len(stream)})
  IN IF pieces < MaxPieces THEN 1 .. most ELSE {most}

Counted(n, limit) == pieces + (IF n < Min({limit, Len(stream)}) THEN 1 ELSE 0)

(* What the reader makes of a chunk.  The fragment of a line at its end is a   *)
(* line like the others: nothing is kept in buf for the next recv.  The first *)
(* blank line ends the headers, and what is behind it belongs to the body.    *)
Take(chunk) ==
  LET lines == Lines(chunk)
      blank == {k \in DOMAIN lines : Blank(lines[k])}
      more == IF blank = {} THEN Len(lines) ELSE Min(blank) - 1
      last == IF blank = {} THEN Len(chunk) ELSE Ends(chunk)[Min(blank)]
  IN [headers |-> headers \o SubSeq(lines, 1, more),
      done |-> blank # {},
      rest |-> SubSeq(chunk, last + 1, Len(chunk)),
      cut |-> chunk[last] # "LF"]

(* A recv ended inside a line, and one of the halves of that line is blank:    *)
(* the one it took, or the one it left.                                       *)
BeginsBlank(s) == \E i \in DOMAIN s : s[i] = "LF" /\ \A j \in 1 .. i : s[j] \in White
Spoils(got, left) == got.cut /\ (got.done \/ BeginsBlank(left))

Parsed(lines) ==
  IF Parses(lines) THEN pc' = "body" /\ status' = lines[1][Min(CodeAt(lines[1]))]
                   ELSE pc' = "error" /\ UNCHANGED status

RecvHeaders ==
  /\ pc = "headers" /\ stream # <<>>
  /\ \E n \in Taken(RecvMax) : \E got \in {Take(SubSeq(stream, 1, n))} :
       /\ headers' = got.headers /\ buf' = got.rest
       /\ IF got.done THEN Parsed(got.headers) ELSE UNCHANGED <<pc, status>>
       /\ pieces' = Counted(n, RecvMax)
       /\ stream' = SubSeq(stream, n + 1, Len(stream))
       /\ spoiled' = (spoiled \/ Spoils(got, stream'))
  /\ UNCHANGED <<req, pending, closed, auth_attempts, answers, results>>

-----------------------------------------------------------------------------
(* Reading the body, and what _request makes of the answer.                  *)

OneShort == IF BodyLen <= Len(buf) + 1 THEN 0   \* seeded fault: last byte left
            ELSE BodyLen - Len(buf) - 1
ToRead == IF BodyLen <= Len(buf) THEN 0 ELSE BodyLen - Len(buf)

RecvBody ==
  /\ pc = "body" /\ ToRead > 0 /\ stream # <<>>
  /\ \E n \in Taken(ToRead) :
       /\ buf' = buf \o SubSeq(stream, 1, n)
       /\ stream' = SubSeq(stream, n + 1, Len(stream))
       /\ pieces' = Counted(n, ToRead)
  /\ UNCHANGED <<pc, req, pending, closed, headers, status>>
  /\ UNCHANGED <<auth_attempts, answers, results, spoiled>>

NotRewound == <<>>                              \* seeded fault: no buf.seek(0)
(* Bytes beyond body_len are dropped. *)
Body == SubSeq(buf, 1, Min({BodyLen, Len(buf)}))

Return ==
  /\ pc = "body" /\ ToRead = 0 /\ status # "401"
  /\ pc' = "idle" /\ results' = Append(results, Body)
  /\ UNCHANGED <<req, pending, stream, closed, answer, pieces, auth_attempts, answers, spoiled>>

LowerKey == "www-authenticate"                  \* seeded fault: retry on a 401
AuthKey == "WWW-Authenticate"

(* response.headers[AuthKey]: where it is found, the request is repeated      *)
(* without its data; where it is not, the KeyError ends the script, as the   *)
(* fourth 401 does before it is looked up.                                   *)
Unauthorised ==
  /\ pc = "body" /\ ToRead = 0 /\ status = "401"
  /\ auth_attempts' = auth_attempts + 1
  /\ IF auth_attempts' <= 3 /\ At(headers, AuthKey) # {}
       THEN pc' = "headers" /\ pending' = Sends(FALSE) /\ headers' = <<>> /\ buf' = <<>>
       ELSE pc' = "error" /\ UNCHANGED <<pending, headers, buf>>
  /\ UNCHANGED <<req, stream, closed, status, pieces, answers, results, spoiled>>

-----------------------------------------------------------------------------

Read == RecvHeaders \/ RecvBody \/ Return \/ Unauthorised
Next == Request \/ Exit \/ Answer \/ Close \/ Reset \/ Read
Spec == Init /\ [][Next]_vars
FairSpec == Spec /\ WF_vars(Answer) /\ WF_vars(Read)

-----------------------------------------------------------------------------
(* Properties.                                                               *)

(* A recv that ends inside a line of headers makes two lines of it.  Unless   *)
(* one of the two is blank and taken for the end of the headers, which is the *)
(* cut `spoiled' records, that never gives a wrong body: however the answers  *)
(* are cut and whatever their bodies hold, each request that returns, returns *)
(* the body the peer sent for it, whole and with nothing else in it.          *)
BodiesExact ==
  ~spoiled => \A k \in DOMAIN results : results[k] = answers[k]

(* With that one kind of cut excepted, nothing of an answer is left on the     *)
(* connection when the next request goes out, so no two answers run into each  *)
(* other.                                                                      *)
NothingLeft == ~spoiled /\ pc = "idle" => stream = <<>>

(* Every wait for an answer ends, with a result or an error, wherever the      *)
(* answer is cut and with a 401 too, unless the peer closes the connection:    *)
(* then recv returns no bytes, and the loop goes on for ever.                 *)
WaitEnds == pc \in Reading ~> (pc \notin Reading \/ closed)

-----------------------------------------------------------------------------
(* The inductive invariant behind BodiesExact and NothingLeft.               *)

Text == White \cup Numbers \cup Keys \cup {"RTSP/1.0", "Digest", "time", "b"}

TypeOK ==
  /\ pc \in {"idle", "headers", "body", "error", "exit"}
  /\ req \in 0 .. Requests /\ pending \in BOOLEAN /\ closed \in BOOLEAN
  /\ stream \in Seq(Text) /\ buf \in Seq(Text) /\ headers \in Seq(Seq(Text))
  /\ status \in Numbers \cup {""} /\ pieces \in 0 .. MaxPieces
  /\ answers \in Seq(Bodies) /\ results \in Seq(Seq(Text))
  /\ auth_attempts \in Nat /\ spoiled \in BOOLEAN

(* The line that ends at i holds a word. *)
Filled(s, i) ==
  \E j \in 1 .. i - 1 : s[j] \notin White /\ \A l \in j .. i - 1 : s[l] # "LF"

(* The first blank line of s ends at z. *)
HeadEnds(s, z) ==
  /\ z \in 2 .. Len(s) /\ s[z - 1] = "CR" /\ s[z] = "LF" /\ (z = 2 \/ s[z - 2] = "LF")
  /\ \A i \in 1 .. z - 1 : s[i] = "LF" => Filled(s, i)

(* The answer that s begins with: behind its headers comes body. *)
Holds(s, body) ==
  \E z \in DOMAIN s : HeadEnds(s, z) /\ SubSeq(s, z + 1, Len(s)) = body

(* No answer has come yet; or the rest of one is in stream, from the beginning  *)
(* of a line on or from inside one, if there is a word left of it.              *)
Awaited == stream = <<>> /\ Len(answers) = Len(results)
Arriving ==
  /\ ~pending /\ Len(answers) = Len(results) + 1
  /\ Holds(stream, answers[Len(answers)])

ReaderInv == ~spoiled =>
  /\ Len(results) <= Len(answers) /\ BodiesExact
  /\ pc = "idle" => ~pending /\ stream = <<>> /\ Len(answers) = Len(results)
  /\ pc = "headers" => Awaited \/ Arriving
  /\ pc = "body" => /\ ~pending /\ Len(answers) = Len(results) + 1
                    /\ buf \o stream = answers[Len(answers)]
=============================================================================
