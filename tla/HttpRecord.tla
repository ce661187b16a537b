----------------------------- MODULE HttpRecord -----------------------------
(***************************************************************************)
(* The HTTP parser in record mode: encodeOutgoingHttp and the framing      *)
(* helpers it calls (src/pkg/proxy/integrations/httpparser/httpparser.go). *)
(* One intercepted connection: the proxy relays a keep-alive chain of      *)
(* requests from the application (the client) to the destination server  *)
(* and their responses back, frames each message by its headers, and       *)
(* records each request/response pair as a mock.                           *)
(*                                                                         *)
(* Data abstraction.  A message is a sequence of segments, one per write  *)
(* of its sender, and one util.ReadBytes returns one segment.  A segment   *)
(* records only what the framing code looks at: whether it holds part of  *)
(* the headers or their end ("\r\n\r\n"), how many body bytes it holds,    *)
(* and whether it ends with the last chunk "0\r\n\r\n" (term = "suffix")  *)
(* or is exactly that chunk (term = "alone").  The header lines are those *)
(* of the message's shape: its framing, Content-Length, Expect and host.  *)
(* Time is abstracted: once a read deadline has been set on a connection, *)
(* a read that finds nothing may time out if peers are slow.               *)
(*                                                                         *)
(* Not in the sources, taken from the specification: util.ReadBytes       *)
(* returns the next segment, possibly together with io.EOF when the peer  *)
(* has closed after it, and io.EOF alone once the peer has closed.  A     *)
(* write to a closed peer fails.                                           *)
(***************************************************************************)
EXTENDS Integers, SequencesExt

CONSTANTS
  N,              \* exchanges the client makes on the connection
  ReqShape,       \* ReqShape[i]: shape of the i-th request
  RespShape,      \* RespShape[i]: shape of the i-th response
  SlowPeers,      \* a peer may take longer than a read deadline
  ServerMayClose, \* the server may close the connection at any time
  ClientMayAbort, \* the client may close the connection at any time
  ServerSkips100  \* the server may answer an Expect: 100-continue request at
                  \* once, without 100 Continue

\* A shape: framing is "length", "chunked" or "none"; segs[k] gives hdr
\* ("part", "end", "none"), body (bytes) and term ("none", "alone", "suffix").
ASSUME ShapesAssumption ==
  /\ N \in Nat
  /\ \A i \in 1..N : \A sh \in {ReqShape[i], RespShape[i]} :
        /\ sh.framing \in {"length", "chunked", "none"} /\ sh.clen \in Nat
        /\ sh.expect \in BOOLEAN /\ sh.pass \in BOOLEAN /\ Len(sh.segs) > 0
ASSUME FlagsAssumption ==
  {SlowPeers, ServerMayClose, ClientMayAbort, ServerSkips100} \subseteq BOOLEAN

\* The k-th segment of message i in direction dir; the 100 Continue reply.
MkSeg(dir, i, k) ==
  LET sh == IF dir = "req" THEN ReqShape[i] ELSE RespShape[i]
  IN  [id |-> <<dir, i, k>>, hdr |-> sh.segs[k].hdr, body |-> sh.segs[k].body,
       term |-> sh.segs[k].term]
ContinueSeg(i) == [id |-> <<"cont", i, 0>>, hdr |-> "end", body |-> 0, term |-> "none"]
ReqSegs(i) == [k \in 1..Len(ReqShape[i].segs) |-> MkSeg("req", i, k)]
RespSegs(i) == [k \in 1..Len(RespShape[i].segs) |-> MkSeg("resp", i, k)]
IsContinue(seg) == seg.id[1] = "cont"
ShapeOf(seg) == IF seg.id[1] = "req" THEN ReqShape[seg.id[2]] ELSE RespShape[seg.id[2]]
\* Index of the segment that ends request i's headers.
HeadSegs(i) == CHOOSE k \in 1..Len(ReqShape[i].segs) : ReqShape[i].segs[k].hdr = "end"

VARIABLES
  pc,          \* where encodeOutgoingHttp is
  finalReq,    \* finalReq: the request read so far
  finalResp,   \* finalResp: the response read so far
  resp,        \* resp in handleChunkedResponses
  remaining,   \* contentLength in contentLengthRequest / contentLengthResponse
  cDeadline,   \* a read deadline has been set on clientConn
  dDeadline,   \* a read deadline has been set on destConn
  result,      \* what encodeOutgoingHttp returned: "none", "ok", "error"
  inflight,    \* mocks handed to AppendMocks goroutines not yet appended
  mocks,       \* mocks appended, in order
  cToP, pToS, sToP, \* segments in flight: client to proxy, proxy to server, server to proxy
  toClient,    \* every segment the proxy wrote to the client
  toServer,    \* every segment the proxy wrote to the server
  ci, cw, cClosed, cSent,      \* client: exchange, segments written, closed, all written
  si, sGot, sw, s100, sClosed, sSent \* server: exchange, segments read and
                                     \* written, 100 sent, closed, all written

proxyVars == <<pc, finalReq, finalResp, resp, remaining, cDeadline, dDeadline, result>>
wireVars == <<cToP, pToS, sToP, toClient, toServer>>
clientVars == <<ci, cw, cClosed, cSent>>
serverVars == <<si, sGot, sw, s100, sClosed, sSent>>
vars == <<proxyVars, inflight, mocks, wireVars, clientVars, serverVars>>

-----------------------------------------------------------------------------
(* What the framing code computes from the bytes read so far. *)

\* hasCompleteHeaders (lines 846-852).
HasCompleteHeaders(s) == \E k \in 1..Len(s) : s[k].hdr = "end"
\* The body bytes of s, len(s) - strings.Index(s, "\r\n\r\n") - 4.
BodyLen(s) == LET f[k \in 0..Len(s)] == IF k = 0 THEN 0 ELSE f[k - 1] + s[k].body
              IN  f[Len(s)]
\* strings.HasSuffix(s, "0\r\n\r\n").
EndsWithTerm(s) == Len(s) > 0 /\ s[Len(s)].term # "none"
\* The Expect: 100-continue header in the request read so far (lines 594-602).
ExpectIn(s) == Len(s) > 0 /\ ShapeOf(s[1]).expect

\* http.ReadRequest / http.ReadResponse and reading the body succeed
\* (ParseFinalHttp, lines 740-772): the message starts at its first
\* segment, its headers are complete and so is its body.
Complete(s) ==
  /\ Len(s) > 0 /\ s[1].id[3] = 1 /\ HasCompleteHeaders(s)
  /\ LET sh == ShapeOf(s[1])
     IN  /\ sh.framing = "length" => BodyLen(s) >= sh.clen
         /\ sh.framing = "chunked" => \E k \in 1..Len(s) : s[k].term # "none"

\* The outcomes of util.ReadBytes on a connection: a record of the data
\* returned (at most one segment) and the error.
Reads(wire, closed, deadline) ==
  (IF wire # <<>> THEN {[data |-> <<Head(wire)>>, eof |-> FALSE, timeout |-> FALSE]} ELSE {})
  \cup (IF closed /\ Len(wire) = 1 THEN {[data |-> wire, eof |-> TRUE, timeout |-> FALSE]} ELSE {})
  \cup (IF closed /\ wire = <<>> THEN {[data |-> <<>>, eof |-> TRUE, timeout |-> FALSE]} ELSE {})
  \cup (IF SlowPeers /\ deadline /\ ~closed /\ wire = <<>>
          THEN {[data |-> <<>>, eof |-> FALSE, timeout |-> TRUE]} ELSE {})
Rest(wire, r) == IF r.data = <<>> THEN wire ELSE Tail(wire)
Err(r) == r.eof \/ r.timeout

-----------------------------------------------------------------------------
Init ==
  /\ pc = "begin" /\ finalReq = <<>> /\ finalResp = <<>> /\ resp = <<>>
  /\ remaining = 0 /\ cDeadline = FALSE /\ dDeadline = FALSE /\ result = "none"
  /\ inflight = <<>> /\ mocks = <<>>
  /\ cToP = <<>> /\ pToS = <<>> /\ sToP = <<>> /\ toClient = <<>> /\ toServer = <<>>
  /\ ci = 1 /\ cw = 0 /\ cClosed = FALSE /\ cSent = <<>>
  /\ si = 1 /\ sGot = 0 /\ sw = 0 /\ s100 = FALSE /\ sClosed = FALSE /\ sSent = <<>>

-----------------------------------------------------------------------------
(* Effects shared by the proxy's steps. *)

\* clientConn.Write / destConn.Write; a write to a closed peer fails.
WriteClient(segs) == ~cClosed /\ toClient' = toClient \o segs
WriteServer(segs) == ~sClosed /\ pToS' = pToS \o segs /\ toServer' = toServer \o segs
\* encodeOutgoingHttp returns an error, or returns nil.
Fail == pc' = "done" /\ result' = "error"
Finish == pc' = "done" /\ result' = "ok"
\* The top of the keep-alive loop: the Expect check (lines 592-602).
LoopTop(s) == IF ExpectIn(s) THEN "read100" ELSE "reqHead"
\* ParseFinalHttp hands a mock to an AppendMocks goroutine unless the host
\* is a pass-through host (lines 780-839).
Record(q, p) ==
  IF ShapeOf(q[1]).pass THEN UNCHANGED inflight
  ELSE inflight' = Append(inflight, [req |-> q, resp |-> p])
\* ParseFinalHttp at the end of the loop: a mock and nil, or an error.
ParseEnd(q, p) ==
  \/ Complete(q) /\ Complete(p) /\ Record(q, p) /\ Finish
  \/ ~(Complete(q) /\ Complete(p)) /\ Fail /\ UNCHANGED inflight

-----------------------------------------------------------------------------
(* The proxy: one action per read of encodeOutgoingHttp and its helpers,   *)
(* with everything the code does up to the next read.                      *)

\* ProcessOutgoingHttp (lines 96-112) in record mode: the first read of
\* the request is written to the server (lines 579-589).
Begin ==
  /\ pc = "begin" /\ cToP # <<>>
  /\ cToP' = Tail(cToP)
  /\ \/ /\ sClosed /\ Fail
        /\ UNCHANGED <<finalReq, pToS, toServer>>
     \/ /\ WriteServer(<<Head(cToP)>>)
        /\ finalReq' = <<Head(cToP)>>
        /\ pc' = LoopTop(<<Head(cToP)>>)
        /\ UNCHANGED result
  /\ UNCHANGED <<finalResp, resp, remaining, cDeadline, dDeadline, inflight, mocks, sToP,
                 toClient, clientVars, serverVars>>

\* Expect: 100-continue (lines 603-621): the server's reply is relayed; a
\* reply other than 100 Continue ends the loop with err = nil.
Read100 ==
  /\ pc = "read100"
  /\ \E r \in Reads(sToP, sClosed, dDeadline) :
       /\ sToP' = Rest(sToP, r)
       /\ \/ /\ Err(r) /\ Fail /\ UNCHANGED toClient
          \/ /\ ~Err(r) /\ cClosed /\ Fail /\ UNCHANGED toClient
          \/ /\ ~Err(r) /\ WriteClient(r.data)
             /\ IF IsContinue(r.data[1]) THEN pc' = "read100body" /\ UNCHANGED result
                                         ELSE Finish
  /\ UNCHANGED <<finalReq, finalResp, resp, remaining, cDeadline, dDeadline, inflight, mocks,
                 cToP, pToS, toServer, clientVars, serverVars>>

\* One read from the client relayed to the server and appended to finalReq.
RelayRequestRead(next) ==
  /\ \E r \in Reads(cToP, cClosed, cDeadline) :
       /\ cToP' = Rest(cToP, r)
       /\ \/ /\ Err(r) /\ Fail /\ UNCHANGED <<finalReq, pToS, toServer>>
          \/ /\ ~Err(r) /\ sClosed /\ Fail /\ UNCHANGED <<finalReq, pToS, toServer>>
          \/ /\ ~Err(r) /\ WriteServer(r.data)
             /\ finalReq' = finalReq \o r.data /\ pc' = next /\ UNCHANGED result
  /\ UNCHANGED <<finalResp, resp, remaining, cDeadline, dDeadline, inflight, mocks, sToP,
                 toClient, clientVars, serverVars>>

\* After 100 Continue the body is read once more (lines 622-633).
Read100Body == pc = "read100body" /\ RelayRequestRead("reqHead")

\* handleChunkedRequests reads until the headers are complete (lines 271-289).
ReqHeadRead == pc = "reqHead" /\ ~HasCompleteHeaders(finalReq) /\ RelayRequestRead("reqHead")

\* handleChunkedRequests frames the body (lines 291-330).
ReqFrame ==
  /\ pc = "reqHead" /\ HasCompleteHeaders(finalReq)
  /\ LET sh == ShapeOf(finalReq[1])
         rem == sh.clen - BodyLen(finalReq)
     IN  \/ /\ sh.framing = "length" /\ rem > 0
            /\ pc' = "reqBody" /\ remaining' = rem
         \/ /\ sh.framing = "chunked" /\ ~EndsWithTerm(finalReq)
            /\ pc' = "reqChunks" /\ UNCHANGED remaining
         \/ /\ sh.framing = "length" => rem <= 0
            /\ sh.framing = "chunked" => EndsWithTerm(finalReq)
            /\ pc' = "respRead" /\ UNCHANGED remaining
  /\ UNCHANGED <<finalReq, finalResp, resp, cDeadline, dDeadline, result, inflight, mocks,
                 wireVars, clientVars, serverVars>>

\* contentLengthRequest (lines 114-145): with a 5 s deadline on clientConn,
\* read until Content-Length bytes have come; a timeout ends the body.
ReqBodyRead ==
  /\ pc = "reqBody"
  /\ cDeadline' = TRUE
  /\ \E r \in Reads(cToP, cClosed, TRUE) :
       /\ cToP' = Rest(cToP, r)
       /\ \/ /\ r.eof /\ Fail
             /\ UNCHANGED <<finalReq, remaining, pToS, toServer>>
          \/ /\ r.timeout /\ pc' = "respRead"
             /\ UNCHANGED <<finalReq, remaining, pToS, toServer, result>>
          \/ /\ ~Err(r)
             /\ finalReq' = finalReq \o r.data
             /\ remaining' = remaining - r.data[1].body
             /\ \/ sClosed /\ Fail /\ UNCHANGED <<pToS, toServer>>
                \/ /\ WriteServer(r.data)
                   /\ pc' = (IF remaining' > 0 THEN "reqBody" ELSE "respRead")
                   /\ UNCHANGED result
  /\ UNCHANGED <<finalResp, resp, dDeadline, inflight, mocks, sToP, toClient, clientVars,
                 serverVars>>

\* chunkedRequest (lines 147-181): with a 5 s deadline on clientConn, read
\* until a read ends with the last chunk; a timeout ends the body.
ReqChunkRead ==
  /\ pc = "reqChunks"
  /\ cDeadline' = TRUE
  /\ \E r \in Reads(cToP, cClosed, TRUE) :
       /\ cToP' = Rest(cToP, r)
       /\ \/ /\ r.timeout /\ pc' = "respRead"
             /\ UNCHANGED <<finalReq, pToS, toServer, result>>
          \/ /\ r.eof /\ Fail
             /\ UNCHANGED <<finalReq, pToS, toServer>>
          \/ /\ ~Err(r)
             /\ finalReq' = finalReq \o r.data
             /\ \/ sClosed /\ Fail /\ UNCHANGED <<pToS, toServer>>
                \/ /\ WriteServer(r.data)
                   /\ pc' = (IF r.data[1].term # "none" THEN "respRead" ELSE "reqChunks")
                   /\ UNCHANGED result
  /\ UNCHANGED <<finalResp, resp, remaining, dDeadline, inflight, mocks, sToP, toClient,
                 clientVars, serverVars>>

\* The response is read (lines 646-689).  A read that returns data with
\* io.EOF relays the data and calls ParseFinalHttp with finalResp, to which
\* that data was never appended; io.EOF alone ends the loop with nil.
RespRead ==
  /\ pc = "respRead"
  /\ \E r \in Reads(sToP, sClosed, dDeadline) :
       /\ sToP' = Rest(sToP, r)
       /\ \/ /\ r.data # <<>> /\ cClosed /\ Fail
             /\ UNCHANGED <<finalResp, resp, toClient, inflight>>
          \/ /\ r.eof /\ r.data # <<>> /\ WriteClient(r.data)
             /\ ParseEnd(finalReq, finalResp)
             /\ UNCHANGED <<finalResp, resp>>
          \/ /\ r.eof /\ r.data = <<>> /\ Finish
             /\ UNCHANGED <<finalResp, resp, toClient, inflight>>
          \/ /\ r.timeout /\ Fail
             /\ UNCHANGED <<finalResp, resp, toClient, inflight>>
          \/ /\ ~Err(r) /\ WriteClient(r.data)
             /\ finalResp' = finalResp \o r.data /\ resp' = r.data
             /\ pc' = "respHead" /\ UNCHANGED <<result, inflight>>
  /\ UNCHANGED <<finalReq, remaining, cDeadline, dDeadline, mocks, cToP, pToS, toServer,
                 clientVars, serverVars>>

\* handleChunkedResponses reads until resp has complete headers (lines
\* 339-376).  On io.EOF with data it writes resp, not the data just read,
\* to the client; that write sets err to nil, so it returns nil and
\* encodeOutgoingHttp parses and goes on with the chain (lines 703-721).
\* On io.EOF alone it returns io.EOF, on which encodeOutgoingHttp parses
\* what it has and returns (lines 690-699).
RespHeadRead ==
  /\ pc = "respHead" /\ ~HasCompleteHeaders(resp)
  /\ \E r \in Reads(sToP, sClosed, dDeadline) :
       /\ sToP' = Rest(sToP, r)
       /\ \/ /\ r.data # <<>> /\ cClosed /\ Fail
             /\ UNCHANGED <<finalResp, resp, toClient, inflight>>
          \/ /\ r.eof /\ r.data # <<>> /\ WriteClient(resp)
             /\ finalResp' = finalResp \o r.data /\ pc' = "parse"
             /\ UNCHANGED <<resp, result, inflight>>
          \/ /\ r.eof /\ r.data = <<>>
             /\ ParseEnd(finalReq, finalResp)
             /\ UNCHANGED <<finalResp, resp, toClient>>
          \/ /\ r.timeout /\ Fail
             /\ UNCHANGED <<finalResp, resp, toClient, inflight>>
          \/ /\ ~Err(r) /\ WriteClient(r.data)
             /\ finalResp' = finalResp \o r.data /\ resp' = resp \o r.data
             /\ UNCHANGED <<pc, result, inflight>>
  /\ UNCHANGED <<finalReq, remaining, cDeadline, dDeadline, mocks, cToP, pToS, toServer,
                 clientVars, serverVars>>

\* handleChunkedResponses frames the body from the headers in resp (lines
\* 378-411).
RespFrame ==
  /\ pc = "respHead" /\ HasCompleteHeaders(resp)
  /\ LET sh == ShapeOf(resp[1])
         rem == sh.clen - BodyLen(resp)
     IN  \/ /\ sh.framing = "length" /\ rem > 0
            /\ pc' = "respBody" /\ remaining' = rem
         \/ /\ sh.framing = "chunked" /\ ~EndsWithTerm(finalResp)
            /\ pc' = "respChunks" /\ UNCHANGED remaining
         \/ /\ sh.framing = "length" => rem <= 0
            /\ sh.framing = "chunked" => EndsWithTerm(finalResp)
            /\ pc' = "parse" /\ UNCHANGED remaining
  /\ UNCHANGED <<finalReq, finalResp, resp, cDeadline, dDeadline, result, inflight, mocks,
                 wireVars, clientVars, serverVars>>

\* Seeded fault: contentLengthResponse writes all of finalResp to the client.
RespBodyReadWritesAll ==
  /\ pc = "respBody"
  /\ dDeadline' = TRUE
  /\ \E r \in Reads(sToP, sClosed, TRUE) :
       /\ sToP' = Rest(sToP, r)
       /\ \/ /\ r.data = <<>> /\ pc' = "parse"
             /\ UNCHANGED <<finalResp, remaining, toClient, result>>
          \/ /\ r.data # <<>>
             /\ finalResp' = finalResp \o r.data
             /\ remaining' = remaining - r.data[1].body
             /\ \/ cClosed /\ Fail /\ UNCHANGED toClient
                \/ /\ WriteClient(finalResp \o r.data)
                   /\ pc' = (IF r.eof \/ remaining' <= 0 THEN "parse" ELSE "respBody")
                   /\ UNCHANGED result
  /\ UNCHANGED <<finalReq, resp, cDeadline, inflight, mocks, cToP, pToS, toServer,
                 clientVars, serverVars>>

\* contentLengthResponse (lines 183-222): with a 5 s deadline on destConn,
\* read until Content-Length bytes have come, io.EOF or a timeout.
RespBodyRead ==
  /\ pc = "respBody"
  /\ dDeadline' = TRUE
  /\ \E r \in Reads(sToP, sClosed, TRUE) :
       /\ sToP' = Rest(sToP, r)
       /\ \/ /\ r.data = <<>> /\ pc' = "parse"
             /\ UNCHANGED <<finalResp, remaining, toClient, result>>
          \/ /\ r.data # <<>>
             /\ finalResp' = finalResp \o r.data
             /\ remaining' = remaining - r.data[1].body
             /\ \/ cClosed /\ Fail /\ UNCHANGED toClient
                \/ /\ WriteClient(r.data)
                   /\ pc' = (IF r.eof \/ remaining' <= 0 THEN "parse" ELSE "respBody")
                   /\ UNCHANGED result
  /\ UNCHANGED <<finalReq, resp, cDeadline, inflight, mocks, cToP, pToS, toServer,
                 clientVars, serverVars>>

\* Seeded fault: chunkedResponse stops only at io.EOF.
RespChunkReadEofOnly ==
  /\ pc = "respChunks"
  /\ \E r \in Reads(sToP, sClosed, dDeadline) :
       /\ sToP' = Rest(sToP, r)
       /\ \/ /\ r.timeout /\ Fail
             /\ UNCHANGED <<finalResp, toClient>>
          \/ /\ r.eof /\ r.data = <<>> /\ pc' = "parse"
             /\ UNCHANGED <<finalResp, toClient, result>>
          \/ /\ r.data # <<>>
             /\ finalResp' = finalResp \o r.data
             /\ \/ cClosed /\ Fail /\ UNCHANGED toClient
                \/ /\ WriteClient(r.data)
                   /\ pc' = (IF r.eof THEN "parse" ELSE "respChunks")
                   /\ UNCHANGED result
  /\ UNCHANGED <<finalReq, resp, remaining, cDeadline, dDeadline, inflight, mocks, cToP, pToS,
                 toServer, clientVars, serverVars>>

\* chunkedResponse (lines 224-263): read, with no deadline of its own,
\* until io.EOF or a read that is exactly the last chunk "0\r\n\r\n".
RespChunkRead ==
  /\ pc = "respChunks"
  /\ \E r \in Reads(sToP, sClosed, dDeadline) :
       /\ sToP' = Rest(sToP, r)
       /\ \/ /\ r.timeout /\ Fail
             /\ UNCHANGED <<finalResp, toClient>>
          \/ /\ r.eof /\ r.data = <<>> /\ pc' = "parse"
             /\ UNCHANGED <<finalResp, toClient, result>>
          \/ /\ r.data # <<>>
             /\ finalResp' = finalResp \o r.data
             /\ \/ cClosed /\ Fail /\ UNCHANGED toClient
                \/ /\ WriteClient(r.data)
                   /\ pc' = (IF r.eof \/ r.data[1].term = "alone" THEN "parse" ELSE "respChunks")
                   /\ UNCHANGED result
  /\ UNCHANGED <<finalReq, resp, remaining, cDeadline, dDeadline, inflight, mocks, cToP, pToS,
                 toServer, clientVars, serverVars>>

\* Seeded fault: finalReq and finalResp are not reset after an exchange.
ParseNoReset ==
  /\ pc = "parse"
  /\ \/ /\ Complete(finalReq) /\ Complete(finalResp)
        /\ Record(finalReq, finalResp)
        /\ pc' = "nextReq"
        /\ UNCHANGED <<finalReq, finalResp, result>>
     \/ /\ ~(Complete(finalReq) /\ Complete(finalResp)) /\ Fail
        /\ UNCHANGED <<finalReq, finalResp, inflight>>
  /\ UNCHANGED <<resp, remaining, cDeadline, dDeadline, mocks, wireVars, clientVars, serverVars>>

\* The exchange is parsed and recorded, and the buffers reset (lines 703-716).
Parse ==
  /\ pc = "parse"
  /\ \/ /\ Complete(finalReq) /\ Complete(finalResp)
        /\ Record(finalReq, finalResp)
        /\ finalReq' = <<>> /\ finalResp' = <<>> /\ pc' = "nextReq"
        /\ UNCHANGED result
     \/ /\ ~(Complete(finalReq) /\ Complete(finalResp)) /\ Fail
        /\ UNCHANGED <<finalReq, finalResp, inflight>>
  /\ UNCHANGED <<resp, remaining, cDeadline, dDeadline, mocks, wireVars, clientVars, serverVars>>

\* The next request of the chain (lines 718-734): any error ends the loop
\* with nil.
NextReq ==
  /\ pc = "nextReq"
  /\ \E r \in Reads(cToP, cClosed, cDeadline) :
       /\ cToP' = Rest(cToP, r)
       /\ \/ /\ Err(r) /\ Finish
             /\ UNCHANGED <<finalReq, pToS, toServer>>
          \/ /\ ~Err(r) /\ sClosed /\ Fail
             /\ UNCHANGED <<finalReq, pToS, toServer>>
          \/ /\ ~Err(r) /\ WriteServer(r.data)
             /\ finalReq' = r.data /\ pc' = LoopTop(r.data)
             /\ UNCHANGED result
  /\ UNCHANGED <<finalResp, resp, remaining, cDeadline, dDeadline, inflight, mocks, sToP,
                 toClient, clientVars, serverVars>>

\* The goroutine ParseFinalHttp starts calls h.AppendMocks (lines 801-839);
\* these goroutines may run in any order.
AppendMock(k) ==
  /\ k \in 1..Len(inflight)
  /\ mocks' = Append(mocks, inflight[k])
  /\ inflight' = RemoveAt(inflight, k)
  /\ UNCHANGED <<proxyVars, wireVars, clientVars, serverVars>>

-----------------------------------------------------------------------------
(* The application's HTTP client and the destination server. *)

\* The client writes its request; with Expect: 100-continue it sends the
\* body only after 100 Continue.
ClientWrite ==
  /\ ~cClosed /\ ci <= N /\ cw < Len(ReqShape[ci].segs)
  /\ (ReqShape[ci].expect /\ cw >= HeadSegs(ci)) => ContinueSeg(ci) \in Range(toClient)
  /\ cToP' = Append(cToP, MkSeg("req", ci, cw + 1))
  /\ cSent' = Append(cSent, MkSeg("req", ci, cw + 1))
  /\ cw' = cw + 1
  /\ UNCHANGED <<proxyVars, inflight, mocks, pToS, sToP, toClient, toServer, ci, cClosed,
                 serverVars>>

\* Once it has the whole response, the client goes on to its next request.
ClientNext ==
  /\ ci <= N /\ Range(RespSegs(ci)) \subseteq Range(toClient)
  /\ cw = Len(ReqShape[ci].segs) \/ ReqShape[ci].expect
  /\ ci' = ci + 1 /\ cw' = 0
  /\ UNCHANGED <<proxyVars, inflight, mocks, wireVars, cClosed, cSent, serverVars>>

\* The client closes the connection after its last exchange, or earlier.
ClientClose ==
  /\ ~cClosed /\ (ci > N \/ ClientMayAbort)
  /\ cClosed' = TRUE
  /\ UNCHANGED <<proxyVars, inflight, mocks, wireVars, ci, cw, cSent, serverVars>>

ServerRecv ==
  /\ ~sClosed /\ pToS # <<>>
  /\ pToS' = Tail(pToS) /\ sGot' = sGot + 1
  /\ UNCHANGED <<proxyVars, inflight, mocks, cToP, sToP, toClient, toServer, clientVars,
                 si, sw, s100, sClosed, sSent>>

\* The server answers the request headers with 100 Continue.
ServerContinue ==
  /\ ~sClosed /\ si <= N /\ ReqShape[si].expect /\ ~s100 /\ sw = 0
  /\ sGot >= HeadSegs(si)
  /\ sToP' = Append(sToP, ContinueSeg(si)) /\ sSent' = Append(sSent, ContinueSeg(si))
  /\ s100' = TRUE
  /\ UNCHANGED <<proxyVars, inflight, mocks, cToP, pToS, toClient, toServer, clientVars,
                 si, sGot, sw, sClosed>>

\* The server writes its response once it has the request (or, when it
\* skips 100 Continue, its headers); after the last segment it waits for
\* the next request.
ServerWrite ==
  /\ ~sClosed /\ si <= N /\ sw < Len(RespShape[si].segs)
  /\ \/ sGot >= Len(ReqShape[si].segs)
     \/ ReqShape[si].expect /\ ServerSkips100 /\ ~s100 /\ sGot >= HeadSegs(si)
  /\ sToP' = Append(sToP, MkSeg("resp", si, sw + 1))
  /\ sSent' = Append(sSent, MkSeg("resp", si, sw + 1))
  /\ IF sw + 1 = Len(RespShape[si].segs)
       THEN si' = si + 1 /\ sw' = 0 /\ sGot' = 0 /\ s100' = FALSE
       ELSE sw' = sw + 1 /\ UNCHANGED <<si, sGot, s100>>
  /\ UNCHANGED <<proxyVars, inflight, mocks, cToP, pToS, toClient, toServer, clientVars,
                 sClosed>>

ServerClose ==
  /\ ServerMayClose /\ ~sClosed
  /\ sClosed' = TRUE
  /\ UNCHANGED <<proxyVars, inflight, mocks, wireVars, clientVars, si, sGot, sw, s100, sSent>>

-----------------------------------------------------------------------------
ProxyStep ==
  \/ Begin \/ Read100 \/ Read100Body \/ ReqHeadRead \/ ReqFrame \/ ReqBodyRead
  \/ ReqChunkRead \/ RespRead \/ RespHeadRead \/ RespFrame \/ RespBodyRead
  \/ RespChunkRead \/ Parse \/ NextReq

PeerStep ==
  \/ ClientWrite \/ ClientNext \/ ClientClose
  \/ ServerRecv \/ ServerContinue \/ ServerWrite \/ ServerClose

Next == ProxyStep \/ (\E k \in 1..Len(inflight) : AppendMock(k)) \/ PeerStep

Spec == Init /\ [][Next]_vars

(* The proxy's goroutine, the AppendMocks goroutines and both peers are   *)
(* scheduled; the client closes its connection when it is done.  Closing  *)
(* early and the server's closing are choices, with no fairness.           *)
Fairness ==
  /\ WF_vars(ProxyStep) /\ WF_vars(\E k \in 1..Len(inflight) : AppendMock(k))
  /\ WF_vars(ClientWrite) /\ WF_vars(ClientNext) /\ WF_vars(ci > N /\ ClientClose)
  /\ WF_vars(ServerRecv) /\ WF_vars(ServerContinue) /\ WF_vars(ServerWrite)

FairSpec == Spec /\ Fairness

-----------------------------------------------------------------------------
\* The exchange i as the peers sent it.
Exchange(i) == [req |-> ReqSegs(i), resp |-> RespSegs(i)]

(* Safety, about the relaying of encodeOutgoingHttp and its framing        *)
(* helpers: the client receives exactly what the server sent, in order,   *)
(* and the server exactly what the client sent (each a prefix of it): no  *)
(* segment is dropped, repeated or reordered on the way.                   *)
RelayFaithful == IsPrefix(toClient, sSent) /\ IsPrefix(toServer, cSent)

(* Safety, about ParseFinalHttp and the reset of finalReq and finalResp    *)
(* between the exchanges of a keep-alive chain: every mock recorded, or   *)
(* handed to an AppendMocks goroutine, is one exchange of the chain, whole *)
(* (its request with its own response), with a host that is not a pass-   *)
(* through host, and no exchange is recorded twice.                        *)
MocksFaithful ==
  LET all == mocks \o inflight
  IN  \A j \in 1..Len(all) :
        /\ \E i \in 1..N : all[j] = Exchange(i) /\ ~ReqShape[i].pass
        /\ \A k \in 1..Len(all) : j # k => all[j] # all[k]

\* Exchange i went through the proxy whole, both ways.
Delivered(i) ==
  /\ Range(ReqSegs(i)) \subseteq Range(toServer)
  /\ Range(RespSegs(i)) \subseteq Range(toClient)

(* Liveness, about the keep-alive loop of encodeOutgoingHttp: every        *)
(* exchange the proxy relayed whole, to a host that is not a pass-through  *)
(* host, is eventually recorded as a mock (spec 4.D, step 6).              *)
ExchangesRecorded ==
  \A i \in 1..N : (Delivered(i) /\ ~ReqShape[i].pass) ~> (Exchange(i) \in Range(mocks))

=============================================================================
