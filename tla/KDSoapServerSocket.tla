-------------------------- MODULE KDSoapServerSocket --------------------------
(***************************************************************************)
(* One KDSoapServerSocket (src/src/KDSoapServer/KDSoapServerSocket.cpp)    *)
(* and the client at the other end: assembling requests from whatever      *)
(* pieces the network delivers, calling the server object, replying at     *)
(* once or later.                                                          *)
(*                                                                         *)
(* The byte stream is a sequence of tokens: a block of headers, a line end *)
(* (\r\n), a unit of data, a chunk size, a trailer; a piece may end after  *)
(* any token, and positions in a buffer count tokens.  slotReadyRead() is  *)
(* split at its returns and calls; while it runs ("pc" says where it is)   *)
(* nothing else happens in its thread, but the client may send.            *)
(***************************************************************************)
EXTENDS KDSoapServerObjectInterface, KDSoapFileRanges

CONSTANTS
    Scripts,    \* the sequences of requests a client may make on a connection
    Pipelining, \* values of "the client may send before it got all replies"
    FileSizes   \* of the file a GET request may ask for

(* A chunk is not empty, as a size of 0 ends the body; a size of -1 stands *)
(* for a malformed size line.                                              *)
Request ==
    [verb : {"GET", "POST", "PUT"}, path : {"outside", "server", "other"}, authorized : BOOLEAN,
     chunked : BOOLEAN, sizes : Seq((Nat \ {0}) \cup {-1}), trailer : BOOLEAN,
     xml : {"message", "fault", "truncated"}, range : RangeHeader]

ASSUME SocketAssumption ==
    Scripts \subseteq Seq(Request) /\ Pipelining \subseteq BOOLEAN /\ FileSizes \subseteq Nat

VARIABLES
    script,     \* the requests of this connection
    pipelines,  \* this client does not wait for replies
    sent,       \* number of requests sent
    wire,       \* on the network
    device,     \* in QIODevice's read buffer: left there by a disabled socket
    pc,         \* where slotReadyRead() is, "eventLoop" when it is not called
    m_requestBuffer, m_httpHeaders, m_bytesReceived, m_chunkStart, m_decodedRequestBuffer,
    m_useRawXML, m_delayedResponse, m_socketEnabled, m_receivedData,
    rawXml,     \* what processXML() was given since newRequest()
    handled,    \* history: the requests handled, with the data seen by the service
    replies,    \* history: what was written to the client
    downloads   \* history: the files written among the replies

client == <<script, pipelines, sent>>
assembly == <<m_requestBuffer, m_httpHeaders, m_bytesReceived, m_chunkStart, m_decodedRequestBuffer,
              m_useRawXML, m_receivedData, rawXml>>
service == <<objects, handled, replies, m_delayedResponse, m_socketEnabled, downloads>>
vars == <<client, wire, device, pc, assembly, service>>

---------------------------------------------------------------------------
(* Tokens and streams.                                                     *)
HeaderBlock(i) == [k |-> "headers", of |-> i, n |-> 0]
Eol == [k |-> "eol", of |-> 0, n |-> 0]
Data(i, n) == [k |-> "data", of |-> i, n |-> n]
ChunkSize(n) == [k |-> "size", of |-> 0, n |-> n]
Trailer(i) == [k |-> "trailer", of |-> i, n |-> 0]

(* Every unit of data is different.                                        *)
ChunkData(i, c) == [j \in 1..Max({0, script[i].sizes[c]}) |-> Data(i, 10 * c + j)]
Body(i) == FlattenSeq([c \in 1..Len(script[i].sizes) |-> ChunkData(i, c)])

Chunk(i, c) == <<ChunkSize(script[i].sizes[c]), Eol>> \o ChunkData(i, c) \o <<Eol>>
ChunkedBody(i) ==
    FlattenSeq([c \in 1..Len(script[i].sizes) |-> Chunk(i, c)])
        \o <<ChunkSize(0), Eol>> \o (IF script[i].trailer THEN <<Trailer(i), Eol>> ELSE <<>>) \o <<Eol>>

Stream(i) ==
    <<HeaderBlock(i), Eol, Eol>> \o (IF script[i].chunked THEN ChunkedBody(i) ELSE Body(i))

(* indexOf("\r\n", from) and indexOf("\r\n\r\n"), 0 when there is none.    *)
eolFrom(b, from) == LET P == {p \in from..Len(b) : b[p] = Eol} IN IF P = {} THEN 0 ELSE Min(P)
blankLine(b) == LET P == {p \in 1..(Len(b) - 1) : b[p] = Eol /\ b[p + 1] = Eol}
                IN IF P = {} THEN 0 ELSE Min(P)

---------------------------------------------------------------------------
Init ==
    /\ script \in Scripts /\ pipelines \in Pipelining /\ sent = 0
    /\ wire = <<>> /\ device = <<>> /\ pc = "eventLoop"
    /\ m_requestBuffer = <<>> /\ m_httpHeaders = 0 /\ m_bytesReceived = 0 /\ m_chunkStart = 0
    /\ m_decodedRequestBuffer = <<>> /\ m_useRawXML = FALSE /\ m_delayedResponse = FALSE
    /\ m_socketEnabled = TRUE /\ m_receivedData = FALSE
    /\ objects = [o \in {"main", "other"} |-> Fresh]
    /\ rawXml = <<>> /\ handled = <<>> /\ replies = <<>> /\ downloads = <<>>

(* The client sends its next request.                                      *)
send ==
    /\ sent < Len(script)
    /\ pipelines \/ Len(replies) >= sent
    /\ sent' = sent + 1
    /\ wire' = wire \o Stream(sent + 1)
    /\ UNCHANGED <<script, pipelines, device, pc, assembly, service>>

(* The first n tokens arrive; readyRead() is emitted.                      *)
readyRead(n) ==
    /\ pc = "eventLoop"
    /\ n \in 1..Len(wire)
    /\ device' = device \o SubSeq(wire, 1, n)
    /\ wire' = SubSeq(wire, n + 1, Len(wire))
    /\ pc' = IF m_socketEnabled THEN "read" ELSE pc
    /\ UNCHANGED <<client, assembly, service>>

(* slotReadyRead() of an enabled socket: read all there is.                *)
readAll ==
    /\ pc = "read"
    /\ m_receivedData' = TRUE
    /\ m_requestBuffer' = m_requestBuffer \o device
    /\ m_bytesReceived' = m_bytesReceived + Len(device)
    /\ device' = <<>>
    /\ pc' = IF m_httpHeaders = 0 THEN "headers" ELSE "body"
    /\ UNCHANGED <<client, wire, m_httpHeaders, m_chunkStart, m_decodedRequestBuffer, m_useRawXML, rawXml, service>>

(* Incomplete headers: return and wait for more.                           *)
headersIncomplete ==
    /\ pc = "headers"
    /\ blankLine(m_requestBuffer) <= 1
    /\ pc' = "eventLoop"
    /\ UNCHANGED <<client, wire, device, assembly, service>>

(* Mutant: the headers are counted as received data.                       *)
bytesWithHeaders(sep) == m_bytesReceived

bytesAfterHeaders(sep) == Len(m_requestBuffer) - (sep + 1)

(* parseHeaders(): the remainder of a request that a pipelining client     *)
(* sent too early is no header block and yields no usable header, 0.       *)
(* newRequest() of a raw XML service says whether it takes the request.    *)
parseHeaders ==
    /\ pc = "headers"
    /\ LET sep == blankLine(m_requestBuffer)
           block == SubSeq(m_requestBuffer, 1, sep - 1) IN
        /\ sep > 1
        /\ m_httpHeaders' = IF Len(block) = 1 /\ block[1].k = "headers" THEN block[1].of ELSE 0
        /\ m_requestBuffer' = SubSeq(m_requestBuffer, sep + 2, Len(m_requestBuffer))
        /\ m_bytesReceived' = bytesAfterHeaders(sep)
    /\ m_useRawXML' \in BOOLEAN
    /\ rawXml' = <<>>
    /\ pc' = "body"
    /\ UNCHANGED <<client, wire, device, m_chunkStart, m_decodedRequestBuffer, m_receivedData, service>>

---------------------------------------------------------------------------
(* The body, with a Content-Length or chunked.                             *)
isChunked == m_httpHeaders # 0 /\ script[m_httpHeaders].chunked

(* Mutant: a request is handled as soon as its headers are there.          *)
contentLengthUnchecked == 0

contentLength == IF m_httpHeaders = 0 THEN 0 ELSE Len(Body(m_httpHeaders))

receivePlain ==
    /\ pc = "body"
    /\ ~ isChunked
    /\ rawXml' = IF m_useRawXML THEN rawXml \o m_requestBuffer ELSE rawXml
    /\ m_requestBuffer' = IF m_useRawXML THEN <<>> ELSE m_requestBuffer
    /\ pc' = IF m_bytesReceived < contentLength THEN "eventLoop" ELSE "request"
    /\ UNCHANGED <<client, wire, device, m_httpHeaders, m_bytesReceived, m_chunkStart, m_decodedRequestBuffer,
                   m_useRawXML, m_receivedData, service>>

(* The chunk size line at m_chunkStart: where it ends, and what it says.   *)
nextEOL == eolFrom(m_requestBuffer, m_chunkStart + 1)
sizeLine == SubSeq(m_requestBuffer, m_chunkStart + 1, nextEOL - 1)
isSize == Len(sizeLine) = 1 /\ sizeLine[1].k = "size" /\ sizeLine[1].n >= 0
atChunk == pc = "body" /\ isChunked /\ m_chunkStart >= 0

(* The number of tokens up to the line end that closes the chunk.          *)
chunkEnd == nextEOL + sizeLine[1].n + 1

chunkIncomplete ==
    /\ atChunk
    /\ nextEOL # 0 => isSize /\ sizeLine[1].n > 0 /\ chunkEnd >= Len(m_requestBuffer)
    /\ pc' = "eventLoop"
    /\ UNCHANGED <<client, wire, device, assembly, service>>

takeChunk ==
    /\ atChunk
    /\ nextEOL # 0 /\ isSize /\ sizeLine[1].n > 0
    /\ chunkEnd < Len(m_requestBuffer)
    /\ LET data == SubSeq(m_requestBuffer, nextEOL + 1, nextEOL + sizeLine[1].n) IN
        /\ rawXml' = IF m_useRawXML THEN rawXml \o data ELSE rawXml
        /\ m_decodedRequestBuffer' = IF m_useRawXML THEN m_decodedRequestBuffer ELSE m_decodedRequestBuffer \o data
    /\ m_chunkStart' = nextEOL + sizeLine[1].n + 1
    /\ UNCHANGED <<client, wire, device, pc, m_requestBuffer, m_httpHeaders, m_bytesReceived, m_useRawXML,
                   m_receivedData, service>>

lastChunk ==
    /\ atChunk
    /\ nextEOL # 0 /\ isSize /\ sizeLine[1].n = 0
    /\ m_requestBuffer' = SubSeq(m_requestBuffer, nextEOL, Len(m_requestBuffer))
    /\ m_chunkStart' = -1
    /\ UNCHANGED <<client, wire, device, pc, m_httpHeaders, m_bytesReceived, m_decodedRequestBuffer, m_useRawXML,
                   m_receivedData, rawXml, service>>

(* After the last chunk come trailers, up to a blank line.                 *)
endOfTrailers ==
    /\ pc = "body" /\ isChunked /\ m_chunkStart = -1
    /\ pc' = IF blankLine(m_requestBuffer) = 0 THEN "eventLoop" ELSE "request"
    /\ UNCHANGED <<client, wire, device, assembly, service>>

---------------------------------------------------------------------------
(* Replies.  "to" is the request a reply answers; the other fields say for *)
(* which request the server object set what the reply carries.             *)
Plain(i, status) == [to |-> i, status |-> status, fault |-> 0, detail |-> 0, headers |-> 0]
write(r) == replies' = Append(replies, r)

(* A chunk size that is no number: 400, and nothing is reset.              *)
badChunkSize ==
    /\ atChunk
    /\ nextEOL # 0 /\ ~ isSize
    /\ write(Plain(m_httpHeaders, "400"))
    /\ pc' = "eventLoop"
    /\ UNCHANGED <<client, wire, device, assembly, objects, handled, m_delayedResponse, m_socketEnabled, downloads>>

(* Mutant: the decoded body of a chunked request is kept for the next one. *)
requestDoneKeepsBody ==
    /\ pc' = "eventLoop"
    /\ m_requestBuffer' = <<>>
    /\ m_httpHeaders' = 0
    /\ m_receivedData' = FALSE
    /\ m_chunkStart' = IF isChunked THEN 0 ELSE m_chunkStart
    /\ UNCHANGED <<client, wire, device, m_decodedRequestBuffer, m_bytesReceived, m_useRawXML, rawXml>>

(* slotReadyRead() ends after a request.                                   *)
requestDone ==
    /\ pc' = "eventLoop"
    /\ m_requestBuffer' = <<>>
    /\ m_httpHeaders' = 0
    /\ m_receivedData' = FALSE
    /\ m_chunkStart' = IF isChunked THEN 0 ELSE m_chunkStart
    /\ m_decodedRequestBuffer' = IF isChunked THEN <<>> ELSE m_decodedRequestBuffer
    /\ UNCHANGED <<client, wire, device, m_bytesReceived, m_useRawXML, rawXml>>

hand(data) == handled' = Append(handled, [of |-> m_httpHeaders, data |-> data])
receivedData == IF isChunked THEN m_decodedRequestBuffer ELSE m_requestBuffer

(* A raw XML service writes its reply in endRequest().                     *)
endRequest ==
    /\ pc = "request" /\ m_useRawXML
    /\ hand(rawXml)
    /\ write(Plain(m_httpHeaders, "raw"))
    /\ requestDone
    /\ UNCHANGED <<objects, m_delayedResponse, m_socketEnabled, downloads>>

(* What handleRequest() answers without a SOAP call.  A GET request is for *)
(* the WSDL file, or for a file that is missing or closed to us; for any   *)
(* other file, see handleFileDownload.                                     *)
refusals(i) ==
    IF i = 0 THEN {"401", "403", "405", "custom"}
    ELSE CASE script[i].path = "outside" -> {"403"}
           [] ~ script[i].authorized -> {"401"}
           [] script[i].verb = "PUT" -> {"405", "custom"}
           [] script[i].verb = "GET" -> {"200", "403", "404"}
           [] OTHER -> {}

refuse ==
    /\ pc = "request" /\ ~ m_useRawXML
    /\ \E status \in refusals(m_httpHeaders) : write(Plain(m_httpHeaders, status))
    /\ hand(receivedData)
    /\ requestDone
    /\ UNCHANGED <<objects, m_delayedResponse, m_socketEnabled, downloads>>

handleFileDownload ==
    /\ pc = "request" /\ ~ m_useRawXML
    /\ "404" \in refusals(m_httpHeaders)
    /\ \E size \in FileSizes :
        LET d == Download(script[m_httpHeaders].range, size) IN
        /\ write(Plain(m_httpHeaders, d.status))
        /\ downloads' = Append(downloads, [of |-> m_httpHeaders, size |-> size, reply |-> d])
    /\ hand(receivedData)
    /\ requestDone
    /\ UNCHANGED <<objects, m_delayedResponse, m_socketEnabled>>

(* xmlToMessage(): a document that ends too early, or garbage, of which it *)
(* makes a fault message.                                                  *)
parsed(i, data) ==
    CASE data = Body(i) -> script[i].xml
      [] IsStrictPrefix(data, Body(i)) -> "truncated"
      [] OTHER -> "fault"

atCall(kind) ==
    /\ pc = "request" /\ ~ m_useRawXML
    /\ refusals(m_httpHeaders) = {}
    /\ parsed(m_httpHeaders, receivedData) = kind
    /\ hand(receivedData)
    /\ requestDone

(* "Incomplete SOAP message, wait for more data": no reply.                *)
dropTruncated ==
    /\ atCall("truncated")
    /\ UNCHANGED <<objects, replies, m_delayedResponse, m_socketEnabled, downloads>>

(* "Request was a fault": the object is not prepared for a new request.    *)
rejectFault ==
    /\ atCall("fault")
    /\ write([Plain(m_httpHeaders, "500") EXCEPT !.headers = objects["main"].responseHeaders])
    /\ UNCHANGED <<objects, m_delayedResponse, m_socketEnabled, downloads>>

callService(i) == IF script[i].path = "server" THEN processRequest(i) ELSE processRequestWithPath(i)

Answer(i, main) ==
    [to |-> i, status |-> "call", fault |-> main.faultCode, detail |-> faultDetail(main),
     headers |-> main.responseHeaders]

makeCall ==
    /\ atCall("message")
    /\ callService(m_httpHeaders)
    /\ write(Answer(m_httpHeaders, objects'["main"]))
    /\ UNCHANGED <<m_delayedResponse, m_socketEnabled, downloads>>

(* Mutants: the dummy value returned by the service is sent as well; the   *)
(* socket is not disabled.                                                 *)
makeDelayedCallReplies ==
    /\ atCall("message")
    /\ callService(m_httpHeaders)
    /\ write(Answer(m_httpHeaders, objects'["main"]))
    /\ m_delayedResponse' = TRUE
    /\ m_socketEnabled' = FALSE
    /\ UNCHANGED downloads

makeDelayedCallStaysEnabled ==
    /\ atCall("message")
    /\ callService(m_httpHeaders)
    /\ m_delayedResponse' = TRUE
    /\ UNCHANGED <<replies, m_socketEnabled, downloads>>

(* The service asked for a delayed response: no reply, socket disabled.    *)
makeDelayedCall ==
    /\ atCall("message")
    /\ callService(m_httpHeaders)
    /\ m_delayedResponse' = TRUE
    /\ m_socketEnabled' = FALSE
    /\ UNCHANGED <<replies, downloads>>

(* Mutant: the socket stays disabled.                                      *)
sendDelayedReplyStaysDisabled ==
    /\ pc = "eventLoop"
    /\ m_delayedResponse
    /\ write([Answer(handled[Len(handled)].of, objects["main"]) EXCEPT !.fault = 0, !.detail = 0])
    /\ m_delayedResponse' = FALSE
    /\ UNCHANGED <<client, wire, device, pc, assembly, objects, handled, m_socketEnabled, downloads>>

(* Mutant: the socket is enabled, and what is left unread stays unread.    *)
sendDelayedReplyReadsNothing ==
    /\ pc = "eventLoop"
    /\ m_delayedResponse
    /\ write([Answer(handled[Len(handled)].of, objects["main"]) EXCEPT !.fault = 0, !.detail = 0])
    /\ m_delayedResponse' = FALSE
    /\ m_socketEnabled' = TRUE
    /\ UNCHANGED <<client, wire, device, pc, assembly, objects, handled, downloads>>

(* The service sends its delayed response, from its own slot; enabling the *)
(* socket calls slotReadyRead(), for what has been left unread.            *)
sendDelayedReply ==
    /\ pc = "eventLoop"
    /\ m_delayedResponse
    /\ write([Answer(handled[Len(handled)].of, objects["main"]) EXCEPT !.fault = 0, !.detail = 0])
    /\ m_delayedResponse' = FALSE
    /\ m_socketEnabled' = TRUE
    /\ pc' = "read"
    /\ UNCHANGED <<client, wire, device, assembly, objects, handled, downloads>>

---------------------------------------------------------------------------
slotReadyRead ==
    \/ readAll
    \/ headersIncomplete \/ parseHeaders
    \/ receivePlain
    \/ chunkIncomplete \/ takeChunk \/ lastChunk \/ endOfTrailers \/ badChunkSize
    \/ endRequest \/ refuse \/ handleFileDownload
    \/ dropTruncated \/ rejectFault \/ makeCall \/ makeDelayedCall

receive == \E n \in 1..Len(wire) : readyRead(n)

(* Nothing is left to do once the client has sent all and it was read.     *)
finished ==
    /\ sent = Len(script) \/ (~ pipelines /\ Len(replies) < sent)
    /\ wire = <<>> /\ pc = "eventLoop" /\ ~ m_delayedResponse
    /\ UNCHANGED vars

Next == send \/ receive \/ slotReadyRead \/ sendDelayedReply \/ finished

Spec == Init /\ [][Next]_vars

(* The client goes on, the network delivers, slotReadyRead() is code that  *)
(* runs to its end, and a service that delayed a response sends it.        *)
Fairness == WF_vars(send) /\ WF_vars(receive) /\ WF_vars(slotReadyRead) /\ WF_vars(sendDelayedReply)

FairSpec == Spec /\ Fairness

---------------------------------------------------------------------------
(* Properties.                                                             *)

(* However the network cuts a request up, the service sees its headers and *)
(* the very data that was sent, once and in order, if the client waits for *)
(* replies: a piece is neither taken twice nor too early, and nothing of   *)
(* one request stays for the next.                                         *)
RequestsIntact ==
    ~ pipelines => \A j \in 1..Len(handled) : handled[j] = [of |-> j, data |-> Body(j)]

(* Replies come in the order of the requests, one for each.  (400 is sent  *)
(* again for every piece that follows a malformed chunk size.)             *)
OneReplyEach ==
    \A j \in 1..Len(replies) : \A k \in 1..(j - 1) :
        replies[k].to < replies[j].to \/ replies[j].to = 0 \/ replies[j].status = "400"

(* No call is made while another one still owes its delayed response, even *)
(* for a client that does not wait: "Prevention against concurrent         *)
(* requests [...] but untestable with QNAM" (KDSoapServerSocket.cpp:847).  *)
NoConcurrentCall == [][Len(handled') > Len(handled) => ~ m_delayedResponse]_vars

(* The fault code and the headers in the answer to a call are those set in *)
(* that call, not in an earlier one, unless the service dispatched it.     *)
(* (For the detail of a fault see DetailOfThisCall; the 500 that refuses a *)
(* fault message carries the headers of an earlier call.)                  *)
AnswersOwnCall ==
    \A j \in 1..Len(replies) :
        LET r == replies[j] IN
        r.status = "call" /\ script[r.to].path = "server" => {r.fault, r.headers} \subseteq {0, r.to}

(* The bytes of the file that a spec asks for.                             *)
Asked(spec, size) ==
    {b \in 0..(size - 1) :
        IF spec[1] < 0 THEN b >= size - spec[2]
        ELSE spec[1] <= b /\ (spec[2] < 0 \/ (b <= spec[2] /\ spec[1] <= spec[2]))}

(* A download whose length is an int is announced with the length it has,  *)
(* and its parts together are: every byte asked for, once and in ascending *)
(* order, and besides only bytes in small gaps between them.  The whole    *)
(* file is sent as such, as no content only if it has none, and 416 is     *)
(* sent only for a header that asks for nothing.  (Beyond an int the       *)
(* length announced is wrong, and may be 0 or negative.)                   *)
RangesServed ==
    \A j \in 1..Len(downloads) :
        LET d == downloads[j]
            h == script[d.of].range
            asked == UNION {Asked(h.specs[i], d.size) : i \in DOMAIN h.specs}
            bytes == FlattenSeq([i \in DOMAIN d.reply.body |-> d.reply.body[i].bytes])
            served == {bytes[i] : i \in DOMAIN bytes}
            length == Total([i \in DOMAIN d.reply.body |-> d.reply.body[i].size])
            sane == Len(h.specs) <= MaxSpecs /\ \A i \in DOMAIN h.specs : WellFormed(h.specs[i])
        IN /\ d.reply.length = length \/ length > IntMax
           /\ \A i \in 1..(Len(bytes) - 1) : bytes[i] < bytes[i + 1]
           /\ Ignored(h) => d.reply.status \in {"200", "204"}
           /\ d.reply.status \in {"200", "204"} => Len(bytes) = d.size
           /\ d.reply.status = "204" => d.size = 0 \/ d.size > IntMax
           /\ d.reply.status = "206" =>
                /\ sane /\ asked \subseteq served /\ served # 0..(d.size - 1)
                /\ \A b \in served \ asked : \E a \in asked, c \in asked :
                      a < b /\ b < c /\ c - a <= multiPartOverhead + 1
           /\ d.reply.status = "416" => ~ sane \/ asked = {} \/ d.size > IntMax

(* Every request handled is answered, now or by a delayed response.  The   *)
(* comment of dropTruncated, "wait for more data", says as much.           *)
EveryRequestIsAnswered ==
    pc = "eventLoop" => Len(handled) = Len(replies) + (IF m_delayedResponse THEN 1 ELSE 0)

(* The client of this connection waits for its replies, and its requests   *)
(* are complete: no document ends too early, no chunk size is garbage.     *)
WellBehaved ==
    /\ ~ pipelines
    /\ \A i \in DOMAIN script :
         /\ script[i].xml # "truncated"
         /\ script[i].chunked => \A c \in DOMAIN script[i].sizes : script[i].sizes[c] # -1

(* No request of such a client is left without an answer.                  *)
HandledIsAnswered == WellBehaved => EveryRequestIsAnswered

(* The connection of such a client implements KDSoapExchange; of any other *)
(* one nothing is promised.                                                *)
promised(n) == IF WellBehaved THEN n ELSE 0
Exchange == INSTANCE KDSoapExchange WITH
    asked <- promised(sent), handled <- promised(Len(handled)), answered <- promised(Len(replies))

ImplementsExchange == Exchange!Spec

(* What arrives while the socket is disabled, for which readyRead() is not *)
(* emitted again, is read in the end, even if nothing else arrives.        *)
LeftUnreadIsRead == device # <<>> ~> device = <<>>

(* hasFault(): "Returns true if setFault was called in the current method  *)
(* invocation" (KDSoapServerObjectInterface.h:203), dispatched or not.     *)
FaultOfThisCall == \A j \in 1..Len(replies) : replies[j].fault \in {0, replies[j].to}

(* setFault() "instructs KD SOAP to return a fault message", of which      *)
(* "detail holds application-specific error information"                   *)
(* (KDSoapServerObjectInterface.h:177,183): that of this fault.            *)
DetailOfThisCall ==
    \A j \in 1..Len(replies) :
        LET r == replies[j] IN r.status = "call" /\ script[r.to].path = "server" => r.detail \in {0, r.to}
=============================================================================
