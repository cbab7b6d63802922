---------------------- MODULE KDSoapServerSocket_proofs ----------------------
(***************************************************************************)
(* Proofs about KDSoapServerSocket, for any scripts, pipelined or not, and *)
(* any way the network cuts the stream into pieces: calls and answers,     *)
(* that requests arrive as they were sent and get their replies in order,  *)
(* and that downloads are what was asked for.                              *)
(***************************************************************************)
EXTENDS KDSoapServerSocket, SequenceLemmas, KDSoapFileRanges_proofs

(* While a response is delayed the socket is disabled, and slotReadyRead() *)
(* is not running.                                                         *)
DelayedDisabled == m_delayedResponse => ~ m_socketEnabled /\ pc = "eventLoop"

(* The steps of slotReadyRead() that hand a request over, and the others.  *)
Over == endRequest \/ refuse \/ handleFileDownload \/ dropTruncated \/ rejectFault \/ makeCall \/ makeDelayedCall
Assembling ==
    readAll \/ headersIncomplete \/ parseHeaders \/ receivePlain \/ chunkIncomplete \/ takeChunk \/ lastChunk
        \/ endOfTrailers \/ badChunkSize

(* slotReadyRead() goes on assembling a request or is over with one.       *)
LEMMA SlotKinds == slotReadyRead => Over \/ Assembling
BY DEF slotReadyRead, Over, Assembling

(* Assembling touches neither objects nor what is owed.                    *)
LEMMA AssemblingKeeps ==
    Assembling => pc # "eventLoop" /\ UNCHANGED <<objects, handled, m_delayedResponse, m_socketEnabled>>
BY DEF Assembling, readAll, headersIncomplete, parseHeaders, receivePlain, chunkIncomplete, takeChunk, lastChunk,
   endOfTrailers, badChunkSize, atChunk, service, assembly

(* Only makeDelayedCall starts a delayed response.                         *)
LEMMA OverKeeps ==
    Over => /\ pc = "request" /\ pc' = "eventLoop"
            /\ makeDelayedCall \/ UNCHANGED <<m_delayedResponse, m_socketEnabled>>
BY DEF Over, endRequest, refuse, handleFileDownload, dropTruncated, rejectFault, makeCall, makeDelayedCall,
   atCall, requestDone

(* Every step keeps a socket that owes a response disabled.                *)
LEMMA DelayedStep == DelayedDisabled /\ [Next]_vars => DelayedDisabled'
<1>. SUFFICES ASSUME DelayedDisabled, [Next]_vars PROVE DelayedDisabled'
  OBVIOUS
<1>. USE DEF DelayedDisabled
<1>1. CASE Over
  <2>1. CASE makeDelayedCall
    BY <1>1, <2>1, OverKeeps DEF makeDelayedCall
  <2>2. CASE UNCHANGED <<m_delayedResponse, m_socketEnabled>>
    BY <1>1, <2>2, OverKeeps
  <2>. QED
    BY <1>1, <2>1, <2>2, OverKeeps
<1>2. CASE Assembling
  BY <1>2, AssemblingKeeps
<1>3. CASE receive
  BY <1>3 DEF receive, readyRead, service
<1>4. CASE sendDelayedReply
  BY <1>4 DEF sendDelayedReply
<1>5. CASE UNCHANGED <<pc, service>>
  BY <1>5 DEF service
<1>. QED
  BY <1>1, <1>2, <1>3, <1>4, <1>5, SlotKinds DEF Next, send, finished, vars

(* A socket that owes a response is disabled.                              *)
LEMMA DelayedInductive == Spec => []DelayedDisabled
<1>1. Init => DelayedDisabled
  BY DEF Init, DelayedDisabled
<1>. QED
  BY <1>1, DelayedStep, PTL DEF Spec

(* No request is handed to the service while a delayed response is owed.   *)
THEOREM CallsAreSequential == Spec => NoConcurrentCall
<1>1. DelayedDisabled /\ [Next]_vars => [Len(handled') > Len(handled) => ~ m_delayedResponse]_vars
  <2>. SUFFICES ASSUME DelayedDisabled, Next, m_delayedResponse, Len(handled') > Len(handled) PROVE FALSE
    BY DEF DelayedDisabled
  <2>1. pc = "eventLoop"
    BY DEF DelayedDisabled
  <2>2. handled' = handled
    BY <2>1, SlotKinds, AssemblingKeeps, OverKeeps
    DEF Next, send, receive, readyRead, sendDelayedReply, finished, vars, service
  <2>. QED
    BY <2>2
<1>. QED
  BY <1>1, DelayedInductive, PTL DEF Spec, NoConcurrentCall

---------------------------------------------------------------------------
(* What a reply carries.  Whatever the fields hold, and from however many  *)
(* requests, a call on the server's own path starts with a clean object.   *)

Shaped(o) == \E V : o \in [Fields -> V]
ObjectsShaped ==
    /\ objects = [x \in {"main", "other"} |-> objects[x]]
    /\ Shaped(objects["main"]) /\ Shaped(objects["other"])

IsSequence(s) == \E S : s \in Seq(S)

(* Setting a field of a server object leaves the others.                   *)
LEMMA ReplaceShaped ==
    ASSUME NEW o, Shaped(o), NEW f \in Fields, NEW v
    PROVE  /\ Shaped([o EXCEPT ![f] = v])
           /\ [o EXCEPT ![f] = v][f] = v
           /\ \A g \in Fields \ {f} : [o EXCEPT ![f] = v][g] = o[g]
<1>1. PICK V : o \in [Fields -> V]
  BY DEF Shaped
<1>2. [o EXCEPT ![f] = v] \in [Fields -> V \cup {v}]
  BY <1>1
<1>. QED
  BY <1>1, <1>2 DEF Shaped

(* The fields the proofs name are different fields.                        *)
LEMMA FieldNames ==
    /\ "faultCode" \in Fields /\ "detail" \in Fields /\ "detailValue" \in Fields /\ "responseHeaders" \in Fields
    /\ "faultCode" # "detail" /\ "faultCode" # "detailValue" /\ "faultCode" # "responseHeaders"
    /\ "detail" # "responseHeaders" /\ "detailValue" # "responseHeaders"
BY DEF Fields

(* A fault that is set is of the request it was set for.                   *)
LEMMA FaultSet ==
    ASSUME NEW o, Shaped(o), NEW i, NEW q \in setFault(o, i)
    PROVE  Shaped(q) /\ q.faultCode = i /\ q.responseHeaders = o.responseHeaders
<1>0. PICK f \in {"detail", "detailValue"} : \E v : q = [[o EXCEPT !.faultCode = i] EXCEPT ![f] = v]
  BY DEF setFault
<1>1. PICK v : q = [[o EXCEPT !.faultCode = i] EXCEPT ![f] = v]
  BY <1>0
<1>2. /\ Shaped([o EXCEPT !.faultCode = i])
      /\ [o EXCEPT !.faultCode = i].faultCode = i
      /\ [o EXCEPT !.faultCode = i].responseHeaders = o.responseHeaders
  BY ReplaceShaped, FieldNames
<1>3. f \in Fields /\ "faultCode" \in Fields \ {f} /\ "responseHeaders" \in Fields \ {f}
  BY FieldNames
<1>4. ASSUME NEW p, Shaped(p), q = [p EXCEPT ![f] = v]
      PROVE  Shaped(q) /\ q["faultCode"] = p["faultCode"] /\ q["responseHeaders"] = p["responseHeaders"]
  <2>1. PICK V : p \in [Fields -> V]
    BY <1>4 DEF Shaped
  <2>2. q \in [Fields -> V \cup {v}]
    BY <1>4, <2>1
  <2>3. q["faultCode"] = p["faultCode"] /\ q["responseHeaders"] = p["responseHeaders"]
    BY <1>3, <1>4, <2>1
  <2>. QED
    BY <2>2, <2>3 DEF Shaped
<1>. QED
  BY <1>1, <1>2, <1>4

(* A call leaves its own fault and headers or what was there.              *)
LEMMA ServedOwn ==
    ASSUME NEW o, Shaped(o), NEW i, NEW q \in Served(o, i)
    PROVE  /\ Shaped(q)
           /\ q.faultCode \in {o.faultCode, i}
           /\ q.responseHeaders \in {o.responseHeaders, i}
<1>1. ASSUME NEW p \in {o} \cup setFault(o, i)
      PROVE  Shaped(p) /\ p.faultCode \in {o.faultCode, i} /\ p.responseHeaders = o.responseHeaders
  BY FaultSet
<1>2. CASE q \in {o} \cup setFault(o, i)
  BY <1>1, <1>2
<1>3. ASSUME NEW p \in {o} \cup setFault(o, i), q = setResponseHeaders(p, i)
      PROVE  /\ Shaped(q)
             /\ q.faultCode \in {o.faultCode, i}
             /\ q.responseHeaders \in {o.responseHeaders, i}
  <2>1. Shaped(p) /\ p.faultCode \in {o.faultCode, i}
    BY <1>1
  <2>2. q = [p EXCEPT !.responseHeaders = i]
    BY <1>3 DEF setResponseHeaders
  <2>. QED
    BY <2>1, <2>2, ReplaceShaped, FieldNames
<1>. QED
  BY <1>2, <1>3 DEF Served

(* setRequestHeaders() clears fault and headers.                           *)
LEMMA Prepared ==
    ASSUME NEW o, Shaped(o)
    PROVE  /\ Shaped(setRequestHeaders(o))
           /\ setRequestHeaders(o).faultCode = 0 /\ setRequestHeaders(o).responseHeaders = 0
<1>1. setRequestHeaders(o) = [[o EXCEPT !.faultCode = 0] EXCEPT !.responseHeaders = 0]
  BY DEF setRequestHeaders
<1>2. Shaped([o EXCEPT !.faultCode = 0]) /\ [o EXCEPT !.faultCode = 0].faultCode = 0
  BY ReplaceShaped, FieldNames
<1>3. ASSUME NEW p, Shaped(p), NEW q, q = [p EXCEPT !.responseHeaders = 0]
      PROVE  Shaped(q) /\ q.faultCode = p.faultCode /\ q.responseHeaders = 0
  BY <1>3, ReplaceShaped, FieldNames
<1>. QED
  BY <1>1, <1>2, <1>3

(* After a call on the server's path its object has nothing of another.    *)
LEMMA CallOwn ==
    ASSUME ObjectsShaped, NEW i, callService(i)
    PROVE  /\ ObjectsShaped'
           /\ script[i].path = "server" =>
                {objects'["main"].faultCode, objects'["main"].responseHeaders} \subseteq {0, i}
<1>1. CASE processRequest(i)
  <2>1. PICK q \in Served(setRequestHeaders(objects["main"]), i) : objects' = [objects EXCEPT !["main"] = q]
    BY <1>1 DEF processRequest
  <2>2. Shaped(q) /\ q.faultCode \in {0, i} /\ q.responseHeaders \in {0, i}
    BY Prepared, ServedOwn DEF ObjectsShaped
  <2>3. /\ objects'["main"] = q /\ objects'["other"] = objects["other"]
        /\ objects' = [x \in {"main", "other"} |-> objects'[x]]
    BY <2>1 DEF ObjectsShaped
  <2>. QED
    BY <2>2, <2>3 DEF ObjectsShaped
<1>2. CASE processRequestWithPath(i) /\ script[i].path # "server"
  <2>1. PICK q \in Served(objects["other"], i) : objects' = [main |-> q, other |-> q]
    BY <1>2 DEF processRequestWithPath
  <2>2. Shaped(q)
    BY ServedOwn DEF ObjectsShaped
  <2>3. /\ objects'["main"] = q /\ objects'["other"] = q
        /\ objects' = [x \in {"main", "other"} |-> objects'[x]]
    BY <2>1
  <2>. QED
    BY <1>2, <2>2, <2>3 DEF ObjectsShaped
<1>. QED
  BY <1>1, <1>2 DEF callService

(* The call a delayed response answers is the last request handed over.    *)
OwnInv ==
    /\ ObjectsShaped
    /\ IsSequence(replies) /\ IsSequence(handled)
    /\ AnswersOwnCall
    /\ m_delayedResponse =>
        LET i == handled[Len(handled)].of IN
        script[i].path = "server" => objects["main"].responseHeaders \in {0, i}

(* A sequence that got one more element.                                   *)
LEMMA AppendIs ==
    ASSUME NEW s, IsSequence(s), NEW e
    PROVE  /\ IsSequence(Append(s, e))
           /\ Len(Append(s, e)) = Len(s) + 1 /\ Len(s) \in Nat
           /\ Append(s, e)[Len(s) + 1] = e
           /\ \A j \in 1..Len(s) : Append(s, e)[j] = s[j]
<1>1. PICK S : s \in Seq(S)
  BY DEF IsSequence
<1>2. s \in Seq(S \cup {e}) /\ e \in S \cup {e}
  BY <1>1
<1>3. Append(s, e) \in Seq(S \cup {e})
  BY <1>2
<1>. QED
  BY <1>2, <1>3 DEF IsSequence

(* One more reply, which is its request's own or no answer to a call.      *)
LEMMA ReplyKeeps ==
    ASSUME IsSequence(replies), AnswersOwnCall, NEW r, write(r), script' = script,
           r.status = "call" /\ script[r.to].path = "server" => {r.fault, r.headers} \subseteq {0, r.to}
    PROVE  IsSequence(replies)' /\ AnswersOwnCall'
<1>1. /\ replies' = Append(replies, r)
      /\ Len(replies') = Len(replies) + 1 /\ Len(replies) \in Nat
      /\ replies'[Len(replies) + 1] = r
      /\ \A j \in 1..Len(replies) : replies'[j] = replies[j]
  BY AppendIs DEF write
<1>2. IsSequence(replies)'
  BY <1>1, AppendIs
<1>3. ASSUME NEW j \in 1..Len(replies'), replies'[j].status = "call", script[replies'[j].to].path = "server"
      PROVE  {replies'[j].fault, replies'[j].headers} \subseteq {0, replies'[j].to}
  <2>1. CASE j = Len(replies) + 1
    BY <1>1, <1>3, <2>1
  <2>2. CASE j \in 1..Len(replies)
    BY <1>1, <1>3, <2>2 DEF AnswersOwnCall
  <2>. QED
    BY <1>1, <2>1, <2>2
<1>. QED
  BY <1>2, <1>3 DEF AnswersOwnCall

(* Every step keeps OwnInv.                                                *)
LEMMA OwnStep == DelayedDisabled /\ OwnInv /\ [Next]_vars => OwnInv'
<1>. SUFFICES ASSUME DelayedDisabled, OwnInv, [Next]_vars PROVE OwnInv'
  OBVIOUS
<1>0. ASSUME UNCHANGED <<script, service>> PROVE OwnInv'
  BY <1>0 DEF OwnInv, service, AnswersOwnCall, ObjectsShaped
<1>1. ASSUME NEW data, hand(data), script' = script
      PROVE  IsSequence(handled)' /\ handled'[Len(handled')].of = m_httpHeaders
  BY <1>1, AppendIs DEF hand, OwnInv
<1>2. ASSUME NEW r, write(r), r.status # "call", UNCHANGED <<script, objects>>, ~ m_delayedResponse',
             IsSequence(handled)'
      PROVE  OwnInv'
  BY <1>2, ReplyKeeps DEF OwnInv, ObjectsShaped
<1>3. ASSUME pc = "request" PROVE ~ m_delayedResponse
  BY <1>3 DEF DelayedDisabled
<1>4. CASE endRequest
  <2>1. Plain(m_httpHeaders, "raw").status # "call"
    BY DEF Plain
  <2>. QED
    BY <1>1, <1>2, <1>3, <1>4, <2>1 DEF endRequest, requestDone, client
<1>5. CASE refuse
  <2>1. PICK status \in refusals(m_httpHeaders) : write(Plain(m_httpHeaders, status))
    BY <1>5 DEF refuse
  <2>2. Plain(m_httpHeaders, status).status # "call"
    BY <2>1 DEF Plain, refusals
  <2>. QED
    BY <1>1, <1>2, <1>3, <1>5, <2>1, <2>2 DEF refuse, requestDone, client
<1>14. CASE handleFileDownload
  <2>1. PICK size \in FileSizes :
            write(Plain(m_httpHeaders, Download(script[m_httpHeaders].range, size).status))
    BY <1>14 DEF handleFileDownload
  <2>2. Plain(m_httpHeaders, Download(script[m_httpHeaders].range, size).status).status # "call"
    BY DEF Plain, Download, wholeFile
  <2>. QED
    BY <1>1, <1>2, <1>3, <1>14, <2>1, <2>2 DEF handleFileDownload, requestDone, client
<1>6. CASE dropTruncated
  BY <1>1, <1>3, <1>6 DEF dropTruncated, atCall, requestDone, client, OwnInv, AnswersOwnCall, ObjectsShaped
<1>7. CASE rejectFault
  <2>1. [Plain(m_httpHeaders, "500") EXCEPT !.headers = objects["main"].responseHeaders].status # "call"
    BY DEF Plain
  <2>. QED
    BY <1>1, <1>2, <1>3, <1>7, <2>1 DEF rejectFault, atCall, requestDone, client
<1>8. CASE makeCall
  <2>1. callService(m_httpHeaders) /\ script' = script /\ ~ m_delayedResponse' /\ IsSequence(handled)'
    BY <1>1, <1>3, <1>8 DEF makeCall, atCall, requestDone, client
  <2>2. /\ ObjectsShaped'
        /\ script[m_httpHeaders].path = "server" =>
             {objects'["main"].faultCode, objects'["main"].responseHeaders} \subseteq {0, m_httpHeaders}
    BY <2>1, CallOwn DEF OwnInv
  <2>3. IsSequence(replies)' /\ AnswersOwnCall'
    BY <1>8, <2>1, <2>2, ReplyKeeps DEF makeCall, Answer, OwnInv
  <2>. QED
    BY <2>1, <2>2, <2>3 DEF OwnInv
<1>9. CASE makeDelayedCall
  <2>1. /\ callService(m_httpHeaders) /\ script' = script /\ replies' = replies
        /\ IsSequence(handled)' /\ handled'[Len(handled')].of = m_httpHeaders
    BY <1>1, <1>9 DEF makeDelayedCall, atCall, requestDone, client
  <2>2. /\ ObjectsShaped'
        /\ script[m_httpHeaders].path = "server" => objects'["main"].responseHeaders \in {0, m_httpHeaders}
    BY <2>1, CallOwn DEF OwnInv
  <2>. QED
    BY <2>1, <2>2 DEF OwnInv, AnswersOwnCall
<1>10. CASE sendDelayedReply
  <2>. DEFINE i == handled[Len(handled)].of
              r == [Answer(i, objects["main"]) EXCEPT !.fault = 0, !.detail = 0]
  <2>1. r.to = i /\ r.fault = 0 /\ r.headers = objects["main"].responseHeaders
    BY DEF Answer
  <2>2. write(r) /\ m_delayedResponse /\ ~ m_delayedResponse' /\ UNCHANGED <<script, objects, handled>>
    BY <1>10 DEF sendDelayedReply, client
  <2>3. script[i].path = "server" => {r.fault, r.headers} \subseteq {0, i}
    BY <2>1, <2>2 DEF OwnInv
  <2>4. IsSequence(replies)' /\ AnswersOwnCall'
    BY <2>1, <2>2, <2>3, ReplyKeeps DEF OwnInv
  <2>. QED
    BY <2>2, <2>4 DEF OwnInv, ObjectsShaped
<1>11. CASE badChunkSize
  <2>1. Plain(m_httpHeaders, "400").status # "call"
    BY DEF Plain
  <2>2. pc = "body" /\ write(Plain(m_httpHeaders, "400")) /\ UNCHANGED <<script, objects, handled, m_delayedResponse>>
    BY <1>11 DEF badChunkSize, atChunk, client
  <2>. QED
    BY <1>2, <2>1, <2>2 DEF DelayedDisabled, OwnInv
<1>12. CASE Assembling /\ ~ badChunkSize
  BY <1>0, <1>12 DEF Assembling, readAll, headersIncomplete, parseHeaders, receivePlain, chunkIncomplete, takeChunk,
     lastChunk, endOfTrailers, client
<1>13. CASE send \/ receive \/ finished \/ UNCHANGED vars
  BY <1>0, <1>13 DEF send, receive, readyRead, finished, vars, client
<1>. QED
  BY <1>4, <1>5, <1>6, <1>7, <1>8, <1>9, <1>10, <1>11, <1>12, <1>13, <1>14, SlotKinds DEF Next, Over

(* The answer to a call carries no fault and no header of an earlier call, *)
(* for any number of requests, answered at once or later.                  *)
THEOREM AnswersAreOwn == Spec => []AnswersOwnCall
<1>1. Init => OwnInv
  <2>. SUFFICES ASSUME Init PROVE OwnInv
    OBVIOUS
  <2>1. Fresh \in [Fields -> {0}]
    BY DEF Fresh
  <2>2. ObjectsShaped
    BY <2>1 DEF Init, ObjectsShaped, Shaped
  <2>3. <<>> \in Seq({})
    OBVIOUS
  <2>4. IsSequence(replies) /\ IsSequence(handled)
    BY <2>3 DEF Init, IsSequence
  <2>5. AnswersOwnCall
    BY DEF Init, AnswersOwnCall
  <2>. QED
    BY <2>2, <2>4, <2>5 DEF Init, OwnInv
<1>2. OwnInv => AnswersOwnCall
  BY DEF OwnInv
<1>. QED
  BY <1>1, <1>2, OwnStep, DelayedInductive, PTL DEF Spec

---------------------------------------------------------------------------
(* What the client sends: a block of headers, and no other one behind it.  *)
Token == [k : {"headers", "eol", "data", "size", "trailer"}, of : Int, n : Int]
Inner == {x \in Token : x.k # "headers"}

(* What a request is built from are tokens.                                *)
LEMMA TokensTyped ==
    ASSUME NEW i \in Int, NEW n \in Int
    PROVE  HeaderBlock(i) \in Token /\ {Eol, Data(i, n), ChunkSize(n), Trailer(i)} \subseteq Inner
BY DEF HeaderBlock, Eol, Data, ChunkSize, Trailer, Inner, Token

(* Max of zero and a number.                                               *)
LEMMA MaxIs == ASSUME NEW n \in Int PROVE Max({0, n}) = IF n >= 0 THEN n ELSE 0
<1>1. PICK m : m = IF n >= 0 THEN n ELSE 0
  OBVIOUS
<1>2. m \in {0, n} /\ \A y \in {0, n} : m >= y
  BY <1>1
<1>3. \A x \in {0, n} : (\A y \in {0, n} : x >= y) => x = m
  BY <1>1
<1>. QED
  BY <1>1, <1>2, <1>3 DEF Max

(* A request of a script is a request.                                     *)
LEMMA ScriptTyped ==
    ASSUME script \in Scripts, NEW i \in 1..Len(script)
    PROVE  script[i] \in Request /\ i \in Nat
BY SocketAssumption

(* The data of a chunk are as long as its size says.                       *)
LEMMA ChunkDataIs ==
    ASSUME script \in Scripts, NEW i \in 1..Len(script), NEW c \in 1..Len(script[i].sizes)
    PROVE  /\ script[i].sizes[c] \in (Nat \ {0}) \cup {-1}
           /\ ChunkData(i, c) \in Seq(Inner)
           /\ script[i].sizes[c] \in Nat => Len(ChunkData(i, c)) = script[i].sizes[c]
<1>1. PICK n : n = script[i].sizes[c]
  OBVIOUS
<1>2. n \in (Nat \ {0}) \cup {-1} /\ i \in Nat /\ c \in Nat
  BY <1>1, ScriptTyped DEF Request
<1>3. PICK m : m = Max({0, n})
  OBVIOUS
<1>4. m \in Nat /\ (n \in Nat => m = n)
  BY <1>2, <1>3, MaxIs
<1>5. ChunkData(i, c) = [j \in 1..m |-> Data(i, 10 * c + j)]
  BY <1>1, <1>3 DEF ChunkData
<1>6. \A j \in 1..m : Data(i, 10 * c + j) \in Inner
  BY <1>2, <1>4, TokensTyped
<1>. QED
  BY <1>1, <1>2, <1>4, <1>5, <1>6

(* The parts of a body, plain and in chunks.                               *)
Datas(i) == [c \in 1..Len(script[i].sizes) |-> ChunkData(i, c)]
Chunks(i) == [c \in 1..Len(script[i].sizes) |-> Chunk(i, c)]
Ending(i) == (<<ChunkSize(0), Eol>> \o (IF script[i].trailer THEN <<Trailer(i), Eol>> ELSE <<>>)) \o <<Eol>>

(* A chunk is its size, an end of line, its data and another.              *)
LEMMA ChunkIs ==
    ASSUME script \in Scripts, NEW i \in 1..Len(script), NEW c \in 1..Len(script[i].sizes)
    PROVE  /\ Chunk(i, c) \in Seq(Inner)
           /\ Len(Chunk(i, c)) = Len(ChunkData(i, c)) + 3
           /\ Chunk(i, c)[1] = ChunkSize(script[i].sizes[c]) /\ Chunk(i, c)[2] = Eol
           /\ \A j \in 1..Len(ChunkData(i, c)) : Chunk(i, c)[j + 2] = ChunkData(i, c)[j]
           /\ Chunk(i, c)[Len(ChunkData(i, c)) + 3] = Eol
<1>1. PICK d : d = ChunkData(i, c)
  OBVIOUS
<1>2. PICK s : s = ChunkSize(script[i].sizes[c])
  OBVIOUS
<1>3. PICK e : e = Eol
  OBVIOUS
<1>4. d \in Seq(Inner) /\ s \in Inner /\ e \in Inner
  BY <1>1, <1>2, <1>3, ChunkDataIs, TokensTyped
<1>5. Chunk(i, c) = <<s, e>> \o d \o <<e>>
  BY <1>1, <1>2, <1>3 DEF Chunk
<1>. QED
  BY <1>1, <1>2, <1>3, <1>4, <1>5

(* The body of a request is the data of its chunks.                        *)
LEMMA BodyTyped ==
    ASSUME script \in Scripts, NEW i \in 1..Len(script)
    PROVE  /\ Datas(i) \in Seq(Seq(Inner)) /\ Len(Datas(i)) = Len(script[i].sizes)
           /\ Chunks(i) \in Seq(Seq(Inner)) /\ Len(Chunks(i)) = Len(script[i].sizes)
           /\ Body(i) = FlattenSeq(Datas(i)) /\ Body(i) \in Seq(Inner)
           /\ FlattenSeq(Chunks(i)) \in Seq(Inner)
           /\ Len(script[i].sizes) \in Nat
<1>1. Len(script[i].sizes) \in Nat
  BY ScriptTyped DEF Request
<1>2. PICK n : n = Len(script[i].sizes)
  OBVIOUS
<1>3. Datas(i) \in Seq(Seq(Inner)) /\ Len(Datas(i)) = n
  BY <1>1, <1>2, ChunkDataIs DEF Datas
<1>4. Chunks(i) \in Seq(Seq(Inner)) /\ Len(Chunks(i)) = n
  <2>1. \A c \in 1..n : Chunk(i, c) \in Seq(Inner)
    BY <1>2, ChunkIs
  <2>. QED
    BY <1>1, <1>2, <2>1 DEF Chunks
<1>5. ASSUME NEW s \in Seq(Seq(Inner)), Len(s) = n PROVE FlattenSeq(s) \in Seq(Inner)
  <2>1. Len(s) \in 0..Len(s)
    OBVIOUS
  <2>. QED
    BY <2>1, UptoIs
<1>6. Body(i) = FlattenSeq(Datas(i))
  BY DEF Body, Datas
<1>. QED
  BY <1>1, <1>2, <1>3, <1>4, <1>5, <1>6

(* A chunked body is its chunks and an ending.                             *)
LEMMA EndingTyped ==
    ASSUME script \in Scripts, NEW i \in 1..Len(script)
    PROVE  Ending(i) \in Seq(Inner) /\ ChunkedBody(i) = FlattenSeq(Chunks(i)) \o Ending(i)
<1>0. i \in Int /\ 0 \in Int
  BY ScriptTyped
<1>1. <<ChunkSize(0), Eol>> \in Seq(Inner) /\ <<Trailer(i), Eol>> \in Seq(Inner) /\ <<Eol>> \in Seq(Inner)
      /\ <<>> \in Seq(Inner)
  BY <1>0, TokensTyped
<1>2. PICK a, b, t : a = <<ChunkSize(0), Eol>> /\ b = <<Eol>> /\ t = IF script[i].trailer THEN <<Trailer(i), Eol>> ELSE <<>>
  OBVIOUS
<1>3. a \in Seq(Inner) /\ b \in Seq(Inner) /\ t \in Seq(Inner)
  BY <1>1, <1>2
<1>4. PICK f : f = FlattenSeq(Chunks(i))
  OBVIOUS
<1>5. f \in Seq(Inner)
  BY <1>4, BodyTyped
<1>6. Ending(i) = (a \o t) \o b
  BY <1>2 DEF Ending
<1>7. ChunkedBody(i) = ((f \o a) \o t) \o b
  BY <1>2, <1>4 DEF ChunkedBody, Chunks
<1>8. (f \o a) \o t = f \o (a \o t)
  BY SMTT(30), <1>3, <1>5, ConcatAssociative
<1>9. PICK u : u = a \o t
  OBVIOUS
<1>10. u \in Seq(Inner)
  BY <1>3, <1>9
<1>11. (f \o u) \o b = f \o (u \o b)
  BY SMTT(30), <1>3, <1>5, <1>10, ConcatAssociative
<1>12. u \o b \in Seq(Inner)
  BY <1>3, <1>10, ConcatProperties
<1>. QED
  BY <1>4, <1>6, <1>7, <1>8, <1>9, <1>11, <1>12

(* What follows the headers of request i.                                  *)
Rest(i) == IF script[i].chunked THEN ChunkedBody(i) ELSE Body(i)

(* A request is its header block, an empty line and the rest.              *)
LEMMA StreamIs ==
    ASSUME script \in Scripts, NEW i \in 1..Len(script)
    PROVE  /\ Rest(i) \in Seq(Inner)
           /\ Stream(i) \in Seq(Token) /\ Len(Stream(i)) = Len(Rest(i)) + 3
           /\ Stream(i)[1] = HeaderBlock(i) /\ Stream(i)[2] = Eol /\ Stream(i)[3] = Eol
           /\ \A j \in 1..Len(Rest(i)) : Stream(i)[j + 3] = Rest(i)[j]
           /\ Stream(i) = <<HeaderBlock(i), Eol, Eol>> \o Rest(i)
<1>1. PICK r : r = Rest(i)
  OBVIOUS
<1>2. r \in Seq(Inner)
  <2>1. FlattenSeq(Chunks(i)) \o Ending(i) \in Seq(Inner)
    BY BodyTyped, EndingTyped, ConcatProperties
  <2>. QED
    BY <1>1, <2>1, BodyTyped, EndingTyped DEF Rest
<1>3. r \in Seq(Token)
  BY <1>2, SeqMonotonic DEF Inner
<1>4. PICK h, e : h = HeaderBlock(i) /\ e = Eol
  OBVIOUS
<1>5. h \in Token /\ e \in Token
  BY <1>4, ScriptTyped, TokensTyped DEF Inner
<1>6. Stream(i) = <<h, e, e>> \o r
  BY <1>1, <1>4 DEF Stream, Rest
<1>. QED
  BY <1>1, <1>2, <1>3, <1>4, <1>5, <1>6

---------------------------------------------------------------------------
(* Replies are in order: the headers still coming are those of later       *)
(* requests than the one being received, and this is later than all that   *)
(* have a reply, unless its chunks have got stuck at a size that is none.  *)
Coming == m_requestBuffer \o device \o wire

StreamTyped ==
    /\ script \in Scripts
    /\ m_requestBuffer \in Seq(Token) /\ device \in Seq(Token) /\ wire \in Seq(Token)
    /\ sent \in 0..Len(script) /\ m_httpHeaders \in 0..sent /\ m_chunkStart \in Int

Ascending ==
    \A p, q \in DOMAIN Coming :
        p < q /\ Coming[p].k = "headers" /\ Coming[q].k = "headers" => Coming[p].of < Coming[q].of

Stuck ==
    /\ isChunked /\ m_chunkStart >= 0 /\ nextEOL # 0 /\ ~ isSize
    /\ pc \in {"eventLoop", "read", "body"}

RepliesBehind ==
    \A j \in DOMAIN replies :
        /\ replies[j].to \in 0..sent
        /\ m_httpHeaders # 0 => replies[j].to < m_httpHeaders \/ (replies[j].to = m_httpHeaders /\ Stuck)

Later(i) ==
    /\ i \in 1..sent
    /\ m_httpHeaders < i
    /\ \A j \in DOMAIN replies : replies[j].to < i
    /\ m_delayedResponse => handled[Len(handled)].of < i

Ahead == \A p \in DOMAIN Coming : Coming[p].k = "headers" => Later(Coming[p].of)

OwesOne ==
    m_delayedResponse =>
        /\ m_httpHeaders = 0
        /\ handled[Len(handled)].of \in 1..sent
        /\ \A j \in DOMAIN replies : replies[j].to < handled[Len(handled)].of

HeadersOnce == pc = "headers" => m_httpHeaders = 0

OrderInv ==
    /\ StreamTyped /\ Ascending /\ RepliesBehind /\ Ahead /\ OwesOne /\ HeadersOnce
    /\ IsSequence(replies) /\ IsSequence(handled) /\ OneReplyEach

(* Elements of what is buffered, arrived and on its way.                   *)
LEMMA ComingIs ==
    ASSUME NEW b \in Seq(Token), NEW d \in Seq(Token), NEW w \in Seq(Token)
    PROVE  LET X == b \o d \o w IN
           /\ X \in Seq(Token) /\ DOMAIN X = 1..(Len(b) + Len(d) + Len(w))
           /\ \A p \in DOMAIN X : X[p] = IF p <= Len(b) THEN b[p]
                                         ELSE IF p <= Len(b) + Len(d) THEN d[p - Len(b)]
                                         ELSE w[p - Len(b) - Len(d)]
           /\ Len(b) \in Nat /\ Len(d) \in Nat /\ Len(w) \in Nat
OBVIOUS

(* Whatever happens to what is coming, but for a new request, it is taken  *)
(* from the front.                                                         *)
Taken(k) ==
    /\ k \in Nat
    /\ \A p \in DOMAIN Coming' : p + k \in DOMAIN Coming /\ Coming'[p] = Coming[p + k]

(* Taking from the front keeps header blocks ascending.                    *)
LEMMA TakenAscending ==
    ASSUME StreamTyped, StreamTyped', Ascending, NEW k, Taken(k)
    PROVE  Ascending'
<1>1. DOMAIN Coming' \subseteq Nat /\ k \in Nat
  BY SMTT(30), ComingIs DEF Coming, StreamTyped, Taken
<1>. SUFFICES ASSUME NEW p \in DOMAIN Coming', NEW q \in DOMAIN Coming', p < q,
                     Coming'[p].k = "headers", Coming'[q].k = "headers"
              PROVE  Coming'[p].of < Coming'[q].of
  BY DEF Ascending
<1>2. /\ p + k \in DOMAIN Coming /\ q + k \in DOMAIN Coming /\ p + k < q + k
      /\ Coming'[p] = Coming[p + k] /\ Coming'[q] = Coming[q + k]
  BY <1>1 DEF Taken
<1>. QED
  BY <1>2 DEF Ascending

(* The least element of a set of numbers.                                  *)
LEMMA MinIs == ASSUME NEW P \in SUBSET Nat, P # {} PROVE Min(P) \in P /\ \A x \in P : Min(P) <= x
<1>1. \E n \in P : \A m \in P : n <= m
  BY Least
<1>. QED
  BY <1>1, Zenon DEF Min

(* indexOf() finds the first end of line.                                  *)
LEMMA EolIs ==
    ASSUME NEW b \in Seq(Token), NEW from \in Nat \ {0}
    PROVE  \/ eolFrom(b, from) = 0 /\ \A p \in from..Len(b) : b[p] # Eol
           \/ /\ eolFrom(b, from) \in from..Len(b) /\ b[eolFrom(b, from)] = Eol
              /\ \A p \in from..(eolFrom(b, from) - 1) : b[p] # Eol
<1>. DEFINE P == {p \in from..Len(b) : b[p] = Eol}
<1>1. CASE P = {}
  <2>1. eolFrom(b, from) = 0
    BY <1>1 DEF eolFrom
  <2>. QED
    BY <1>1, <2>1
<1>2. CASE P # {}
  <2>1. P \in SUBSET Nat
    OBVIOUS
  <2>2. eolFrom(b, from) = Min(P)
    BY <1>2 DEF eolFrom
  <2>3. Min(P) \in P /\ \A x \in P : Min(P) <= x
    <3>. HIDE DEF P
    <3>. QED
      BY <1>2, <2>1, MinIs
  <2>4. PICK m : m = Min(P)
    OBVIOUS
  <2>5. m \in P /\ \A x \in P : m <= x
    BY <2>3, <2>4
  <2>6. m \in from..Len(b) /\ b[m] = Eol
    BY <2>5
  <2>7. ASSUME NEW p \in from..(m - 1) PROVE b[p] # Eol
    <3>1. p \in from..Len(b) /\ ~ m <= p
      BY <2>6
    <3>. QED
      BY <2>5, <3>1
  <2>. QED
    BY <2>2, <2>4, <2>6, <2>7
<1>. QED
  BY <1>1, <1>2

(* indexOf() finds the first empty line.                                   *)
LEMMA BlankIs ==
    ASSUME NEW b \in Seq(Token)
    PROVE  \/ blankLine(b) = 0 /\ \A p \in 1..(Len(b) - 1) : ~ (b[p] = Eol /\ b[p + 1] = Eol)
           \/ /\ blankLine(b) \in 1..(Len(b) - 1)
              /\ b[blankLine(b)] = Eol /\ b[blankLine(b) + 1] = Eol
              /\ \A p \in 1..(blankLine(b) - 1) : ~ (b[p] = Eol /\ b[p + 1] = Eol)
<1>. DEFINE P == {p \in 1..(Len(b) - 1) : b[p] = Eol /\ b[p + 1] = Eol}
<1>1. CASE P = {}
  <2>1. blankLine(b) = 0
    BY <1>1 DEF blankLine
  <2>. QED
    BY <1>1, <2>1
<1>2. CASE P # {}
  <2>1. P \in SUBSET Nat
    OBVIOUS
  <2>2. blankLine(b) = Min(P)
    BY <1>2 DEF blankLine
  <2>3. Min(P) \in P /\ \A x \in P : Min(P) <= x
    <3>. HIDE DEF P
    <3>. QED
      BY <1>2, <2>1, MinIs
  <2>4. PICK m : m = Min(P)
    OBVIOUS
  <2>5. m \in P /\ \A x \in P : m <= x
    BY <2>3, <2>4
  <2>6. m \in 1..(Len(b) - 1) /\ b[m] = Eol /\ b[m + 1] = Eol
    BY <2>5
  <2>7. ASSUME NEW p \in 1..(m - 1) PROVE ~ (b[p] = Eol /\ b[p + 1] = Eol)
    <3>1. p \in 1..(Len(b) - 1) /\ ~ m <= p
      BY <2>6
    <3>. QED
      BY <2>5, <3>1
  <2>. QED
    BY <2>2, <2>4, <2>6, <2>7
<1>. QED
  BY <1>1, <1>2

(* What is left when the front is removed.                                 *)
LEMMA SuffixIs ==
    ASSUME NEW S, NEW b \in Seq(S), NEW k \in 0..Len(b), NEW c, c = SubSeq(b, k + 1, Len(b))
    PROVE  c \in Seq(S) /\ Len(c) = Len(b) - k /\ \A p \in 1..Len(c) : c[p] = b[p + k]
<1>1. PICK m, n : m = k + 1 /\ n = Len(b)
  OBVIOUS
<1>2. m \in Int /\ n \in Int /\ \A i \in m..n : b[i] \in S
  BY <1>1
<1>3. /\ SubSeq(b, m, n) \in Seq(S)
      /\ Len(SubSeq(b, m, n)) = IF m <= n THEN n - m + 1 ELSE 0
      /\ \A i \in 1..(n - m + 1) : SubSeq(b, m, n)[i] = b[m + i - 1]
  BY <1>2, SubSeqProperties
<1>4. Len(c) = Len(b) - k /\ n - m + 1 = Len(c)
  BY <1>1, <1>3
<1>5. ASSUME NEW p \in 1..Len(c) PROVE c[p] = b[p + k]
  <2>1. m + p - 1 = p + k
    BY <1>1, <1>4
  <2>. QED
    BY <1>1, <1>3, <1>4, <2>1
<1>. QED
  BY <1>1, <1>3, <1>4, <1>5

(* The front of the buffer is used up.                                     *)
LEMMA FrontTaken ==
    ASSUME StreamTyped, UNCHANGED <<device, wire>>, NEW k \in 0..Len(m_requestBuffer),
           m_requestBuffer' = SubSeq(m_requestBuffer, k + 1, Len(m_requestBuffer))
    PROVE  m_requestBuffer' \in Seq(Token) /\ Taken(k)
<1>1. PICK b, d, w : b = m_requestBuffer /\ d = device /\ w = wire
  OBVIOUS
<1>2. PICK c : c = SubSeq(b, k + 1, Len(b))
  OBVIOUS
<1>3. b \in Seq(Token) /\ d \in Seq(Token) /\ w \in Seq(Token) /\ k \in 0..Len(b)
  BY <1>1 DEF StreamTyped
<1>4. c \in Seq(Token) /\ Len(c) = Len(b) - k /\ \A p \in 1..Len(c) : c[p] = b[p + k]
  <2>1. b \in Seq(Token) /\ k \in 0..Len(b) /\ c = SubSeq(b, k + 1, Len(b))
    BY <1>2, <1>3
  <2>. QED
    BY ONLY <2>1, SuffixIs
<1>6. PICK X, Y : X = b \o d \o w /\ Y = c \o d \o w
  OBVIOUS
<1>5. Coming = X /\ Coming' = Y /\ m_requestBuffer' = c
  BY <1>1, <1>2, <1>6 DEF Coming
<1>7. PICK lb, ld, lw : lb = Len(b) /\ ld = Len(d) /\ lw = Len(w)
  OBVIOUS
<1>8. /\ DOMAIN X = 1..(lb + ld + lw)
      /\ \A p \in DOMAIN X : X[p] = IF p <= lb THEN b[p]
                                    ELSE IF p <= lb + ld THEN d[p - lb]
                                    ELSE w[p - lb - ld]
      /\ lb \in Nat /\ ld \in Nat /\ lw \in Nat
  BY SMTT(30), <1>3, <1>6, <1>7, ComingIs
<1>9. /\ DOMAIN Y = 1..((lb - k) + ld + lw)
      /\ \A p \in DOMAIN Y : Y[p] = IF p <= lb - k THEN c[p]
                                    ELSE IF p <= (lb - k) + ld THEN d[p - (lb - k)]
                                    ELSE w[p - (lb - k) - ld]
  <2>1. PICK lc : lc = Len(c)
    OBVIOUS
  <2>2. /\ DOMAIN Y = 1..(lc + ld + lw)
        /\ \A p \in DOMAIN Y : Y[p] = IF p <= lc THEN c[p]
                                      ELSE IF p <= lc + ld THEN d[p - lc]
                                      ELSE w[p - lc - ld]
    <3>1. c \in Seq(Token) /\ d \in Seq(Token) /\ w \in Seq(Token)
      BY <1>3, <1>4
    <3>. QED
      BY SMTT(30), <1>6, <1>7, <2>1, <3>1, ComingIs
  <2>3. lc = lb - k
    BY <1>4, <1>7, <2>1
  <2>. QED
    BY <2>2, <2>3
<1>10. k \in 0..lb
  BY <1>3, <1>7
<1>11. ASSUME NEW p \in DOMAIN Y PROVE p + k \in DOMAIN X /\ Y[p] = X[p + k]
  <2>1. p + k \in DOMAIN X /\ p \in Nat
    BY <1>8, <1>9, <1>10
  <2>2. CASE p <= lb - k
    <3>1. Y[p] = c[p] /\ X[p + k] = b[p + k]
      BY <1>8, <1>9, <1>10, <2>1, <2>2
    <3>2. p \in 1..Len(c)
      BY <1>4, <1>7, <1>9, <2>1, <2>2
    <3>. QED
      BY <1>4, <2>1, <3>1, <3>2
  <2>3. CASE ~ (p <= lb - k) /\ p <= (lb - k) + ld
    <3>1. Y[p] = d[p - (lb - k)] /\ X[p + k] = d[(p + k) - lb]
      BY <1>8, <1>9, <1>10, <2>1, <2>3
    <3>2. p - (lb - k) = (p + k) - lb
      BY <1>8, <1>10, <2>1
    <3>. QED
      BY <2>1, <3>1, <3>2
  <2>4. CASE ~ (p <= lb - k) /\ ~ p <= (lb - k) + ld
    <3>1. Y[p] = w[p - (lb - k) - ld] /\ X[p + k] = w[(p + k) - lb - ld]
      BY SMTT(30), <1>8, <1>9, <1>10, <2>1, <2>4
    <3>2. p - (lb - k) - ld = (p + k) - lb - ld
      BY <1>8, <1>10, <2>1
    <3>. QED
      BY <2>1, <3>1, <3>2
  <2>. QED
    BY <2>2, <2>3, <2>4
<1>12. k \in Nat
  BY <1>8, <1>10
<1>. QED
  BY <1>4, <1>5, <1>11, <1>12 DEF Taken

(* A step that only moves tokens takes none.                               *)
LEMMA NothingTaken == ASSUME StreamTyped, Coming' = Coming PROVE Taken(0)
<1>1. \A p \in DOMAIN Coming : p \in Nat
  BY ComingIs DEF Coming, StreamTyped
<1>2. \A p \in DOMAIN Coming : p + 0 = p
  BY <1>1
<1>. QED
  BY <1>2 DEF Taken

Flows ==
    /\ m_requestBuffer' \in Seq(Token) /\ device' \in Seq(Token) /\ wire' \in Seq(Token)
    /\ \E k : Taken(k)

(* Leaving buffer and network alone takes nothing.                         *)
LEMMA StillFlows ==
    ASSUME StreamTyped, UNCHANGED <<m_requestBuffer, device, wire>>
    PROVE  Flows
<1>1. Coming' = Coming
  BY DEF Coming
<1>. QED
  BY <1>1, NothingTaken DEF Flows, StreamTyped

(* Removing the front of the buffer takes from the front.                  *)
LEMMA FrontFlows ==
    ASSUME StreamTyped, UNCHANGED <<device, wire>>, NEW k \in 0..Len(m_requestBuffer),
           m_requestBuffer' = SubSeq(m_requestBuffer, k + 1, Len(m_requestBuffer))
    PROVE  Flows
BY FrontTaken DEF Flows, StreamTyped

(* Clearing the buffer takes from the front.                               *)
LEMMA EmptiedFlows ==
    ASSUME StreamTyped, UNCHANGED <<device, wire>>, m_requestBuffer' = <<>>
    PROVE  Flows
<1>1. PICK k : k = Len(m_requestBuffer)
  OBVIOUS
<1>2. k \in Nat
  BY <1>1 DEF StreamTyped
<1>3. k \in 0..Len(m_requestBuffer) /\ SubSeq(m_requestBuffer, k + 1, Len(m_requestBuffer)) = <<>>
  BY <1>1, <1>2, SubSeqEmpty
<1>. QED
  BY <1>3, FrontFlows

(* What arrives moves from network to device.                              *)
LEMMA ArrivalFlows ==
    ASSUME StreamTyped, NEW n \in 1..Len(wire), readyRead(n)
    PROVE  Flows /\ Coming' = Coming /\ Len(device') + Len(wire') = Len(device) + Len(wire)
<1>1. PICK b, d, w : b = m_requestBuffer /\ d = device /\ w = wire
  OBVIOUS
<1>2. b \in Seq(Token) /\ d \in Seq(Token) /\ w \in Seq(Token) /\ n \in 1..Len(w)
  BY <1>1 DEF StreamTyped
<1>3. PICK f, l : f = SubSeq(w, 1, n) /\ l = SubSeq(w, n + 1, Len(w))
  OBVIOUS
<1>4. f \in Seq(Token) /\ l \in Seq(Token)
  BY <1>2, <1>3
<1>5. f \o l = w
  <2>1. 1 \in 1..(Len(w) + 1) /\ n \in (1 - 1)..Len(w) /\ Len(w) \in n..Len(w) /\ SubSeq(w, 1, Len(w)) = w
    BY <1>2
  <2>2. SubSeq(w, 1, n) \o SubSeq(w, n + 1, Len(w)) = SubSeq(w, 1, Len(w))
    BY <1>2, <2>1, ConcatAdjacentSubSeq
  <2>. QED
    BY <1>3, <2>1, <2>2
<1>6. m_requestBuffer' = b /\ device' = d \o f /\ wire' = l
  BY <1>1, <1>3 DEF readyRead, assembly
<1>7. Coming' = Coming
  <2>1. PICK u : u = b \o d
    OBVIOUS
  <2>2. u \in Seq(Token)
    BY <1>2, <2>1
  <2>3. b \o (d \o f) = u \o f
    <3>1. (b \o d) \o f = b \o (d \o f)
      <4>1. b \in Seq(Token) /\ d \in Seq(Token) /\ f \in Seq(Token)
        BY <1>2, <1>4
      <4>. QED
        BY ONLY SMTT(30), <4>1, ConcatAssociative
    <3>. QED
      BY <2>1, <3>1
  <2>4. (u \o f) \o l = u \o (f \o l)
    BY <1>4, <2>2
  <2>. QED
    BY <1>1, <1>5, <1>6, <2>1, <2>3, <2>4 DEF Coming
<1>8. Flows
  BY <1>2, <1>4, <1>6, <1>7, NothingTaken, ConcatProperties DEF Flows
<1>9. Len(d \o f) + Len(l) = Len(d) + Len(w)
  <2>1. PICK x : x = d \o f
    OBVIOUS
  <2>2. d \in Seq(Token) /\ f \in Seq(Token) /\ l \in Seq(Token) /\ x = d \o f /\ w = f \o l
    BY <1>2, <1>4, <1>5, <2>1
  <2>3. Len(x) = Len(d) + Len(f) /\ Len(d) \in Nat /\ Len(f) \in Nat
    BY ONLY <2>2, ConcatIs
  <2>4. Len(w) = Len(f) + Len(l) /\ Len(l) \in Nat
    BY ONLY <2>2, ConcatIs
  <2>. QED
    BY <2>1, <2>3, <2>4
<1>. QED
  BY <1>1, <1>6, <1>7, <1>8, <1>9

(* readAll() moves it from device to buffer.                               *)
LEMMA ReadFlows == ASSUME StreamTyped, readAll PROVE Flows /\ Coming' = Coming
<1>1. PICK b, d, w : b = m_requestBuffer /\ d = device /\ w = wire
  OBVIOUS
<1>2. b \in Seq(Token) /\ d \in Seq(Token) /\ w \in Seq(Token)
  BY <1>1 DEF StreamTyped
<1>3. m_requestBuffer' = b \o d /\ device' = <<>> /\ wire' = w
  BY <1>1 DEF readAll
<1>4. Coming' = Coming
  <2>1. (b \o d) \o <<>> = b \o d
    BY <1>2
  <2>. QED
    BY <1>1, <1>3, <2>1 DEF Coming
<1>5. <<>> \in Seq(Token)
  OBVIOUS
<1>. QED
  BY <1>2, <1>3, <1>4, <1>5, NothingTaken, ConcatProperties DEF Flows

(* Parsing takes what is before the first empty line.                      *)
LEMMA ParsedIs ==
    ASSUME StreamTyped, parseHeaders
    PROVE  \E sep \in 2..(Len(m_requestBuffer) - 1) :
               /\ m_requestBuffer' = SubSeq(m_requestBuffer, sep + 2, Len(m_requestBuffer))
               /\ m_bytesReceived' = Len(m_requestBuffer) - (sep + 1)
               /\ sep = blankLine(m_requestBuffer)
               /\ m_httpHeaders' = IF sep = 2 /\ m_requestBuffer[1].k = "headers" THEN m_requestBuffer[1].of ELSE 0
<1>1. PICK b : b = m_requestBuffer
  OBVIOUS
<1>2. PICK sep : sep = blankLine(b)
  OBVIOUS
<1>3. b \in Seq(Token) /\ sep > 1
  BY <1>1, <1>2 DEF StreamTyped, parseHeaders
<1>4. sep \in 2..(Len(b) - 1)
  BY <1>2, <1>3, BlankIs
<1>5. PICK block : block = SubSeq(b, 1, sep - 1)
  OBVIOUS
<1>6. Len(block) = sep - 1 /\ (sep = 2 => block[1] = b[1])
  BY <1>3, <1>4, <1>5
<1>7. /\ m_httpHeaders' = IF Len(block) = 1 /\ block[1].k = "headers" THEN block[1].of ELSE 0
      /\ m_requestBuffer' = SubSeq(b, sep + 2, Len(b))
      /\ m_bytesReceived' = Len(b) - (sep + 1)
  BY <1>1, <1>2, <1>5 DEF parseHeaders, bytesAfterHeaders
<1>8. Len(block) = 1 <=> sep = 2
  BY <1>4, <1>6
<1>. QED
  BY <1>1, <1>2, <1>4, <1>6, <1>7, <1>8

(* The headers that are parsed are the first token coming.                 *)
LEMMA ParseFlows ==
    ASSUME StreamTyped, parseHeaders
    PROVE  /\ m_requestBuffer' \in Seq(Token)
           /\ \E k \in Nat \ {0} : Taken(k)
           /\ m_httpHeaders' # 0 =>
                1 \in DOMAIN Coming /\ Coming[1].k = "headers" /\ m_httpHeaders' = Coming[1].of
<1>1. PICK sep \in 2..(Len(m_requestBuffer) - 1) :
               /\ m_requestBuffer' = SubSeq(m_requestBuffer, sep + 2, Len(m_requestBuffer))
               /\ m_httpHeaders' = IF sep = 2 /\ m_requestBuffer[1].k = "headers" THEN m_requestBuffer[1].of ELSE 0
  BY ParsedIs
<1>2. PICK k : k = sep + 1
  OBVIOUS
<1>3. k \in 0..Len(m_requestBuffer) /\ k \in Nat \ {0} /\ sep + 2 = k + 1
  BY SMTT(30), <1>1, <1>2 DEF StreamTyped
<1>4. UNCHANGED <<device, wire>>
  BY DEF parseHeaders
<1>5. m_requestBuffer' \in Seq(Token) /\ Taken(k)
  BY <1>1, <1>3, <1>4, FrontTaken
<1>6. 1 \in DOMAIN Coming /\ Coming[1] = m_requestBuffer[1]
  <2>1. 1 \in 1..Len(m_requestBuffer)
    BY <1>1 DEF StreamTyped
  <2>. QED
    BY <2>1, ComingIs DEF StreamTyped, Coming
<1>. QED
  BY <1>1, <1>3, <1>5, <1>6

(* The last size takes from the front.                                     *)
LEMMA LastChunkFlows == ASSUME StreamTyped, lastChunk PROVE Flows
<1>1. PICK k : k = nextEOL - 1
  OBVIOUS
<1>2. nextEOL \in 1..Len(m_requestBuffer)
  <2>1. m_chunkStart + 1 \in Nat \ {0} /\ nextEOL # 0
    BY DEF lastChunk, atChunk, StreamTyped
  <2>. QED
    BY <2>1, EolIs DEF StreamTyped, nextEOL
<1>3. k \in 0..Len(m_requestBuffer) /\ nextEOL = k + 1
  BY <1>1, <1>2 DEF StreamTyped
<1>4. UNCHANGED <<device, wire>> /\ m_requestBuffer' = SubSeq(m_requestBuffer, nextEOL, Len(m_requestBuffer))
  BY DEF lastChunk
<1>. QED
  BY <1>3, <1>4, FrontFlows

(* A plain body takes from the front.                                      *)
LEMMA PlainFlows == ASSUME StreamTyped, receivePlain PROVE Flows
<1>1. UNCHANGED <<device, wire>> /\ (m_requestBuffer' = m_requestBuffer \/ m_requestBuffer' = <<>>)
  BY DEF receivePlain
<1>. QED
  BY <1>1, StillFlows, EmptiedFlows

(* The end of a request takes from the front.                              *)
LEMMA OverFlows == ASSUME StreamTyped, Over PROVE Flows
<1>1. requestDone
  BY DEF Over, endRequest, refuse, handleFileDownload, dropTruncated, rejectFault, makeCall, makeDelayedCall, atCall
<1>2. UNCHANGED <<device, wire>> /\ m_requestBuffer' = <<>>
  BY <1>1 DEF requestDone
<1>. QED
  BY <1>2, EmptiedFlows

(* What a step does, as far as the order of replies is concerned.          *)
LEMMA StepFlows ==
    ASSUME StreamTyped, Next, ~ send
    PROVE  /\ script' = script /\ sent' = sent
           /\ m_requestBuffer' \in Seq(Token) /\ device' \in Seq(Token) /\ wire' \in Seq(Token)
           /\ \E k : Taken(k)
<1>1. script' = script /\ sent' = sent
  BY DEF Next, receive, readyRead, slotReadyRead, readAll, headersIncomplete, parseHeaders, receivePlain,
     chunkIncomplete, takeChunk, lastChunk, endOfTrailers, badChunkSize, endRequest, refuse, handleFileDownload,
     dropTruncated, rejectFault, makeCall, makeDelayedCall, atCall, requestDone, sendDelayedReply, finished, vars,
     client
<1>2. CASE receive
  BY <1>1, <1>2, ArrivalFlows DEF receive, Flows
<1>3. CASE readAll
  BY <1>1, <1>3, ReadFlows DEF Flows
<1>4. CASE parseHeaders
  BY <1>1, <1>4, ParseFlows DEF parseHeaders, StreamTyped
<1>5. CASE receivePlain
  BY <1>1, <1>5, PlainFlows DEF Flows
<1>6. CASE lastChunk
  BY <1>1, <1>6, LastChunkFlows DEF Flows
<1>7. CASE Over
  BY <1>1, <1>7, OverFlows DEF Flows
<1>8. CASE UNCHANGED <<m_requestBuffer, device, wire>>
  BY <1>1, <1>8, StillFlows DEF Flows
<1>. QED
  BY <1>2, <1>3, <1>4, <1>5, <1>6, <1>7, <1>8, SlotKinds
  DEF Next, Assembling, headersIncomplete, chunkIncomplete, takeChunk, endOfTrailers, badChunkSize, sendDelayedReply,
      finished, vars, assembly

(* A request is handed over, with a reply r or with none yet.              *)
HandedOver == pc = "request" /\ pc' = "eventLoop" /\ m_httpHeaders' = 0 /\ \E data : hand(data)

(* A request that is over is answered once, dropped or owed.               *)
LEMMA OverReplies ==
    Over => /\ HandedOver /\ m_chunkStart' \in {0, m_chunkStart}
            /\ \/ m_delayedResponse' = m_delayedResponse /\ \E r : write(r) /\ r.to = m_httpHeaders
               \/ m_delayedResponse' = m_delayedResponse /\ replies' = replies
               \/ m_delayedResponse' /\ replies' = replies /\ m_httpHeaders # 0
<1>. SUFFICES ASSUME Over
     PROVE  /\ HandedOver /\ m_chunkStart' \in {0, m_chunkStart}
            /\ \/ m_delayedResponse' = m_delayedResponse /\ \E r : write(r) /\ r.to = m_httpHeaders
               \/ m_delayedResponse' = m_delayedResponse /\ replies' = replies
               \/ m_delayedResponse' /\ replies' = replies /\ m_httpHeaders # 0
  OBVIOUS
<1>1. HandedOver /\ m_chunkStart' \in {0, m_chunkStart}
  BY OverKeeps DEF Over, endRequest, refuse, handleFileDownload, dropTruncated, rejectFault, makeCall, makeDelayedCall,
     atCall, requestDone, HandedOver
<1>2. \A status : Plain(m_httpHeaders, status).to = m_httpHeaders
  BY DEF Plain
<1>3. CASE endRequest \/ refuse \/ handleFileDownload
  BY <1>1, <1>2, <1>3 DEF endRequest, refuse, handleFileDownload
<1>4. CASE dropTruncated
  BY <1>1, <1>4 DEF dropTruncated
<1>5. CASE rejectFault
  <2>1. [Plain(m_httpHeaders, "500") EXCEPT !.headers = objects["main"].responseHeaders].to = m_httpHeaders
    BY DEF Plain
  <2>. QED
    BY <1>1, <1>5, <2>1 DEF rejectFault
<1>6. CASE makeCall
  <2>1. Answer(m_httpHeaders, objects'["main"]).to = m_httpHeaders
    BY DEF Answer
  <2>. QED
    BY <1>1, <1>6, <2>1 DEF makeCall
<1>7. CASE makeDelayedCall
  <2>1. refusals(0) # {}
    BY DEF refusals
  <2>. QED
    BY <1>1, <1>7, <2>1 DEF makeDelayedCall, atCall
<1>. QED
  BY <1>3, <1>4, <1>5, <1>6, <1>7 DEF Over

(* The steps that write, hand over or parse.                               *)
LEMMA StepKinds ==
    ASSUME Next, ~ send
    PROVE  \/ Over \/ badChunkSize \/ sendDelayedReply \/ parseHeaders
           \/ UNCHANGED <<replies, handled, m_delayedResponse, m_httpHeaders>>
BY SlotKinds
DEF Next, receive, readyRead, Assembling, readAll, headersIncomplete, receivePlain, chunkIncomplete, takeChunk,
    lastChunk, endOfTrailers, finished, vars, assembly, service

(* A bad size is answered 400 and the socket stays stuck.                  *)
LEMMA BadChunkIs ==
    badChunkSize =>
        /\ write(Plain(m_httpHeaders, "400")) /\ m_httpHeaders # 0 /\ Stuck' /\ pc = "body"
        /\ UNCHANGED <<handled, m_delayedResponse, m_httpHeaders>>
BY DEF badChunkSize, atChunk, isChunked, Stuck, assembly, nextEOL, isSize, sizeLine, client

(* A chunk size that is none stays where it is, whatever arrives.          *)
LEMMA StuckStays ==
    ASSUME StreamTyped, Stuck, Next, ~ badChunkSize
    PROVE  Stuck'
<1>1. CASE readAll
  <2>1. PICK b, d : b = m_requestBuffer /\ d = device
    OBVIOUS
  <2>2. PICK c : c = b \o d
    OBVIOUS
  <2>3. PICK from : from = m_chunkStart + 1
    OBVIOUS
  <2>4. b \in Seq(Token) /\ d \in Seq(Token) /\ from \in Nat \ {0}
    BY <2>1, <2>3 DEF StreamTyped, Stuck
  <2>5. c \in Seq(Token) /\ \A p \in 1..Len(b) : c[p] = b[p] /\ p \in 1..Len(c)
    BY <2>2, <2>4
  <2>6. PICK e : e = eolFrom(b, from)
    OBVIOUS
  <2>7. e \in from..Len(b) /\ b[e] = Eol /\ \A p \in from..(e - 1) : b[p] # Eol
    BY <2>1, <2>3, <2>4, <2>6, EolIs DEF Stuck, nextEOL
  <2>8. eolFrom(c, from) = e
    <3>1. PICK g : g = eolFrom(c, from)
      OBVIOUS
    <3>2. \/ g = 0 /\ \A p \in from..Len(c) : c[p] # Eol
          \/ g \in from..Len(c) /\ c[g] = Eol /\ \A p \in from..(g - 1) : c[p] # Eol
      BY <2>4, <2>5, <3>1, EolIs
    <3>3. e \in 1..Len(b) /\ e \in from..Len(c) /\ c[e] = Eol
      BY <2>4, <2>5, <2>7
    <3>4. g \in from..Len(c) /\ c[g] = Eol /\ ~ e < g
      BY <3>2, <3>3, <2>4, <2>5
    <3>5. ~ g < e
      <4>. SUFFICES ASSUME g < e PROVE FALSE
        OBVIOUS
      <4>1. g \in from..(e - 1) /\ g \in 1..Len(b)
        BY <2>4, <2>7, <3>4
      <4>. QED
        BY <2>5, <2>7, <3>4, <4>1
    <3>. QED
      BY <2>4, <2>5, <2>7, <3>1, <3>4, <3>5
  <2>9. SubSeq(c, from, e - 1) = SubSeq(b, from, e - 1)
    BY <2>2, <2>4, <2>5, <2>7
  <2>10. nextEOL' = nextEOL /\ sizeLine' = sizeLine
    BY <1>1, <2>1, <2>2, <2>3, <2>6, <2>8, <2>9 DEF readAll, nextEOL, sizeLine
  <2>11. m_httpHeaders # 0 /\ UNCHANGED <<m_httpHeaders, m_chunkStart, script>>
    BY <1>1 DEF readAll, client, Stuck, isChunked
  <2>. QED
    BY <1>1, <2>10, <2>11 DEF Stuck, isSize, isChunked, readAll
<1>2. CASE UNCHANGED <<m_requestBuffer, m_httpHeaders, m_chunkStart, script>> /\ pc' \in {"eventLoop", "read", "body"}
  BY <1>2 DEF Stuck, isSize, isChunked, nextEOL, sizeLine
<1>3. ~ (headersIncomplete \/ parseHeaders \/ Over)
  BY OverKeeps DEF headersIncomplete, parseHeaders, Stuck
<1>4. ~ (receivePlain \/ chunkIncomplete \/ takeChunk \/ lastChunk \/ endOfTrailers)
  BY DEF receivePlain, chunkIncomplete, takeChunk, lastChunk, endOfTrailers, Stuck
<1>5. CASE receive
  BY <1>2, <1>5 DEF receive, readyRead, assembly, client, Stuck
<1>6. CASE send \/ sendDelayedReply \/ finished
  BY <1>2, <1>6 DEF send, sendDelayedReply, finished, vars, assembly, client, Stuck
<1>. QED
  BY <1>1, <1>3, <1>4, <1>5, <1>6, SlotKinds DEF Next, Assembling

(* A sequence with one more element.                                       *)
LEMMA OneMore ==
    ASSUME NEW s, IsSequence(s), NEW e, NEW t, t = Append(s, e)
    PROVE  /\ IsSequence(t) /\ DOMAIN t = 1..Len(t) /\ Len(t) \in Nat /\ t[Len(t)] = e
           /\ \A j \in DOMAIN t : j = Len(t) \/ (j \in DOMAIN s /\ j < Len(t) /\ t[j] = s[j])
<1>1. PICK S : s \in Seq(S)
  BY DEF IsSequence
<1>2. s \in Seq(S \cup {e}) /\ e \in S \cup {e}
  BY <1>1
<1>3. t \in Seq(S \cup {e})
  BY <1>2
<1>. QED
  BY <1>2, <1>3 DEF IsSequence

(* A new request is appended to what is coming.                            *)
LEMMA SendComing ==
    ASSUME StreamTyped, send
    PROVE  /\ sent + 1 \in 1..Len(script) /\ wire' \in Seq(Token)
           /\ \A p \in DOMAIN Coming' :
                /\ p \in Int
                /\ \/ p \in DOMAIN Coming /\ Coming'[p] = Coming[p]
                   \/ p = Len(Coming) + 1 /\ Coming'[p] = HeaderBlock(sent + 1)
                   \/ Coming'[p].k # "headers"
           /\ DOMAIN Coming = 1..Len(Coming) /\ Len(Coming) \in Nat
<1>1. PICK b, d, w : b = m_requestBuffer /\ d = device /\ w = wire
  OBVIOUS
<1>2. PICK i : i = sent + 1
  OBVIOUS
<1>3. i \in 1..Len(script)
  BY <1>2 DEF StreamTyped, send
<1>4. PICK s : s = Stream(i)
  OBVIOUS
<1>5. s \in Seq(Token) /\ s[1] = HeaderBlock(i) /\ \A q \in 2..Len(s) : s[q].k # "headers"
  <2>1. PICK r : r = Rest(i)
    OBVIOUS
  <2>2. /\ r \in Seq(Inner) /\ s \in Seq(Token) /\ Len(s) = Len(r) + 3
        /\ s[1] = HeaderBlock(i) /\ s[2] = Eol /\ s[3] = Eol
        /\ \A j \in 1..Len(r) : s[j + 3] = r[j]
    BY <1>3, <1>4, <2>1, StreamIs DEF StreamTyped
  <2>3. Eol.k # "headers"
    BY DEF Eol
  <2>4. ASSUME NEW q \in 4..Len(s) PROVE s[q].k # "headers"
    <3>1. PICK j : j = q - 3
      OBVIOUS
    <3>2. j \in 1..Len(r) /\ q = j + 3
      BY <2>2, <3>1
    <3>3. s[q] = r[j] /\ r[j] \in Inner
      BY <2>2, <3>2
    <3>. QED
      BY <3>3 DEF Inner
  <2>. QED
    BY <2>2, <2>3, <2>4
<1>6. m_requestBuffer' = b /\ device' = d /\ wire' = w \o s
  BY <1>1, <1>2, <1>4 DEF send, assembly
<1>7. b \in Seq(Token) /\ d \in Seq(Token) /\ w \in Seq(Token)
  BY <1>1 DEF StreamTyped
<1>8. PICK X : X = b \o d \o w
  OBVIOUS
<1>9. X \in Seq(Token)
  BY <1>7, <1>8
<1>10. Coming = X /\ Coming' = X \o s
  <2>1. PICK u : u = b \o d
    OBVIOUS
  <2>2. u \in Seq(Token)
    BY <1>7, <2>1
  <2>3. u \o (w \o s) = (u \o w) \o s
    BY <1>5, <1>7, <2>2
  <2>. QED
    BY <1>1, <1>6, <1>8, <2>1, <2>3 DEF Coming
<1>11. ASSUME NEW p \in DOMAIN (X \o s)
       PROVE  /\ p \in Int
              /\ \/ p \in DOMAIN X /\ (X \o s)[p] = X[p]
                 \/ p = Len(X) + 1 /\ (X \o s)[p] = HeaderBlock(i)
                 \/ (X \o s)[p].k # "headers"
  <2>1. CASE p <= Len(X)
    BY <1>5, <1>9, <2>1
  <2>2. CASE p = Len(X) + 1
    BY <1>5, <1>9, <2>2
  <2>3. CASE p > Len(X) + 1
    <3>1. PICK q : q = p - Len(X)
      OBVIOUS
    <3>2. q \in 2..Len(s) /\ (X \o s)[p] = s[q]
      BY <1>5, <1>9, <2>3, <3>1
    <3>. QED
      BY <1>5, <1>9, <3>2
  <2>. QED
    BY <1>5, <1>9, <2>1, <2>2, <2>3
<1>12. wire' \in Seq(Token)
  BY <1>5, <1>6, <1>7
<1>. QED
  BY <1>2, <1>3, <1>9, <1>10, <1>11, <1>12

(* A client that sends keeps OrderInv.                                     *)
LEMMA SendOrdered == OrderInv /\ send => OrderInv'
<1>. SUFFICES ASSUME OrderInv, send PROVE OrderInv'
  OBVIOUS
<1>0. StreamTyped /\ Ascending /\ RepliesBehind /\ Ahead /\ OwesOne
  BY DEF OrderInv
<1>1. PICK i : i = sent + 1
  OBVIOUS
<1>2. /\ sent \in Nat /\ i \in 1..Len(script) /\ sent' = i /\ wire' \in Seq(Token)
      /\ UNCHANGED <<script, device, pc, assembly, service>>
  BY <1>0, <1>1, SendComing DEF send, StreamTyped
<1>3. /\ DOMAIN Coming = 1..Len(Coming) /\ Len(Coming) \in Nat
      /\ \A p \in DOMAIN Coming' :
            /\ p \in Int
            /\ \/ p \in DOMAIN Coming /\ Coming'[p] = Coming[p]
               \/ p = Len(Coming) + 1 /\ Coming'[p].of = i
               \/ Coming'[p].k # "headers"
  <2>1. HeaderBlock(i).of = i
    BY DEF HeaderBlock
  <2>. QED
    BY <1>0, <1>1, <2>1, SendComing
<1>4. StreamTyped'
  BY <1>0, <1>1, <1>2 DEF StreamTyped, assembly
<1>5. \A j \in 1..sent : j \in 1..i /\ j < i /\ j \in Int
  BY <1>1, <1>2
<1>6. Ascending'
  <2>. SUFFICES ASSUME NEW p \in DOMAIN Coming', NEW q \in DOMAIN Coming', p < q,
                       Coming'[p].k = "headers", Coming'[q].k = "headers"
                PROVE  Coming'[p].of < Coming'[q].of
    BY DEF Ascending
  <2>1. p \in DOMAIN Coming
    BY <1>3
  <2>2. Coming'[p] = Coming[p]
    BY <1>3, <2>1
  <2>3. CASE q \in DOMAIN Coming
    BY <1>0, <1>3, <2>1, <2>2, <2>3 DEF Ascending
  <2>4. CASE q \notin DOMAIN Coming
    <3>1. Coming'[q].of = i
      BY <1>3, <2>4
    <3>2. Coming[p].of \in 1..sent
      BY <1>0, <2>1, <2>2 DEF Ahead, Later
    <3>. QED
      BY <1>5, <2>2, <3>1, <3>2
  <2>. QED
    BY <2>3, <2>4
<1>7. RepliesBehind'
  <2>1. Stuck' = Stuck
    BY <1>2 DEF Stuck, assembly, isChunked, nextEOL, isSize, sizeLine
  <2>2. \A j \in 0..sent : j \in 0..i
    BY <1>1, <1>2
  <2>. QED
    BY <1>0, <1>2, <2>1, <2>2 DEF RepliesBehind, assembly, service
<1>8. OwesOne'
  BY <1>0, <1>2, <1>5 DEF OwesOne, assembly, service
<1>9. Ahead'
  <2>. SUFFICES ASSUME NEW p \in DOMAIN Coming', Coming'[p].k = "headers", NEW x, x = Coming'[p].of PROVE Later(x)'
    BY DEF Ahead, Later
  <2>1. CASE p \in DOMAIN Coming
    <3>1. Coming'[p] = Coming[p]
      BY <1>3, <2>1
    <3>2. Later(x)
      BY <1>0, <2>1, <3>1 DEF Ahead
    <3>. QED
      BY <1>2, <1>5, <3>2 DEF Later, assembly, service
  <2>2. CASE p \notin DOMAIN Coming
    <3>1. x = i
      BY <1>3, <2>2
    <3>2. m_httpHeaders < i
      BY <1>0, <1>1, <1>2 DEF StreamTyped
    <3>3. \A j \in DOMAIN replies : replies[j].to < i
      BY <1>0, <1>1, <1>2 DEF RepliesBehind
    <3>4. m_delayedResponse => handled[Len(handled)].of < i
      BY <1>0, <1>5 DEF OwesOne
    <3>5. i \in 1..i
      BY <1>2
    <3>. QED
      BY <1>2, <3>1, <3>2, <3>3, <3>4, <3>5 DEF Later, assembly, service
  <2>. QED
    BY <2>1, <2>2
<1>. QED
  BY <1>2, <1>4, <1>6, <1>7, <1>8, <1>9 DEF OrderInv, HeadersOnce, OneReplyEach, assembly, service

(* Headers that are parsed are of a request behind all replies.            *)
LEMMA HeadersAfter ==
    ASSUME OrderInv, Next, ~ send
    PROVE  /\ m_httpHeaders' \in 0..sent
           /\ parseHeaders => \A j \in DOMAIN replies : m_httpHeaders' # 0 => replies[j].to < m_httpHeaders'
<1>1. CASE parseHeaders
  <2>1. CASE m_httpHeaders' = 0
    BY <2>1 DEF OrderInv, StreamTyped
  <2>2. CASE m_httpHeaders' # 0
    <3>1. 1 \in DOMAIN Coming /\ Coming[1].k = "headers" /\ m_httpHeaders' = Coming[1].of
      BY <1>1, <2>2, ParseFlows DEF OrderInv
    <3>2. Later(m_httpHeaders')
      BY <3>1 DEF OrderInv, Ahead
    <3>. QED
      BY <3>2 DEF Later
  <2>. QED
    BY <2>1, <2>2
<1>2. CASE ~ parseHeaders
  <2>1. m_httpHeaders' \in {0, m_httpHeaders}
    BY <1>2, StepKinds, OverReplies, BadChunkIs DEF HandedOver, sendDelayedReply, assembly
  <2>. QED
    BY <1>2, <2>1 DEF OrderInv, StreamTyped
<1>. QED
  BY <1>1, <1>2

(* The chunk index stays an integer.                                       *)
LEMMA ChunkStartAfter ==
    ASSUME StreamTyped, Next, ~ send
    PROVE  m_chunkStart' \in Int
<1>1. CASE takeChunk
  <2>1. PICK b, from, e : b = m_requestBuffer /\ from = m_chunkStart + 1 /\ e = nextEOL
    OBVIOUS
  <2>2. b \in Seq(Token) /\ from \in Nat \ {0} /\ e # 0
    BY <1>1, <2>1 DEF StreamTyped, takeChunk, atChunk
  <2>3. e \in from..Len(b)
    BY <2>1, <2>2, EolIs DEF nextEOL
  <2>4. SubSeq(b, from, e - 1) \in Seq(Token)
    BY <2>2, <2>3
  <2>5. sizeLine \in Seq(Token) /\ Len(sizeLine) = 1
    BY <1>1, <2>1, <2>4 DEF sizeLine, takeChunk, isSize
  <2>6. sizeLine[1].n \in Int
    <3>1. PICK l : l = sizeLine
      OBVIOUS
    <3>2. l[1] \in Token
      BY <2>5, <3>1
    <3>. QED
      BY <3>1, <3>2 DEF Token
  <2>7. m_chunkStart' = e + sizeLine[1].n + 1
    BY <1>1, <2>1 DEF takeChunk
  <2>. QED
    BY <2>2, <2>3, <2>6, <2>7
<1>2. CASE ~ takeChunk
  <2>1. m_chunkStart' \in {0, -1, m_chunkStart}
    BY <1>2, SlotKinds, OverReplies
    DEF Next, receive, readyRead, Assembling, readAll, headersIncomplete, parseHeaders, receivePlain, chunkIncomplete,
        lastChunk, endOfTrailers, badChunkSize, sendDelayedReply, finished, vars, assembly
  <2>. QED
    BY <2>1 DEF StreamTyped
<1>. QED
  BY <1>1, <1>2

(* Where a step leaves the order of the replies: none, or one to the       *)
(* request being received or to the one that was owed a response.          *)
LEMMA RepliesAfter ==
    ASSUME OrderInv, DelayedDisabled, Next, ~ send
    PROVE  /\ IsSequence(replies)' /\ IsSequence(handled)'
           /\ OneReplyEach'
           /\ RepliesBehind'
           /\ OwesOne'
<1>1. script' = script /\ sent' = sent /\ m_httpHeaders' \in 0..sent
  BY StepFlows, HeadersAfter DEF OrderInv
<1>2. ASSUME NEW r, write(r), r.to \in 0..sent,
             r.to = 0 \/ r.status = "400" \/ \A j \in DOMAIN replies : replies[j].to < r.to
      PROVE  /\ IsSequence(replies)' /\ OneReplyEach'
             /\ \A j \in DOMAIN replies' : replies'[j].to \in 0..sent
             /\ \A j \in DOMAIN replies' :
                    replies'[j] = r \/ (j \in DOMAIN replies /\ replies'[j] = replies[j])
  <2>1. PICK t : t = replies'
    OBVIOUS
  <2>2. /\ IsSequence(t) /\ DOMAIN t = 1..Len(t) /\ Len(t) \in Nat /\ t[Len(t)] = r
        /\ \A j \in DOMAIN t : j = Len(t) \/ (j \in DOMAIN replies /\ j < Len(t) /\ t[j] = replies[j])
    <3>1. PICK s : s = replies
      OBVIOUS
    <3>2. IsSequence(s) /\ t = Append(s, r)
      BY <1>2, <2>1, <3>1 DEF write, OrderInv
    <3>3. /\ DOMAIN t = 1..Len(t) /\ Len(t) \in Nat /\ t[Len(t)] = r
          /\ \A j \in DOMAIN t : j = Len(t) \/ (j \in DOMAIN s /\ j < Len(t) /\ t[j] = s[j])
      BY <3>2, OneMore
    <3>4. IsSequence(t)
      BY <3>2, AppendIs
    <3>. QED
      BY <3>1, <3>3, <3>4
  <2>3. \A j \in DOMAIN replies : replies[j].to \in 0..sent
    BY DEF OrderInv, RepliesBehind
  <2>4. ASSUME NEW j \in 1..Len(t), NEW k \in 1..(j - 1)
        PROVE  t[k].to < t[j].to \/ t[j].to = 0 \/ t[j].status = "400"
    <3>1. k \in DOMAIN t /\ k # Len(t) /\ j \in DOMAIN t
      BY <2>2
    <3>2. k \in DOMAIN replies /\ t[k] = replies[k]
      BY <2>2, <3>1
    <3>3. CASE j = Len(t)
      BY <1>2, <2>2, <3>2, <3>3
    <3>4. CASE j # Len(t)
      <4>1. j \in DOMAIN replies /\ t[j] = replies[j]
        BY <2>2, <3>1, <3>4
      <4>2. j \in 1..Len(replies)
        BY <4>1 DEF OrderInv, IsSequence
      <4>. QED
        BY <3>2, <4>1, <4>2 DEF OrderInv, OneReplyEach
    <3>. QED
      BY <3>3, <3>4
  <2>5. OneReplyEach'
    BY <2>1, <2>4 DEF OneReplyEach
  <2>6. \A j \in DOMAIN t : t[j] = r \/ (j \in DOMAIN replies /\ t[j] = replies[j])
    BY <2>2
  <2>. QED
    BY <1>2, <2>1, <2>2, <2>3, <2>5, <2>6
<1>3. CASE Over
  <2>1. /\ pc = "request" /\ ~ m_delayedResponse /\ m_httpHeaders' = 0 /\ ~ Stuck
    BY <1>3, OverReplies DEF HandedOver, DelayedDisabled, Stuck
  <2>2. m_httpHeaders \in 0..sent
    BY DEF OrderInv, StreamTyped
  <2>3. m_httpHeaders # 0 => \A j \in DOMAIN replies : replies[j].to < m_httpHeaders
    BY <2>1 DEF OrderInv, RepliesBehind
  <2>4. PICK data : hand(data)
    BY <1>3, OverReplies DEF HandedOver
  <2>5. IsSequence(handled)' /\ handled'[Len(handled')].of = m_httpHeaders
    <3>1. PICK e, s, t : e = [of |-> m_httpHeaders, data |-> data] /\ s = handled /\ t = handled'
      OBVIOUS
    <3>2. IsSequence(s) /\ t = Append(s, e) /\ e.of = m_httpHeaders
      BY <2>4, <3>1 DEF hand, OrderInv
    <3>3. t[Len(t)] = e
      BY <3>2, OneMore
    <3>4. IsSequence(t)
      BY <3>2, AppendIs
    <3>. QED
      BY <3>1, <3>2, <3>3, <3>4 DEF IsSequence
  <2>6. ASSUME NEW r, write(r), r.to = m_httpHeaders, ~ m_delayedResponse'
        PROVE  IsSequence(replies)' /\ OneReplyEach' /\ RepliesBehind' /\ OwesOne'
    <3>1. /\ IsSequence(replies)' /\ OneReplyEach'
          /\ \A j \in DOMAIN replies' : replies'[j].to \in 0..sent
      BY <1>2, <2>2, <2>3, <2>6
    <3>. QED
      BY <1>1, <2>1, <2>6, <3>1 DEF RepliesBehind, OwesOne
  <2>7. ASSUME replies' = replies
        PROVE  IsSequence(replies)' /\ OneReplyEach' /\ RepliesBehind'
    BY <1>1, <2>1, <2>7 DEF RepliesBehind, OneReplyEach, OrderInv
  <2>8. CASE \E r : write(r) /\ r.to = m_httpHeaders /\ ~ m_delayedResponse'
    BY <2>5, <2>6, <2>8
  <2>9. CASE replies' = replies /\ ~ m_delayedResponse'
    BY <2>5, <2>7, <2>9 DEF OwesOne
  <2>10. CASE replies' = replies /\ m_httpHeaders # 0
    <3>1. OwesOne'
      <4>1. m_httpHeaders \in 1..sent
        BY <2>2, <2>10
      <4>. QED
        BY <1>1, <2>1, <2>3, <2>5, <2>10, <4>1 DEF OwesOne
    <3>. QED
      BY <2>5, <2>7, <2>10, <3>1
  <2>11. \/ m_delayedResponse' = m_delayedResponse /\ \E r : write(r) /\ r.to = m_httpHeaders
         \/ m_delayedResponse' = m_delayedResponse /\ replies' = replies
         \/ m_delayedResponse' /\ replies' = replies /\ m_httpHeaders # 0
    BY <1>3, OverReplies
  <2>. QED
    BY <2>1, <2>8, <2>9, <2>10, <2>11
<1>4. CASE badChunkSize
  <2>1. PICK r : r = Plain(m_httpHeaders, "400")
    OBVIOUS
  <2>2. r.to = m_httpHeaders /\ r.status = "400"
    BY <2>1 DEF Plain
  <2>3. /\ write(r) /\ m_httpHeaders # 0 /\ Stuck' /\ pc = "body"
        /\ UNCHANGED <<handled, m_delayedResponse, m_httpHeaders>>
    BY <1>4, <2>1, BadChunkIs
  <2>4. m_httpHeaders \in 0..sent
    BY DEF OrderInv, StreamTyped
  <2>5. /\ IsSequence(replies)' /\ OneReplyEach'
        /\ \A j \in DOMAIN replies' : replies'[j].to \in 0..sent
        /\ \A j \in DOMAIN replies' :
               replies'[j] = r \/ (j \in DOMAIN replies /\ replies'[j] = replies[j])
    BY <1>2, <2>2, <2>3, <2>4
  <2>6. \A j \in DOMAIN replies : replies[j].to < m_httpHeaders \/ replies[j].to = m_httpHeaders
    BY <2>3 DEF OrderInv, RepliesBehind
  <2>7. RepliesBehind'
    BY <1>1, <2>2, <2>3, <2>5, <2>6 DEF RepliesBehind
  <2>8. ~ m_delayedResponse'
    BY <2>3 DEF DelayedDisabled
  <2>. QED
    BY <2>3, <2>5, <2>7, <2>8 DEF OwesOne, OrderInv
<1>5. CASE sendDelayedReply
  <2>1. PICK i : i = handled[Len(handled)].of
    OBVIOUS
  <2>2. PICK r : r = [Answer(i, objects["main"]) EXCEPT !.fault = 0, !.detail = 0]
    OBVIOUS
  <2>3. r.to = i
    BY <2>2 DEF Answer
  <2>4. /\ write(r) /\ m_delayedResponse /\ ~ m_delayedResponse' /\ UNCHANGED <<handled, m_httpHeaders>>
    BY <1>5, <2>1, <2>2 DEF sendDelayedReply, assembly
  <2>5. m_httpHeaders = 0 /\ i \in 1..sent /\ \A j \in DOMAIN replies : replies[j].to < i
    BY <2>1, <2>4 DEF OrderInv, OwesOne
  <2>6. i \in 0..sent
    BY <2>5 DEF OrderInv, StreamTyped
  <2>7. /\ IsSequence(replies)' /\ OneReplyEach'
        /\ \A j \in DOMAIN replies' : replies'[j].to \in 0..sent
    BY <1>2, <2>3, <2>4, <2>5, <2>6
  <2>. QED
    BY <1>1, <2>4, <2>5, <2>7 DEF RepliesBehind, OwesOne, OrderInv
<1>6. CASE parseHeaders
  <2>1. UNCHANGED <<replies, handled, m_delayedResponse>> /\ ~ m_delayedResponse
    BY <1>6 DEF parseHeaders, service, DelayedDisabled
  <2>2. \A j \in DOMAIN replies : m_httpHeaders' # 0 => replies[j].to < m_httpHeaders'
    BY <1>6, HeadersAfter
  <2>. QED
    BY <1>1, <2>1, <2>2 DEF RepliesBehind, OwesOne, OrderInv, OneReplyEach
<1>7. CASE UNCHANGED <<replies, handled, m_delayedResponse, m_httpHeaders>> /\ ~ badChunkSize
  <2>1. Stuck => Stuck'
    BY <1>7, StuckStays DEF OrderInv
  <2>. QED
    BY <1>1, <1>7, <2>1 DEF RepliesBehind, OwesOne, OrderInv, OneReplyEach
<1>. QED
  BY <1>3, <1>4, <1>5, <1>6, <1>7, StepKinds

(* What is still to come stays behind what was received.                   *)
LEMMA AheadAfter ==
    ASSUME OrderInv, DelayedDisabled, Next, ~ send
    PROVE  Ahead'
<1>1. script' = script /\ sent' = sent
  BY StepFlows DEF OrderInv
<1>2. DOMAIN Coming' \subseteq Nat
  <2>1. m_requestBuffer' \in Seq(Token) /\ device' \in Seq(Token) /\ wire' \in Seq(Token)
    BY StepFlows DEF OrderInv
  <2>2. PICK b, d, w : b = m_requestBuffer' /\ d = device' /\ w = wire'
    OBVIOUS
  <2>3. b \in Seq(Token) /\ d \in Seq(Token) /\ w \in Seq(Token)
    BY <2>1, <2>2
  <2>4. DOMAIN (b \o d \o w) \subseteq Nat
    BY <2>3, ComingIs
  <2>. QED
    BY <2>2, <2>4 DEF Coming
<1>3. PICK k : Taken(k) /\ (parseHeaders => k # 0)
  BY StepFlows, ParseFlows DEF OrderInv
<1>. SUFFICES ASSUME NEW p \in DOMAIN Coming', Coming'[p].k = "headers", NEW x, x = Coming'[p].of PROVE Later(x)'
  BY DEF Ahead, Later
<1>4. /\ k \in Nat /\ p \in Nat
      /\ p + k \in DOMAIN Coming /\ Coming'[p] = Coming[p + k]
  BY <1>2, <1>3 DEF Taken
<1>5. Later(x)
  BY <1>4 DEF OrderInv, Ahead
<1>6. ASSUME NEW r, write(r), r.to < x PROVE \A j \in DOMAIN replies' : replies'[j].to < x
  <2>1. PICK t : t = replies'
    OBVIOUS
  <2>2. /\ t[Len(t)] = r
        /\ \A j \in DOMAIN t : j = Len(t) \/ (j \in DOMAIN replies /\ j < Len(t) /\ t[j] = replies[j])
    BY <1>6, <2>1, OneMore DEF write, OrderInv
  <2>. QED
    BY <1>5, <1>6, <2>1, <2>2 DEF Later
<1>7. x \in 1..sent /\ x \in Nat /\ m_httpHeaders \in Nat
  BY <1>5 DEF Later, OrderInv, StreamTyped
<1>8. CASE Over
  <2>1. pc = "request" /\ ~ m_delayedResponse /\ m_httpHeaders' = 0 /\ m_httpHeaders < x
    BY <1>5, <1>8, OverReplies DEF HandedOver, DelayedDisabled, Later
  <2>2. PICK data : hand(data)
    BY <1>8, OverReplies DEF HandedOver
  <2>3. handled'[Len(handled')].of = m_httpHeaders
    <3>1. PICK e : e = [of |-> m_httpHeaders, data |-> data]
      OBVIOUS
    <3>2. IsSequence(handled) /\ handled' = Append(handled, e) /\ e.of = m_httpHeaders
      BY <2>2, <3>1 DEF hand, OrderInv
    <3>. QED
      BY <3>2, OneMore
  <2>4. \A j \in DOMAIN replies' : replies'[j].to < x
    <3>1. CASE replies' = replies
      BY <1>5, <3>1 DEF Later
    <3>2. CASE \E r : write(r) /\ r.to = m_httpHeaders
      BY <1>6, <2>1, <3>2
    <3>. QED
      BY <1>8, <3>1, <3>2, OverReplies
  <2>. QED
    BY <1>1, <1>7, <2>1, <2>3, <2>4 DEF Later
<1>9. CASE badChunkSize
  <2>1. PICK r : r = Plain(m_httpHeaders, "400")
    OBVIOUS
  <2>2. write(r) /\ r.to = m_httpHeaders /\ UNCHANGED <<handled, m_delayedResponse, m_httpHeaders>>
    BY <1>9, <2>1, BadChunkIs DEF Plain
  <2>3. \A j \in DOMAIN replies' : replies'[j].to < x
    BY <1>5, <1>6, <2>2 DEF Later
  <2>. QED
    BY <1>1, <1>5, <2>2, <2>3 DEF Later
<1>10. CASE sendDelayedReply
  <2>1. PICK i : i = handled[Len(handled)].of
    OBVIOUS
  <2>2. PICK r : r = [Answer(i, objects["main"]) EXCEPT !.fault = 0, !.detail = 0]
    OBVIOUS
  <2>3. r.to = i
    BY <2>2 DEF Answer
  <2>4. /\ write(r) /\ m_delayedResponse /\ ~ m_delayedResponse' /\ UNCHANGED <<handled, m_httpHeaders>>
    BY <1>10, <2>1, <2>2 DEF sendDelayedReply, assembly
  <2>5. \A j \in DOMAIN replies' : replies'[j].to < x
    BY <1>5, <1>6, <2>1, <2>3, <2>4 DEF Later
  <2>. QED
    BY <1>1, <1>5, <2>4, <2>5 DEF Later
<1>11. CASE parseHeaders
  <2>1. UNCHANGED <<replies, handled, m_delayedResponse>>
    BY <1>11 DEF parseHeaders, service
  <2>2. m_httpHeaders' < x
    <3>1. CASE m_httpHeaders' = 0
      BY <1>7, <3>1
    <3>2. CASE m_httpHeaders' # 0
      <4>1. 1 \in DOMAIN Coming /\ Coming[1].k = "headers" /\ m_httpHeaders' = Coming[1].of
        BY <1>11, <3>2, ParseFlows DEF OrderInv
      <4>2. 0 \notin DOMAIN Coming'
        <5>1. PICK b, d, w : b = m_requestBuffer' /\ d = device' /\ w = wire'
          OBVIOUS
        <5>2. b \in Seq(Token) /\ d \in Seq(Token) /\ w \in Seq(Token)
          BY <5>1, StepFlows DEF OrderInv
        <5>3. 0 \notin DOMAIN (b \o d \o w)
          BY <5>2
        <5>. QED
          BY <5>1, <5>3 DEF Coming
      <4>3. 1 < p + k /\ Coming[p + k].k = "headers" /\ Coming[p + k].of = x
        BY <1>3, <1>4, <1>11, <4>2
      <4>. QED
        BY <1>4, <4>1, <4>3 DEF OrderInv, Ascending
    <3>. QED
      BY <3>1, <3>2
  <2>. QED
    BY <1>1, <1>5, <2>1, <2>2 DEF Later
<1>12. CASE UNCHANGED <<replies, handled, m_delayedResponse, m_httpHeaders>>
  BY <1>1, <1>5, <1>12 DEF Later
<1>. QED
  BY <1>8, <1>9, <1>10, <1>11, <1>12, StepKinds

(* Every step keeps OrderInv.                                              *)
LEMMA OrderStep == OrderInv /\ DelayedDisabled /\ [Next]_vars => OrderInv'
<1>. SUFFICES ASSUME OrderInv, DelayedDisabled, [Next]_vars PROVE OrderInv'
  OBVIOUS
<1>1. CASE UNCHANGED vars
  <2>1. UNCHANGED <<script, sent, m_requestBuffer, device, wire, m_httpHeaders, m_chunkStart, pc, replies, handled,
                    m_delayedResponse>>
    BY <1>1 DEF vars, client, assembly, service
  <2>2. Coming' = Coming
    BY <2>1 DEF Coming
  <2>3. Stuck' = Stuck
    BY <2>1 DEF Stuck, isChunked, nextEOL, isSize, sizeLine
  <2>4. StreamTyped' /\ Ascending' /\ RepliesBehind' /\ OwesOne' /\ HeadersOnce'
    BY <2>1, <2>2, <2>3 DEF OrderInv, StreamTyped, Ascending, RepliesBehind, OwesOne, HeadersOnce
  <2>5. Ahead'
    BY <2>1, <2>2 DEF OrderInv, Ahead, Later
  <2>. QED
    BY <2>1, <2>4, <2>5 DEF OrderInv, OneReplyEach, IsSequence
<1>2. CASE send
  BY <1>2, SendOrdered
<1>3. CASE Next /\ ~ send
  <2>1. StreamTyped'
    BY <1>3, StepFlows, HeadersAfter, ChunkStartAfter DEF OrderInv, StreamTyped
  <2>2. Ascending'
    BY <1>3, <2>1, StepFlows, TakenAscending DEF OrderInv
  <2>3. HeadersOnce'
    <3>1. pc' = "headers" => (readAll /\ m_httpHeaders = 0) \/ UNCHANGED <<pc, m_httpHeaders>>
      BY <1>3, SlotKinds, OverKeeps
      DEF Next, receive, readyRead, Assembling, readAll, headersIncomplete, parseHeaders, receivePlain, chunkIncomplete,
          takeChunk, lastChunk, endOfTrailers, badChunkSize, sendDelayedReply, finished, vars, assembly, service
    <3>. QED
      BY <3>1 DEF HeadersOnce, OrderInv, readAll
  <2>4. IsSequence(replies)' /\ IsSequence(handled)' /\ OneReplyEach' /\ RepliesBehind' /\ OwesOne'
    BY <1>3, RepliesAfter
  <2>5. Ahead'
    BY <1>3, AheadAfter
  <2>. QED
    BY <2>1, <2>2, <2>3, <2>4, <2>5 DEF OrderInv, IsSequence
<1>. QED
  BY <1>1, <1>2, <1>3

(* It holds at first.                                                      *)
LEMMA OrderAtFirst == Init => OrderInv
<1>. SUFFICES ASSUME Init PROVE OrderInv
  OBVIOUS
<1>1. script \in Scripts /\ Len(script) \in Nat
  BY SocketAssumption DEF Init
<1>2. Coming = <<>>
  BY DEF Init, Coming
<1>3. StreamTyped /\ Ascending /\ Ahead
  BY <1>1, <1>2 DEF Init, StreamTyped, Ascending, Ahead
<1>4. replies = <<>> /\ handled = <<>> /\ <<>> \in Seq({})
  BY DEF Init
<1>. QED
  BY <1>3, <1>4 DEF Init, OrderInv, RepliesBehind, OwesOne, HeadersOnce, IsSequence, OneReplyEach

(* However the requests are cut into pieces, and whether or not the client *)
(* waits, replies come in the order of the requests and no request gets a  *)
(* second one, but for the repeated 400 of a malformed chunk size.         *)
THEOREM RepliesAreOrdered == Spec => []OneReplyEach
<1>1. OrderInv => OneReplyEach
  BY DEF OrderInv
<1>. QED
  BY <1>1, OrderAtFirst, OrderStep, DelayedInductive, PTL DEF Spec

---------------------------------------------------------------------------
(* What a client that waits for its replies can find the socket doing:     *)
(* nothing, or receiving the one request that has no reply yet -- its      *)
(* headers, its body as a whole or in chunks, what follows the chunks.     *)
(* Coming is then known to the last token.                                 *)
Trail(i) == (<<Eol>> \o (IF script[i].trailer THEN <<Trailer(i), Eol>> ELSE <<>>)) \o <<Eol>>

HandledSoFar == \A j \in 1..Len(handled) : handled[j] = [of |-> j, data |-> Body(j)]

(* Whether all documents are complete, so that none is dropped.            *)
Whole == \A i \in DOMAIN script : script[i].xml # "truncated"

Owed == IF m_delayedResponse THEN 1 ELSE 0
Balanced ==
    /\ Len(replies) + Owed <= Len(handled)
    /\ Whole => Len(replies) + Owed = Len(handled)

(* Request i, the last one sent, is being received.                        *)
Receiving(i) == i = sent /\ Len(handled) + 1 = i /\ ~ m_delayedResponse /\ Balanced

Idle ==
    /\ Len(handled) = sent /\ Balanced
    /\ m_requestBuffer = <<>> /\ device = <<>> /\ wire = <<>>
    /\ m_httpHeaders = 0 /\ m_chunkStart = 0 /\ m_decodedRequestBuffer = <<>>
    /\ pc \in {"eventLoop", "read", "headers"}

InHeaders(i) ==
    /\ Receiving(i) /\ Coming = Stream(i)
    /\ m_httpHeaders = 0 /\ m_chunkStart = 0 /\ m_decodedRequestBuffer = <<>>
    /\ pc \in {"eventLoop", "read", "headers"}

InBody(i) ==
    /\ Receiving(i) /\ ~ script[i].chunked
    /\ m_httpHeaders = i /\ m_chunkStart = 0 /\ m_decodedRequestBuffer = <<>>
    /\ rawXml \in Seq(Token)
    /\ (IF m_useRawXML THEN rawXml ELSE <<>>) \o Coming = Body(i)
    /\ m_bytesReceived = Len(Body(i)) - (Len(device) + Len(wire))
    /\ pc \in {"eventLoop", "read", "body", "request"}
    /\ pc = "request" => device = <<>> /\ wire = <<>> /\ (m_useRawXML => m_requestBuffer = <<>>)

decoded == IF m_useRawXML THEN rawXml ELSE m_decodedRequestBuffer

(* c chunks have been taken.  After a malformed size the connection is     *)
(* stuck, whatever is still sent.                                          *)
InChunks(i, c) ==
    /\ Len(handled) + 1 = i /\ i <= sent /\ ~ m_delayedResponse
    /\ m_httpHeaders = i /\ script[i].chunked /\ c \in 0..Len(script[i].sizes)
    /\ m_chunkStart = Len(Upto(Chunks(i), c)) /\ decoded = Upto(Datas(i), c)
    /\ \A p \in 1..Len(ChunkedBody(i)) : p \in 1..Len(Coming) /\ Coming[p] = ChunkedBody(i)[p]
    /\ \/ Receiving(i) /\ Len(Coming) = Len(ChunkedBody(i))
       \/ c < Len(script[i].sizes) /\ script[i].sizes[c + 1] = -1
    /\ pc \in {"eventLoop", "read", "body"}

InTrailers(i) ==
    /\ Receiving(i) /\ script[i].chunked
    /\ m_httpHeaders = i /\ m_chunkStart = -1
    /\ decoded = Body(i) /\ Coming = Trail(i)
    /\ pc \in {"eventLoop", "read", "body", "request"}
    /\ pc = "request" => device = <<>> /\ wire = <<>>

Phases ==
    Idle \/ \E i \in 1..sent : InHeaders(i) \/ InBody(i) \/ (\E c \in Nat : InChunks(i, c)) \/ InTrailers(i)

IntactInv == ~ pipelines => HandledSoFar /\ Phases

(* A chunked body is known token by token: after c chunks come the size    *)
(* and the data of the next one, or a size of 0 and the trailers.          *)
LEMMA TupleIs ==
    ASSUME NEW S, NEW c \in Seq(S)
    PROVE  /\ Len(c) = 2 => c = <<c[1], c[2]>>
           /\ Len(c) = 3 => c = <<c[1], c[2], c[3]>>
           /\ Len(c) = 4 => c = <<c[1], c[2], c[3], c[4]>>
           /\ Len(c) = 5 => c = <<c[1], c[2], c[3], c[4], c[5]>>
OBVIOUS

(* A sequence with one token at its end.                                   *)
LEMMA OneAtEnd ==
    ASSUME NEW S, NEW e \in S, NEW s \in Seq(S), NEW c, c = s \o <<e>>
    PROVE  /\ c \in Seq(S) /\ Len(c) = Len(s) + 1 /\ c[Len(s) + 1] = e
           /\ \A j \in 1..Len(s) : c[j] = s[j]
<1>1. PICK x : x = <<e>>
  OBVIOUS
<1>2. x \in Seq(S) /\ s \in Seq(S) /\ c = s \o x
  BY <1>1
<1>3. c \in Seq(S) /\ Len(c) = Len(s) + Len(x) /\ \A j \in 1..Len(s) : c[j] = s[j]
  BY ONLY <1>2, ConcatIs
<1>4. \A j \in 1..Len(x) : c[Len(s) + j] = x[j]
  BY ONLY <1>2, ConcatIs
<1>5. Len(x) = 1 /\ x[1] = e
  BY <1>1
<1>. QED
  BY <1>3, <1>4, <1>5

(* A sequence with two.                                                    *)
LEMMA TwoAtEnd ==
    ASSUME NEW S, NEW e \in S, NEW t \in S, NEW s \in Seq(S), NEW c, c = s \o <<t, e>>
    PROVE  /\ c \in Seq(S) /\ Len(c) = Len(s) + 2 /\ c[Len(s) + 1] = t /\ c[Len(s) + 2] = e
           /\ \A j \in 1..Len(s) : c[j] = s[j]
<1>1. PICK x : x = <<t, e>>
  OBVIOUS
<1>2. x \in Seq(S) /\ s \in Seq(S) /\ c = s \o x
  BY <1>1
<1>3. c \in Seq(S) /\ Len(c) = Len(s) + Len(x) /\ \A j \in 1..Len(s) : c[j] = s[j]
  BY ONLY <1>2, ConcatIs
<1>4. \A j \in 1..Len(x) : c[Len(s) + j] = x[j]
  BY ONLY <1>2, ConcatIs
<1>5. Len(x) = 2 /\ x[1] = t /\ x[2] = e
  BY <1>1
<1>. QED
  BY <1>3, <1>4, <1>5

(* The two forms of the end of a chunked body, token by token.             *)
LEMMA TrailIs ==
    ASSUME NEW S, NEW z \in S, NEW e \in S, NEW t \in S
    PROVE  /\ (<<e>> \o <<>>) \o <<e>> = <<e, e>> /\ (<<z, e>> \o <<>>) \o <<e>> = <<z, e, e>>
           /\ (<<e>> \o <<t, e>>) \o <<e>> = <<e, t, e, e>> /\ (<<z, e>> \o <<t, e>>) \o <<e>> = <<z, e, t, e, e>>
<1>1. PICK a, b : a = <<e>> /\ b = <<z, e>>
  OBVIOUS
<1>2. a \in Seq(S) /\ b \in Seq(S) /\ Len(a) = 1 /\ a[1] = e /\ Len(b) = 2 /\ b[1] = z /\ b[2] = e
  BY <1>1
<1>3. PICK a1, b1, a2, b2, a3, b3 :
          /\ a1 = a \o <<e>> /\ b1 = b \o <<e>>
          /\ a2 = a \o <<t, e>> /\ b2 = b \o <<t, e>>
          /\ a3 = a2 \o <<e>> /\ b3 = b2 \o <<e>>
  OBVIOUS
<1>4. a \o <<>> = a /\ b \o <<>> = b
  BY <1>2
<1>5. a1 \in Seq(S) /\ Len(a1) = 2 /\ a1[1] = e /\ a1[2] = e
  <2>1. a \in Seq(S) /\ e \in S /\ t \in S /\ a1 = a \o <<e>>
    BY <1>2, <1>3
  <2>2. /\ a1 \in Seq(S) /\ Len(a1) = Len(a) + 1 /\ a1[Len(a) + 1] = e
        /\ \A j \in 1..Len(a) : a1[j] = a[j]
    BY ONLY <2>1, OneAtEnd
  <2>. QED
    BY <1>2, <2>2
<1>6. b1 \in Seq(S) /\ Len(b1) = 3 /\ b1[1] = z /\ b1[2] = e /\ b1[3] = e
  <2>1. b \in Seq(S) /\ e \in S /\ t \in S /\ b1 = b \o <<e>>
    BY <1>2, <1>3
  <2>2. /\ b1 \in Seq(S) /\ Len(b1) = Len(b) + 1 /\ b1[Len(b) + 1] = e
        /\ \A j \in 1..Len(b) : b1[j] = b[j]
    BY ONLY <2>1, OneAtEnd
  <2>. QED
    BY <1>2, <2>2
<1>7. a2 \in Seq(S) /\ Len(a2) = 3 /\ a2[1] = e /\ a2[2] = t /\ a2[3] = e
  <2>1. a \in Seq(S) /\ e \in S /\ t \in S /\ a2 = a \o <<t, e>>
    BY <1>2, <1>3
  <2>2. /\ a2 \in Seq(S) /\ Len(a2) = Len(a) + 2 /\ a2[Len(a) + 1] = t /\ a2[Len(a) + 2] = e
        /\ \A j \in 1..Len(a) : a2[j] = a[j]
    BY ONLY <2>1, TwoAtEnd
  <2>. QED
    BY <1>2, <2>2
<1>8. b2 \in Seq(S) /\ Len(b2) = 4 /\ b2[1] = z /\ b2[2] = e /\ b2[3] = t /\ b2[4] = e
  <2>1. b \in Seq(S) /\ e \in S /\ t \in S /\ b2 = b \o <<t, e>>
    BY <1>2, <1>3
  <2>2. /\ b2 \in Seq(S) /\ Len(b2) = Len(b) + 2 /\ b2[Len(b) + 1] = t /\ b2[Len(b) + 2] = e
        /\ \A j \in 1..Len(b) : b2[j] = b[j]
    BY ONLY <2>1, TwoAtEnd
  <2>. QED
    BY <1>2, <2>2
<1>9. a3 \in Seq(S) /\ Len(a3) = 4 /\ a3[1] = e /\ a3[2] = t /\ a3[3] = e /\ a3[4] = e
  <2>1. a2 \in Seq(S) /\ e \in S /\ t \in S /\ a3 = a2 \o <<e>>
    BY <1>2, <1>3, <1>7
  <2>2. /\ a3 \in Seq(S) /\ Len(a3) = Len(a2) + 1 /\ a3[Len(a2) + 1] = e
        /\ \A j \in 1..Len(a2) : a3[j] = a2[j]
    BY ONLY <2>1, OneAtEnd
  <2>. QED
    BY <1>2, <2>2, <1>7
<1>10. b3 \in Seq(S) /\ Len(b3) = 5 /\ b3[1] = z /\ b3[2] = e /\ b3[3] = t /\ b3[4] = e /\ b3[5] = e
  <2>1. b2 \in Seq(S) /\ e \in S /\ t \in S /\ b3 = b2 \o <<e>>
    BY <1>2, <1>3, <1>8
  <2>2. /\ b3 \in Seq(S) /\ Len(b3) = Len(b2) + 1 /\ b3[Len(b2) + 1] = e
        /\ \A j \in 1..Len(b2) : b3[j] = b2[j]
    BY ONLY <2>1, OneAtEnd
  <2>. QED
    BY <1>2, <2>2, <1>8
<1>11. a1 = <<e, e>> /\ b1 = <<z, e, e>>
  BY <1>5, <1>6, TupleIs
<1>12. a3 = <<e, t, e, e>> /\ b3 = <<z, e, t, e, e>>
  BY <1>9, <1>10, TupleIs
<1>. QED
  BY <1>1, <1>3, <1>4, <1>11, <1>12

(* The ending is the size 0 and the trail.                                 *)
LEMMA EndingIs ==
    ASSUME script \in Scripts, NEW i \in 1..Len(script)
    PROVE  /\ Trail(i) \in Seq(Inner) /\ Ending(i) \in Seq(Inner)
           /\ Len(Ending(i)) = Len(Trail(i)) + 1 /\ Len(Trail(i)) \in Nat
           /\ Ending(i)[1] = ChunkSize(0)
           /\ \A j \in 1..Len(Trail(i)) : Ending(i)[j + 1] = Trail(i)[j]
           /\ \/ Trail(i) = <<Eol, Eol>>
              \/ Trail(i) = <<Eol, Trailer(i), Eol, Eol>>
<1>1. PICK z, e, t : z = ChunkSize(0) /\ e = Eol /\ t = Trailer(i)
  OBVIOUS
<1>2. z \in Inner /\ e \in Inner /\ t \in Inner
  BY <1>1, ScriptTyped, TokensTyped
<1>3. PICK x, y : x = Trail(i) /\ y = Ending(i)
  OBVIOUS
<1>4. (x = <<e, t, e, e>> /\ y = <<z, e, t, e, e>>) \/ (x = <<e, e>> /\ y = <<z, e, e>>)
  <2>1. CASE script[i].trailer
    <3>1. x = (<<e>> \o <<t, e>>) \o <<e>> /\ y = (<<z, e>> \o <<t, e>>) \o <<e>>
      BY <1>1, <1>3, <2>1 DEF Trail, Ending
    <3>. QED
      BY <1>2, <3>1, TrailIs
  <2>2. CASE ~ script[i].trailer
    <3>1. x = (<<e>> \o <<>>) \o <<e>> /\ y = (<<z, e>> \o <<>>) \o <<e>>
      BY <1>1, <1>3, <2>2 DEF Trail, Ending
    <3>. QED
      BY <1>2, <3>1, TrailIs
  <2>. QED
    BY <2>1, <2>2
<1>5. /\ x \in Seq(Inner) /\ y \in Seq(Inner) /\ Len(y) = Len(x) + 1 /\ Len(x) \in Nat /\ y[1] = z
      /\ \A j \in 1..Len(x) : y[j + 1] = x[j]
  <2>1. CASE x = <<e, t, e, e>> /\ y = <<z, e, t, e, e>>
    <3>1. /\ Len(x) = 4 /\ Len(y) = 5 /\ y[1] = z /\ y[2] = e /\ y[3] = t /\ y[4] = e /\ y[5] = e
          /\ x[1] = e /\ x[2] = t /\ x[3] = e /\ x[4] = e
      BY <2>1
    <3>2. y[1 + 1] = x[1] /\ y[2 + 1] = x[2] /\ y[3 + 1] = x[3] /\ y[4 + 1] = x[4]
      BY <3>1
    <3>3. \A j \in 1..Len(x) : j = 1 \/ j = 2 \/ j = 3 \/ j = 4
      BY <3>1
    <3>4. x \in Seq(Inner) /\ y \in Seq(Inner)
      BY <1>2, <2>1
    <3>. QED
      BY <3>1, <3>2, <3>3, <3>4
  <2>2. CASE x = <<e, e>> /\ y = <<z, e, e>>
    <3>1. /\ Len(x) = 2 /\ Len(y) = 3 /\ y[1] = z /\ y[2] = e /\ y[3] = e
          /\ x[1] = e /\ x[2] = e
      BY <2>2
    <3>2. y[1 + 1] = x[1] /\ y[2 + 1] = x[2]
      BY <3>1
    <3>3. \A j \in 1..Len(x) : j = 1 \/ j = 2
      BY <3>1
    <3>4. x \in Seq(Inner) /\ y \in Seq(Inner)
      BY <1>2, <2>2
    <3>. QED
      BY <3>1, <3>2, <3>3, <3>4
  <2>. QED
    BY <1>4, <2>1, <2>2
<1>. QED
  BY <1>1, <1>3, <1>4, <1>5

LengthTo(i, c) == Len(Upto(Chunks(i), c))
SizeAfter(i, c) == script[i].sizes[c + 1]
DataAfter(i, c) == ChunkData(i, c + 1)

(* Where chunk c + 1 is in a chunked body.                                 *)
LEMMA NextChunkIs ==
    ASSUME script \in Scripts, NEW i \in 1..Len(script), NEW c \in 0..(Len(script[i].sizes) - 1)
    PROVE  /\ LengthTo(i, c) \in Nat /\ SizeAfter(i, c) \in (Nat \ {0}) \cup {-1} /\ ChunkedBody(i) \in Seq(Inner)
           /\ LengthTo(i, c) + 2 < Len(ChunkedBody(i))
           /\ ChunkedBody(i)[LengthTo(i, c) + 1] = ChunkSize(SizeAfter(i, c))
           /\ ChunkedBody(i)[LengthTo(i, c) + 2] = Eol
           /\ DataAfter(i, c) \in Seq(Inner)
           /\ SizeAfter(i, c) # -1 => Len(DataAfter(i, c)) = SizeAfter(i, c)
           /\ LengthTo(i, c + 1) = LengthTo(i, c) + Len(DataAfter(i, c)) + 3
           /\ LengthTo(i, c) + Len(DataAfter(i, c)) + 3 < Len(ChunkedBody(i))
           /\ \A j \in 1..Len(DataAfter(i, c)), p \in Nat :
                p = LengthTo(i, c) + 2 + j => ChunkedBody(i)[p] = DataAfter(i, c)[j]
<1>. DEFINE q == c + 1
            m == LengthTo(i, c)
            size == SizeAfter(i, c)
<1>0. /\ q = c + 1 /\ m = Len(Upto(Chunks(i), c)) /\ size = script[i].sizes[q]
      /\ DataAfter(i, c) = ChunkData(i, q) /\ LengthTo(i, c + 1) = Len(Upto(Chunks(i), q))
  BY DEF LengthTo, SizeAfter, DataAfter
<1>. HIDE DEF q, m, size
<1>1. PICK C, d : C = Chunks(i) /\ d = ChunkData(i, q)
  OBVIOUS
<1>2. q = c + 1
  BY <1>0
<1>3. q \in 1..Len(script[i].sizes) /\ Len(script[i].sizes) \in Nat
  BY <1>2, BodyTyped
<1>4. d \in Seq(Inner) /\ size \in (Nat \ {0}) \cup {-1} /\ (size \in Nat => Len(d) = size)
  BY <1>0, <1>1, <1>2, <1>3, ChunkDataIs
<1>5. PICK x : x = Chunk(i, q)
  OBVIOUS
<1>6. /\ x \in Seq(Inner) /\ Len(x) = Len(d) + 3
      /\ x[1] = ChunkSize(size) /\ x[2] = Eol
      /\ \A j \in 1..Len(d) : x[j + 2] = d[j]
  BY <1>0, <1>1, <1>2, <1>3, <1>5, ChunkIs
<1>7. C \in Seq(Seq(Inner)) /\ Len(C) = Len(script[i].sizes) /\ C[q] = x
  BY <1>1, <1>3, <1>5, BodyTyped DEF Chunks
<1>8. PICK u : u = Upto(C, c)
  OBVIOUS
<1>9. c \in 0..(Len(C) - 1) /\ c \in 0..Len(C)
  BY <1>2, <1>3, <1>7
<1>10. u \in Seq(Inner) /\ m = Len(u) /\ Upto(C, q) = u \o x
  BY <1>0, <1>1, <1>2, <1>7, <1>8, <1>9, UptoIs
<1>11. PICK rest \in Seq(Inner) : FlattenSeq(C) = (u \o x) \o rest
  BY <1>2, <1>7, <1>8, <1>9, UptoRest
<1>12. PICK e : e = Ending(i)
  OBVIOUS
<1>13. e \in Seq(Inner) /\ Len(e) > 0 /\ ChunkedBody(i) = ((u \o x) \o rest) \o e
  <2>0. PICK t : t = Trail(i)
    OBVIOUS
  <2>1. Len(t) \in Nat /\ Len(e) = Len(t) + 1 /\ e \in Seq(Inner)
    BY <1>12, <2>0, EndingIs
  <2>2. ChunkedBody(i) = FlattenSeq(Chunks(i)) \o Ending(i)
    BY EndingTyped
  <2>3. Len(e) > 0
    BY <2>1
  <2>4. ChunkedBody(i) = ((u \o x) \o rest) \o e
    BY <1>1, <1>11, <1>12, <2>2
  <2>. QED
    BY <2>1, <2>3, <2>4
<1>14. PICK B : B = ((u \o x) \o rest) \o e
  OBVIOUS
<1>15. /\ B \in Seq(Inner) /\ Len(B) = Len(u) + Len(x) + Len(rest) + Len(e)
       /\ \A j \in 1..Len(x) : B[Len(u) + j] = x[j]
  <2>0. u \in Seq(Inner) /\ x \in Seq(Inner)
    BY <1>6, <1>10
  <2>1. PICK v : v = u \o x
    OBVIOUS
  <2>2. v \in Seq(Inner) /\ Len(v) = Len(u) + Len(x) /\ \A j \in 1..Len(x) : v[Len(u) + j] = x[j]
    BY ONLY <2>0, <2>1, ConcatIs
  <2>3. PICK w : w = v \o rest
    OBVIOUS
  <2>4. w \in Seq(Inner) /\ Len(w) = Len(v) + Len(rest) /\ \A j \in 1..Len(v) : w[j] = v[j]
    <3>1. v \in Seq(Inner) /\ rest \in Seq(Inner) /\ w = v \o rest
      BY <2>2, <2>3
    <3>. QED
      BY ONLY <3>1, ConcatIs
  <2>5. B = w \o e
    BY <1>14, <2>1, <2>3
  <2>6. B \in Seq(Inner) /\ Len(B) = Len(w) + Len(e) /\ \A j \in 1..Len(w) : B[j] = w[j]
    <3>1. w \in Seq(Inner) /\ e \in Seq(Inner) /\ B = w \o e
      BY <1>13, <2>4, <2>5
    <3>. QED
      BY ONLY <3>1, ConcatIs
  <2>7. Len(u) \in Nat /\ Len(x) \in Nat /\ Len(rest) \in Nat
    BY <1>6, <1>10
  <2>8. ASSUME NEW j \in 1..Len(x) PROVE B[Len(u) + j] = x[j]
    <3>1. Len(u) + j \in 1..Len(v) /\ Len(u) + j \in 1..Len(w)
      BY <2>2, <2>4, <2>7
    <3>. QED
      BY <2>2, <2>4, <2>6, <3>1
  <2>. QED
    BY <2>2, <2>4, <2>6, <2>7, <2>8
<1>16. /\ m \in Nat /\ Len(d) \in Nat /\ Len(rest) \in Nat /\ Len(e) \in Nat /\ Len(B) > m + Len(d) + 3
       /\ B[m + 1] = ChunkSize(size) /\ B[m + 2] = Eol
  <2>1. Len(d) \in Nat /\ m \in Nat /\ Len(rest) \in Nat /\ Len(e) \in Nat /\ Len(x) \in Nat
    BY SMTT(30), <1>4, <1>6, <1>10, <1>13
  <2>2. 1 \in 1..Len(x) /\ 2 \in 1..Len(x)
    BY <1>6, <2>1
  <2>3. B[m + 1] = ChunkSize(size) /\ B[m + 2] = Eol
    BY <1>6, <1>10, <1>15, <2>2
  <2>4. Len(B) > m + Len(d) + 3
    BY <1>6, <1>10, <1>13, <1>15, <2>1
  <2>. QED
    BY <2>1, <2>3, <2>4
<1>17. ASSUME NEW j \in 1..Len(d) PROVE B[m + 2 + j] = d[j]
  <2>1. j + 2 \in 1..Len(x) /\ Len(u) + (j + 2) = m + 2 + j
    BY <1>6, <1>10, <1>16
  <2>. QED
    BY <1>6, <1>15, <2>1
<1>18. Len(Upto(C, q)) = m + Len(d) + 3
  <2>1. PICK v : v = u \o x
    OBVIOUS
  <2>2. Len(v) = Len(u) + Len(x)
    <3>1. u \in Seq(Inner) /\ x \in Seq(Inner)
      BY <1>6, <1>10
    <3>. QED
      BY ONLY <2>1, <3>1, ConcatIs
  <2>. QED
    BY <1>6, <1>10, <1>16, <2>1, <2>2
<1>19. ChunkedBody(i) = B
  BY <1>13, <1>14
<1>20. B \in Seq(Inner) /\ m + 2 < Len(B)
  BY <1>15, <1>16
<1>21. size # -1 => Len(d) = size
  BY <1>4
<1>22. \A j \in 1..Len(d), p \in Nat : p = m + 2 + j => B[p] = d[j]
  BY <1>17
<1>23. m = LengthTo(i, c) /\ size = SizeAfter(i, c)
  BY DEF m, size
<1>24. d = DataAfter(i, c) /\ LengthTo(i, c + 1) = m + Len(d) + 3
  <2>1. LengthTo(i, c + 1) = Len(Upto(C, q))
    BY <1>0, <1>1
  <2>. QED
    BY <1>0, <1>1, <1>18, <2>1
<1>25. /\ LengthTo(i, c) \in Nat /\ SizeAfter(i, c) \in (Nat \ {0}) \cup {-1} /\ ChunkedBody(i) \in Seq(Inner)
       /\ LengthTo(i, c) + 2 < Len(ChunkedBody(i))
       /\ ChunkedBody(i)[LengthTo(i, c) + 1] = ChunkSize(SizeAfter(i, c))
       /\ ChunkedBody(i)[LengthTo(i, c) + 2] = Eol
  BY ONLY <1>4, <1>16, <1>19, <1>20, <1>23
<1>26. /\ DataAfter(i, c) \in Seq(Inner)
       /\ SizeAfter(i, c) # -1 => Len(DataAfter(i, c)) = SizeAfter(i, c)
  BY ONLY <1>4, <1>21, <1>23, <1>24
<1>27. LengthTo(i, c + 1) = LengthTo(i, c) + Len(DataAfter(i, c)) + 3
  BY ONLY <1>23, <1>24
<1>28. LengthTo(i, c) + Len(DataAfter(i, c)) + 3 < Len(ChunkedBody(i))
  <2>1. m + Len(d) + 3 < Len(B)
    BY <1>16
  <2>. QED
    BY ONLY <2>1, <1>19, <1>23, <1>24
<1>29. \A j \in 1..Len(DataAfter(i, c)), p \in Nat :
         p = LengthTo(i, c) + 2 + j => ChunkedBody(i)[p] = DataAfter(i, c)[j]
  BY ONLY <1>19, <1>22, <1>23, <1>24
<1>. QED
  BY ONLY <1>25, <1>26, <1>27, <1>28, <1>29

(* Where the last size is.                                                 *)
LEMMA LastSizeIs ==
    ASSUME script \in Scripts, NEW i \in 1..Len(script),
           NEW m, m = Len(Upto(Chunks(i), Len(script[i].sizes)))
    PROVE  /\ m \in Nat /\ ChunkedBody(i) \in Seq(Inner)
           /\ Len(ChunkedBody(i)) = m + 1 + Len(Trail(i)) /\ Len(Trail(i)) >= 2
           /\ ChunkedBody(i)[m + 1] = ChunkSize(0) /\ ChunkedBody(i)[m + 2] = Eol
           /\ \A j \in 1..Len(Trail(i)) : ChunkedBody(i)[m + 1 + j] = Trail(i)[j]
<1>1. PICK C, t, e : C = Chunks(i) /\ t = Trail(i) /\ e = Ending(i)
  OBVIOUS
<1>2. C \in Seq(Seq(Inner)) /\ Len(C) = Len(script[i].sizes) /\ FlattenSeq(C) \in Seq(Inner)
  BY <1>1, BodyTyped
<1>3. PICK u : u = FlattenSeq(C)
  OBVIOUS
<1>4. u \in Seq(Inner) /\ m = Len(u)
  <2>1. Upto(C, Len(C)) = u
    BY <1>2, <1>3, UptoIs
  <2>. QED
    BY <1>1, <1>2, <1>3, <2>1
<1>5. /\ t \in Seq(Inner) /\ e \in Seq(Inner) /\ Len(e) = Len(t) + 1 /\ e[1] = ChunkSize(0)
      /\ \A j \in 1..Len(t) : e[j + 1] = t[j]
  BY <1>1, EndingIs
<1>6. Len(t) >= 2 /\ t[1] = Eol
  <2>1. PICK x, y : x = Eol /\ y = Trailer(i)
    OBVIOUS
  <2>2. t = <<x, x>> \/ t = <<x, y, x, x>>
    BY <1>1, <2>1, EndingIs
  <2>3. x \in Inner /\ y \in Inner
    BY <2>1, ScriptTyped, TokensTyped
  <2>4. CASE t = <<x, x>>
    BY <2>1, <2>4
  <2>5. CASE t = <<x, y, x, x>>
    BY <2>1, <2>5
  <2>. QED
    BY <2>2, <2>4, <2>5
<1>7. ChunkedBody(i) = u \o e
  BY <1>1, <1>3, EndingTyped
<1>8. PICK B : B = u \o e
  OBVIOUS
<1>9. B \in Seq(Inner) /\ Len(B) = Len(u) + Len(e) /\ \A j \in 1..Len(e) : B[Len(u) + j] = e[j]
  <2>1. u \in Seq(Inner) /\ e \in Seq(Inner) /\ B = u \o e
    BY <1>4, <1>5, <1>8
  <2>. QED
    BY ONLY <2>1, ConcatIs
<1>10. Len(u) \in Nat /\ Len(e) \in Nat /\ Len(t) \in Nat
  BY <1>4, <1>5
<1>11. ASSUME NEW j \in 1..Len(t) PROVE B[m + 1 + j] = t[j]
  <2>1. j + 1 \in 1..Len(e) /\ Len(u) + (j + 1) = m + 1 + j
    BY <1>4, <1>5, <1>10
  <2>. QED
    BY <1>5, <1>9, <2>1
<1>12. B[m + 1] = ChunkSize(0)
  BY <1>4, <1>5, <1>9, <1>10
<1>13. B[m + 2] = Eol
  <2>1. 1 \in 1..Len(t) /\ m + 1 + 1 = m + 2
    BY <1>4, <1>6, <1>10
  <2>. QED
    BY <1>6, <1>11, <2>1
<1>14. m \in Nat /\ Len(B) = m + 1 + Len(t)
  BY <1>4, <1>5, <1>9, <1>10
<1>. QED
  BY <1>1, <1>6, <1>7, <1>8, <1>9, <1>11, <1>12, <1>13, <1>14

(* The buffer is the front of what is coming.                              *)
LEMMA ComingFacts ==
    ASSUME StreamTyped
    PROVE  /\ Coming \in Seq(Token) /\ Len(Coming) = Len(m_requestBuffer) + Len(device) + Len(wire)
           /\ Len(m_requestBuffer) \in Nat /\ Len(device) \in Nat /\ Len(wire) \in Nat
           /\ \A p \in 1..Len(m_requestBuffer) : p \in 1..Len(Coming) /\ Coming[p] = m_requestBuffer[p]
           /\ m_requestBuffer \in Seq(Token) /\ device \in Seq(Token) /\ wire \in Seq(Token)
<1>1. PICK b, d, w : b = m_requestBuffer /\ d = device /\ w = wire
  OBVIOUS
<1>2. b \in Seq(Token) /\ d \in Seq(Token) /\ w \in Seq(Token)
  BY <1>1 DEF StreamTyped
<1>3. PICK u, X : u = b \o d /\ X = u \o w
  OBVIOUS
<1>4. u \in Seq(Token) /\ Len(u) = Len(b) + Len(d) /\ Len(b) \in Nat /\ Len(d) \in Nat /\ \A j \in 1..Len(b) : u[j] = b[j]
  BY ONLY <1>2, <1>3, ConcatIs
<1>5. X \in Seq(Token) /\ Len(X) = Len(u) + Len(w) /\ Len(w) \in Nat /\ \A j \in 1..Len(u) : X[j] = u[j]
  BY ONLY <1>2, <1>3, <1>4, ConcatIs
<1>6. Coming = X
  BY <1>1, <1>3 DEF Coming
<1>7. \A p \in 1..Len(b) : p \in 1..Len(u) /\ p \in 1..Len(X) /\ X[p] = b[p]
  BY <1>4, <1>5
<1>. QED
  BY <1>1, <1>2, <1>4, <1>5, <1>6, <1>7

(* The front of the buffer is used up, and what is left is known.          *)
LEMMA ComingFront ==
    ASSUME StreamTyped, UNCHANGED <<device, wire>>, NEW k \in 0..Len(m_requestBuffer),
           m_requestBuffer' = SubSeq(m_requestBuffer, k + 1, Len(m_requestBuffer)),
           NEW s \in Seq(Token), Len(Coming) = Len(s) + k, \A j \in 1..Len(s) : Coming[j + k] = s[j]
    PROVE  Coming' = s
<1>1. Taken(k) /\ m_requestBuffer' \in Seq(Token)
  BY FrontTaken
<1>2. PICK b, d, w, c : b = m_requestBuffer /\ d = device /\ w = wire /\ c = m_requestBuffer'
  OBVIOUS
<1>3. b \in Seq(Token) /\ d \in Seq(Token) /\ w \in Seq(Token) /\ c \in Seq(Token)
  BY <1>1, <1>2 DEF StreamTyped
<1>4. Len(c) = Len(b) - k
  BY <1>2, <1>3, SuffixIs
<1>5. PICK Y : Y = c \o d \o w
  OBVIOUS
<1>6. Coming' = Y
  BY <1>2, <1>5 DEF Coming
<1>7. Y \in Seq(Token) /\ DOMAIN Y = 1..(Len(c) + Len(d) + Len(w)) /\ Len(d) \in Nat /\ Len(w) \in Nat
  BY <1>3, <1>5, ComingIs
<1>8. Len(Y) = Len(s)
  <2>1. Len(Coming) = Len(b) + Len(d) + Len(w)
    BY <1>2, ComingFacts
  <2>2. Len(Y) = Len(c) + Len(d) + Len(w)
    BY <1>3, <1>7
  <2>3. PICK lb, ld, lw, ls : lb = Len(b) /\ ld = Len(d) /\ lw = Len(w) /\ ls = Len(s)
    OBVIOUS
  <2>4. lb \in Nat /\ ld \in Nat /\ lw \in Nat /\ ls \in Nat /\ k \in 0..lb
    BY <1>2, <1>3, <2>3
  <2>5. lb + ld + lw = ls + k /\ Len(Y) = (lb - k) + ld + lw
    BY <1>4, <2>1, <2>2, <2>3
  <2>. QED
    BY <2>3, <2>4, <2>5
<1>9. ASSUME NEW j \in 1..Len(s) PROVE Y[j] = s[j]
  <2>1. j \in DOMAIN Y
    BY <1>7, <1>8
  <2>. QED
    BY <1>1, <1>6, <2>1 DEF Taken
<1>10. Y = s
  BY SMTT(30), <1>7, <1>8, <1>9
<1>. QED
  BY <1>6, <1>10

(* What was sent is not changed later.                                     *)
LEMMA Same ==
    ASSUME script' = script, NEW i
    PROVE  /\ Body(i)' = Body(i) /\ Stream(i)' = Stream(i) /\ ChunkedBody(i)' = ChunkedBody(i)
           /\ Chunks(i)' = Chunks(i) /\ Datas(i)' = Datas(i) /\ Trail(i)' = Trail(i)
<1>1. Body(i)' = Body(i) /\ Datas(i)' = Datas(i)
  BY DEF Body, ChunkData, Datas
<1>2. Chunks(i)' = Chunks(i) /\ ChunkedBody(i)' = ChunkedBody(i)
  BY DEF Chunks, Chunk, ChunkedBody, ChunkData
<1>3. Stream(i)' = Stream(i) /\ Trail(i)' = Trail(i)
  BY DEF Stream, Chunk, ChunkedBody, ChunkData, Body, Trail
<1>. QED
  BY <1>1, <1>2, <1>3

(* The client waits.                                                       *)
LEMMA NoSend ==
    ASSUME StreamTyped, IsSequence(handled), IsSequence(replies), ~ pipelines, NEW i, Receiving(i)
    PROVE  ~ send
<1>1. Len(replies) \in Nat /\ Len(handled) \in Nat
  BY AppendIs
<1>2. Len(replies) < sent
  BY <1>1 DEF Receiving, Balanced, Owed, StreamTyped
<1>. QED
  BY <1>1, <1>2 DEF send, StreamTyped

(* A request is handed over complete.                                      *)
LEMMA OverAnswers ==
    Over => dropTruncated \/ (m_delayedResponse' = m_delayedResponse /\ \E r : write(r))
                          \/ (m_delayedResponse' /\ replies' = replies)
BY DEF Over, endRequest, refuse, handleFileDownload, rejectFault, makeCall, makeDelayedCall

(* A request that is over hands over the data received.                    *)
LEMMA OverHands ==
    ASSUME Over, NEW data, (IF m_useRawXML THEN rawXml ELSE receivedData) = data
    PROVE  requestDone /\ hand(data) /\ (dropTruncated => parsed(m_httpHeaders, data) = "truncated")
<1>1. CASE endRequest
  BY <1>1 DEF endRequest, dropTruncated, atCall
<1>2. CASE refuse \/ handleFileDownload
  BY <1>2 DEF refuse, handleFileDownload, dropTruncated, atCall
<1>3. CASE dropTruncated \/ rejectFault \/ makeCall \/ makeDelayedCall
  BY <1>3 DEF dropTruncated, rejectFault, makeCall, makeDelayedCall, atCall
<1>. QED
  BY <1>1, <1>2, <1>3 DEF Over

(* If those are its body, HandledSoFar holds of one more.                  *)
LEMMA OverIntact ==
    ASSUME StreamTyped, IsSequence(handled), IsSequence(replies), Over, HandledSoFar,
           NEW i \in 1..Len(script), Receiving(i), m_httpHeaders = i,
           (IF m_useRawXML THEN rawXml ELSE receivedData) = Body(i)
    PROVE  HandledSoFar' /\ Len(handled') = i /\ Balanced' /\ requestDone
<1>1. requestDone /\ hand(Body(i)) /\ (dropTruncated => parsed(i, Body(i)) = "truncated")
  BY OverHands
<1>2. PICK e : e = [of |-> i, data |-> Body(i)]
  OBVIOUS
<1>3. handled' = Append(handled, e)
  BY <1>1, <1>2 DEF hand
<1>4. /\ Len(handled) \in Nat /\ Len(handled') = i /\ handled'[i] = e
      /\ \A j \in 1..Len(handled) : handled'[j] = handled[j]
  <2>1. PICK s : s = handled
    OBVIOUS
  <2>2. /\ Len(Append(s, e)) = Len(s) + 1 /\ Len(s) \in Nat
        /\ Append(s, e)[Len(s) + 1] = e
        /\ \A j \in 1..Len(s) : Append(s, e)[j] = s[j]
    BY <2>1, AppendIs
  <2>. QED
    BY <1>3, <2>1, <2>2 DEF Receiving
<1>5. HandledSoFar'
  <2>1. script' = script
    BY <1>1 DEF requestDone, client
  <2>2. ASSUME NEW j \in 1..Len(handled') PROVE handled'[j] = [of |-> j, data |-> Body(j)]
    <3>1. CASE j = i
      BY <1>2, <1>4, <3>1
    <3>2. CASE j # i
      <4>1. j \in 1..Len(handled)
        BY <1>4, <2>2, <3>2 DEF Receiving
      <4>. QED
        BY <1>4, <4>1 DEF HandledSoFar
    <3>. QED
      BY <3>1, <3>2
  <2>3. \A j : Body(j)' = Body(j)
    BY <2>1, Same
  <2>. QED
    BY <2>2, <2>3 DEF HandledSoFar
<1>6. Balanced'
  <2>0. Whole' = Whole
    BY <1>1 DEF Whole, requestDone, client
  <2>1. Len(replies) \in Nat /\ ~ m_delayedResponse
    BY AppendIs DEF Receiving
  <2>2. CASE m_delayedResponse' = m_delayedResponse /\ \E r : write(r)
    <3>1. PICK r : write(r)
      BY <2>2
    <3>2. Len(replies') = Len(replies) + 1
      BY <3>1, AppendIs DEF write
    <3>. QED
      BY <1>4, <2>0, <2>1, <2>2, <3>2 DEF Balanced, Owed, Receiving
  <2>3. CASE m_delayedResponse' /\ replies' = replies
    BY <1>4, <2>0, <2>1, <2>3 DEF Balanced, Owed, Receiving
  <2>4. CASE dropTruncated
    <3>1. parsed(i, Body(i)) = script[i].xml
      BY DEF parsed, IsStrictPrefix
    <3>2. ~ Whole
      <4>1. i \in DOMAIN script
        BY SocketAssumption DEF StreamTyped
      <4>. QED
        BY <1>1, <2>4, <3>1, <4>1 DEF Whole
    <3>3. replies' = replies /\ m_delayedResponse' = m_delayedResponse
      BY <2>4 DEF dropTruncated
    <3>. QED
      BY <1>4, <2>0, <2>1, <3>2, <3>3 DEF Balanced, Owed, Receiving
  <2>. QED
    BY <2>2, <2>3, <2>4, OverAnswers
<1>. QED
  BY <1>1, <1>4, <1>5, <1>6

(* The steps, by where slotReadyRead() is.                                 *)
LEMMA StepAt ==
    ASSUME [Next]_vars
    PROVE  \/ send \/ receive
           \/ m_delayedResponse /\ sendDelayedReply
           \/ pc = "read" /\ readAll
           \/ pc = "headers" /\ (headersIncomplete \/ parseHeaders)
           \/ pc = "body" /\ ~ isChunked /\ receivePlain
           \/ pc = "body" /\ isChunked /\ m_chunkStart >= 0 /\ (chunkIncomplete \/ takeChunk \/ lastChunk \/ badChunkSize)
           \/ pc = "body" /\ isChunked /\ m_chunkStart = -1 /\ endOfTrailers
           \/ pc = "request" /\ Over
           \/ UNCHANGED vars
<1>1. CASE Over
  BY <1>1, OverKeeps
<1>2. CASE Assembling
  <2>1. CASE readAll \/ headersIncomplete \/ parseHeaders \/ receivePlain
    BY <2>1, Zenon DEF readAll, headersIncomplete, parseHeaders, receivePlain
  <2>2. CASE chunkIncomplete \/ takeChunk \/ lastChunk \/ badChunkSize
    BY <2>2, Zenon DEF chunkIncomplete, takeChunk, lastChunk, badChunkSize, atChunk
  <2>3. CASE endOfTrailers
    BY <2>3, Zenon DEF endOfTrailers
  <2>. QED
    BY <1>2, <2>1, <2>2, <2>3 DEF Assembling
<1>3. CASE send \/ receive \/ sendDelayedReply \/ finished
  BY <1>3 DEF finished, sendDelayedReply
<1>. QED
  BY <1>1, <1>2, <1>3, SlotKinds DEF Next

(* No other step changes what was handled.                                 *)
LEMMA HandledKept ==
    ASSUME [Next]_vars, ~ Over, HandledSoFar
    PROVE  HandledSoFar'
<1>1. script' = script /\ handled' = handled
  BY StepAt
  DEF send, receive, readyRead, sendDelayedReply, readAll, headersIncomplete, parseHeaders, receivePlain, chunkIncomplete,
      takeChunk, lastChunk, badChunkSize, endOfTrailers, vars, client, service
<1>2. \A j : Body(j)' = Body(j)
  BY <1>1, Same
<1>. QED
  BY <1>1, <1>2 DEF HandledSoFar

(* What has arrived and what has not does not matter.                      *)
LEMMA ReceiveIs ==
    ASSUME StreamTyped, receive
    PROVE  /\ Coming' = Coming /\ Len(device') + Len(wire') = Len(device) + Len(wire)
           /\ UNCHANGED <<client, assembly, service>> /\ pc = "eventLoop" /\ pc' \in {"eventLoop", "read"} /\ wire # <<>>
<1>1. PICK n \in 1..Len(wire) : readyRead(n)
  BY DEF receive
<1>2. Coming' = Coming /\ Len(device') + Len(wire') = Len(device) + Len(wire)
  BY <1>1, ArrivalFlows
<1>3. UNCHANGED <<client, assembly, service>> /\ pc = "eventLoop" /\ pc' \in {"eventLoop", "read"}
  BY <1>1 DEF readyRead
<1>. QED
  BY <1>1, <1>2, <1>3

(* From Idle a step leads to a phase again.                                *)
LEMMA IdleStep ==
    ASSUME StreamTyped, StreamTyped', IsSequence(handled), IsSequence(replies), DelayedDisabled, ~ pipelines,
           Idle, [Next]_vars
    PROVE  Phases'
<1>1. Len(replies) \in Nat /\ Len(handled) \in Nat
  BY AppendIs
<1>2. CASE send
  <2>1. PICK i : i = sent + 1
    OBVIOUS
  <2>2. /\ sent' = i /\ i \in 1..sent' /\ i \in 1..Len(script)
        /\ UNCHANGED <<script, device, pc, assembly, service>>
        /\ wire' = wire \o Stream(i)
    BY <1>2, <2>1 DEF send, StreamTyped
  <2>3. ~ m_delayedResponse
    BY <1>1, <1>2 DEF send, Idle, Balanced, Owed, StreamTyped
  <2>4. Coming' = Stream(i)
    <3>1. PICK s : s = Stream(i)
      OBVIOUS
    <3>2. s \in Seq(Token)
      BY <2>2, <3>1, StreamIs DEF StreamTyped
    <3>3. m_requestBuffer' = <<>> /\ device' = <<>> /\ wire' = <<>> \o s
      BY <2>2, <3>1 DEF Idle, assembly
    <3>4. <<>> \o s = s
      BY <3>2
    <3>5. <<>> \o <<>> \o s = s
      BY <3>2
    <3>. QED
      BY <3>1, <3>3, <3>4, <3>5 DEF Coming
  <2>5. Receiving(i)'
    BY <2>1, <2>2, <2>3 DEF Receiving, Idle, Balanced, Whole, Owed, service
  <2>6. Stream(i)' = Stream(i)
    BY <2>2, Same
  <2>7. InHeaders(i)'
    BY <2>2, <2>4, <2>5, <2>6 DEF InHeaders, Idle, assembly
  <2>. QED
    BY <2>2, <2>7 DEF Phases
<1>3. CASE sendDelayedReply
  <2>1. PICK r : write(r)
    BY <1>3 DEF sendDelayedReply
  <2>2. Len(replies') = Len(replies) + 1
    BY <2>1, AppendIs DEF write
  <2>3. Idle'
    BY <1>1, <1>3, <2>2 DEF sendDelayedReply, Idle, Balanced, Whole, Owed, client, assembly
  <2>. QED
    BY <2>3 DEF Phases
<1>4. CASE readAll
  <2>1. m_requestBuffer' = <<>> /\ device' = <<>>
    BY <1>4 DEF Idle, readAll
  <2>2. Idle'
    BY <1>4, <2>1 DEF readAll, Idle, Balanced, Whole, Owed, client, service
  <2>. QED
    BY <2>2 DEF Phases
<1>5. CASE headersIncomplete
  <2>1. Idle'
    BY <1>5 DEF headersIncomplete, Idle, Balanced, Whole, Owed, client, service, assembly
  <2>. QED
    BY <2>1 DEF Phases
<1>6. CASE UNCHANGED vars
  <2>1. Idle'
    BY <1>6 DEF vars, Idle, Balanced, Whole, Owed, client, service, assembly
  <2>. QED
    BY <2>1 DEF Phases
<1>7. ~ parseHeaders
  <2>1. Len(m_requestBuffer) = 0
    BY DEF Idle
  <2>. QED
    BY <2>1, ParsedIs
<1>8. ~ receive
  BY ReceiveIs DEF Idle
<1>. QED
  BY <1>2, <1>3, <1>4, <1>5, <1>6, <1>7, <1>8, StepAt DEF Idle

(* The same from InHeaders.                                                *)
LEMMA InHeadersStep ==
    ASSUME StreamTyped, StreamTyped', IsSequence(handled), IsSequence(replies), DelayedDisabled, ~ pipelines,
           NEW i \in 1..sent, InHeaders(i), [Next]_vars
    PROVE  Phases'
<1>0. i \in 1..Len(script) /\ ~ send /\ ~ m_delayedResponse /\ i = sent
  BY NoSend DEF InHeaders, Receiving, StreamTyped
<1>1. ASSUME Coming' = Coming, UNCHANGED <<client, m_httpHeaders, m_chunkStart, m_decodedRequestBuffer, service>>,
             pc' \in {"eventLoop", "read", "headers"}
      PROVE  Phases'
  <2>1. Stream(i)' = Stream(i)
    BY <1>1, Same DEF client
  <2>2. InHeaders(i)'
    BY <1>1, <2>1 DEF InHeaders, Receiving, Balanced, Whole, Owed, client, service
  <2>. QED
    BY <1>1, <2>2 DEF Phases, client
<1>2. CASE receive
  BY <1>1, <1>2, ReceiveIs DEF assembly
<1>3. CASE readAll
  BY <1>1, <1>3, ReadFlows DEF readAll, InHeaders
<1>4. CASE headersIncomplete \/ UNCHANGED vars
  <2>1. Coming' = Coming
    BY <1>4 DEF headersIncomplete, Coming, assembly, vars
  <2>. QED
    BY <1>1, <1>4, <2>1 DEF headersIncomplete, vars, assembly, InHeaders
<1>5. CASE parseHeaders
  <2>1. PICK b, s, r : b = m_requestBuffer /\ s = Stream(i) /\ r = Rest(i)
    OBVIOUS
  <2>2. PICK sep \in 2..(Len(b) - 1) :
            /\ sep = blankLine(b)
            /\ m_requestBuffer' = SubSeq(b, sep + 2, Len(b))
            /\ m_bytesReceived' = Len(b) - (sep + 1)
            /\ m_httpHeaders' = IF sep = 2 /\ b[1].k = "headers" THEN b[1].of ELSE 0
    BY <1>5, <2>1, ParsedIs
  <2>3. /\ r \in Seq(Inner) /\ s \in Seq(Token) /\ Len(s) = Len(r) + 3
        /\ s[1] = HeaderBlock(i) /\ s[2] = Eol /\ s[3] = Eol
        /\ \A j \in 1..Len(r) : s[j + 3] = r[j]
    BY <1>0, <2>1, StreamIs DEF StreamTyped
  <2>4. /\ Coming = s /\ b \in Seq(Token) /\ Len(b) \in Nat /\ Len(device) \in Nat /\ Len(wire) \in Nat
        /\ Len(s) = Len(b) + Len(device) + Len(wire)
        /\ \A p \in 1..Len(b) : p \in 1..Len(s) /\ s[p] = b[p]
    BY <2>1, ComingFacts DEF InHeaders
  <2>5. b[1] = HeaderBlock(i) /\ b[2] = Eol /\ b[3] = Eol
    <3>1. 1 \in 1..Len(b) /\ 2 \in 1..Len(b) /\ 3 \in 1..Len(b)
      BY SMTT(30), <2>2, <2>4
    <3>. QED
      BY <2>3, <2>4, <3>1
  <2>6. sep = 2
    <3>1. \A p \in 1..(sep - 1) : ~ (b[p] = Eol /\ b[p + 1] = Eol)
      <4>1. b \in Seq(Token) /\ sep = blankLine(b) /\ sep # 0
        BY <2>2, <2>4
      <4>. QED
        BY ONLY <4>1, BlankIs
    <3>2. ~ 2 \in 1..(sep - 1)
      <4>1. 2 + 1 = 3
        OBVIOUS
      <4>. QED
        BY <2>5, <3>1, <4>1
    <3>. QED
      BY <2>2, <2>4, <3>2
  <2>7. m_httpHeaders' = i /\ m_bytesReceived' = Len(b) - 3 /\ m_requestBuffer' = SubSeq(b, 3 + 1, Len(b))
    <3>1. HeaderBlock(i).k = "headers" /\ HeaderBlock(i).of = i
      BY DEF HeaderBlock
    <3>. QED
      BY <2>2, <2>5, <2>6, <3>1
  <2>8. r \in Seq(Token)
    BY <2>3, SeqMonotonic DEF Inner
  <2>9. Coming' = r
    <3>1. UNCHANGED <<device, wire>> /\ 3 \in 0..Len(m_requestBuffer)
      BY <1>5, <2>1, <2>2, <2>4 DEF parseHeaders
    <3>2. Len(Coming) = Len(r) + 3 /\ \A j \in 1..Len(r) : Coming[j + 3] = r[j]
      BY <2>3, <2>4
    <3>. QED
      BY <2>1, <2>7, <2>8, <3>1, <3>2, ComingFront
  <2>10. Receiving(i)' /\ m_chunkStart' = 0 /\ m_decodedRequestBuffer' = <<>> /\ pc' = "body" /\ rawXml' = <<>>
    BY <1>5 DEF parseHeaders, client, service, InHeaders, Receiving, Balanced, Whole, Owed
  <2>11. /\ Body(i)' = Body(i) /\ ChunkedBody(i)' = ChunkedBody(i) /\ Chunks(i)' = Chunks(i) /\ Datas(i)' = Datas(i)
         /\ script' = script /\ sent' = sent
    BY <1>5, Same DEF parseHeaders, client
  <2>12. CASE ~ script[i].chunked
    <3>1. r = Body(i)
      BY <2>1, <2>12 DEF Rest
    <3>2. <<>> \o r = r /\ <<>> \in Seq(Token)
      BY <2>8
    <3>3. (IF m_useRawXML THEN rawXml ELSE <<>>)' = <<>>
      BY <2>10
    <3>4. m_bytesReceived' = Len(r) - (Len(device') + Len(wire'))
      <4>1. UNCHANGED <<device, wire>>
        BY <1>5 DEF parseHeaders
      <4>2. PICK lb, ld, lw, lr : lb = Len(b) /\ ld = Len(device) /\ lw = Len(wire) /\ lr = Len(r)
        OBVIOUS
      <4>3. lb \in Nat /\ ld \in Nat /\ lw \in Nat /\ lr \in Nat /\ lr + 3 = lb + ld + lw
        BY <2>3, <2>4, <2>8, <4>2
      <4>. QED
        BY <2>7, <4>1, <4>2, <4>3
    <3>5. InBody(i)'
      BY <2>7, <2>9, <2>10, <2>11, <2>12, <3>1, <3>2, <3>3, <3>4 DEF InBody
    <3>. QED
      BY <2>11, <3>5 DEF Phases
  <2>13. CASE script[i].chunked
    <3>1. r = ChunkedBody(i) /\ Len(r) \in Nat
      BY <2>1, <2>8, <2>13 DEF Rest
    <3>2. Upto(Chunks(i), 0) = <<>> /\ Upto(Datas(i), 0) = <<>> /\ 0 \in 0..Len(script[i].sizes)
      <4>1. Chunks(i) \in Seq(Seq(Inner)) /\ Datas(i) \in Seq(Seq(Inner)) /\ Len(script[i].sizes) \in Nat
        BY <1>0, BodyTyped DEF StreamTyped
      <4>. QED
        BY <4>1, UptoIs
    <3>3. decoded' = <<>>
      BY <2>10 DEF decoded
    <3>4. Len(handled') + 1 = i /\ i <= sent' /\ ~ m_delayedResponse' /\ i \in Nat
      BY <1>0, <2>10, <2>11 DEF Receiving, StreamTyped
    <3>5. InChunks(i, 0)'
      BY <2>7, <2>9, <2>10, <2>11, <2>13, <3>1, <3>2, <3>3, <3>4 DEF InChunks
    <3>. QED
      BY <2>11, <3>5 DEF Phases
  <2>. QED
    BY <2>12, <2>13
<1>. QED
  BY <1>0, <1>2, <1>3, <1>4, <1>5, StepAt DEF InHeaders

(* After a request that was handed over, nothing of it is left.            *)
LEMMA OverToIdle ==
    ASSUME StreamTyped, IsSequence(handled), IsSequence(replies), Over, HandledSoFar,
           NEW i \in 1..Len(script), Receiving(i), m_httpHeaders = i,
           (IF m_useRawXML THEN rawXml ELSE receivedData) = Body(i),
           device = <<>>, wire = <<>>,
           isChunked \/ (m_chunkStart = 0 /\ m_decodedRequestBuffer = <<>>)
    PROVE  HandledSoFar' /\ Phases'
<1>1. HandledSoFar' /\ Len(handled') = i /\ Balanced' /\ requestDone
  BY OverIntact
<1>2. /\ m_requestBuffer' = <<>> /\ device' = <<>> /\ wire' = <<>> /\ m_httpHeaders' = 0 /\ pc' = "eventLoop"
      /\ m_chunkStart' = 0 /\ m_decodedRequestBuffer' = <<>> /\ sent' = i
  BY <1>1 DEF requestDone, client, Receiving
<1>3. Idle'
  BY <1>1, <1>2 DEF Idle
<1>. QED
  BY <1>1, <1>3 DEF Phases

(* The same from InBody, where the request may be handled.                 *)
LEMMA InBodyStep ==
    ASSUME StreamTyped, StreamTyped', IsSequence(handled), IsSequence(replies), DelayedDisabled, ~ pipelines,
           NEW i \in 1..sent, InBody(i), HandledSoFar, [Next]_vars
    PROVE  HandledSoFar' /\ Phases'
<1>0. /\ i \in 1..Len(script) /\ ~ send /\ ~ m_delayedResponse /\ i = sent /\ m_httpHeaders = i /\ ~ isChunked
      /\ Body(i) \in Seq(Inner) /\ Len(Body(i)) \in Nat /\ i # 0
  <2>1. i \in 1..Len(script) /\ ~ send /\ ~ m_delayedResponse /\ i = sent /\ m_httpHeaders = i /\ ~ isChunked
    BY SMTT(30), NoSend DEF InBody, Receiving, StreamTyped, isChunked
  <2>2. Body(i) \in Seq(Inner)
    BY <2>1, BodyTyped DEF StreamTyped
  <2>. QED
    BY <2>1, <2>2
<1>1. PICK ld, lw, n : ld = Len(device) /\ lw = Len(wire) /\ n = Len(Body(i))
  OBVIOUS
<1>2. ld \in Nat /\ lw \in Nat /\ n \in Nat /\ m_bytesReceived = n - (ld + lw)
  BY <1>0, <1>1, ComingFacts DEF InBody
<1>3. ASSUME [Next]_vars, ~ Over, UNCHANGED <<client, m_httpHeaders, m_chunkStart, m_decodedRequestBuffer, service>>,
             rawXml' \in Seq(Token), (IF m_useRawXML' THEN rawXml' ELSE <<>>) \o Coming' = Body(i),
             m_bytesReceived' = n - (Len(device') + Len(wire')),
             pc' \in {"eventLoop", "read", "body", "request"},
             pc' = "request" => device' = <<>> /\ wire' = <<>> /\ (m_useRawXML' => m_requestBuffer' = <<>>)
      PROVE  HandledSoFar' /\ Phases'
  <2>1. Body(i)' = Body(i) /\ sent' = sent /\ script' = script
    BY <1>3, Same DEF client
  <2>2. Receiving(i)'
    BY <1>3, <2>1 DEF InBody, Receiving, Balanced, Whole, Owed, service
  <2>3. InBody(i)'
    BY <1>1, <1>3, <2>1, <2>2 DEF InBody
  <2>4. HandledSoFar'
    BY <1>3, HandledKept
  <2>. QED
    BY <2>1, <2>3, <2>4 DEF Phases
<1>4. pc # "request" => ~ Over
  BY OverKeeps
<1>5. CASE receive
  <2>1. /\ Coming' = Coming /\ Len(device') + Len(wire') = ld + lw
        /\ UNCHANGED <<client, assembly, service>> /\ pc = "eventLoop" /\ pc' \in {"eventLoop", "read"}
    BY <1>1, <1>5, ReceiveIs
  <2>. QED
    BY <1>2, <1>3, <1>4, <2>1 DEF InBody, assembly
<1>6. CASE readAll /\ pc = "read"
  <2>1. /\ Coming' = Coming /\ device' = <<>> /\ wire' = wire /\ m_bytesReceived' = m_bytesReceived + ld
        /\ pc' = "body" /\ UNCHANGED <<m_useRawXML, rawXml>>
        /\ UNCHANGED <<client, m_httpHeaders, m_chunkStart, m_decodedRequestBuffer, service>>
    BY <1>0, <1>1, <1>6, ReadFlows DEF readAll
  <2>2. m_bytesReceived' = n - (Len(device') + Len(wire'))
    BY <1>1, <1>2, <2>1
  <2>. QED
    BY <1>3, <1>4, <1>6, <2>1, <2>2 DEF InBody
<1>7. CASE receivePlain /\ pc = "body"
  <2>0. /\ UNCHANGED <<device, wire, m_bytesReceived, m_useRawXML>>
        /\ UNCHANGED <<client, m_httpHeaders, m_chunkStart, m_decodedRequestBuffer, service>>
        /\ pc' = IF m_bytesReceived < n THEN "eventLoop" ELSE "request"
    BY <1>0, <1>1, <1>7 DEF receivePlain, contentLength
  <2>1. pc' = "request" => device' = <<>> /\ wire' = <<>>
    <3>1. pc' = "request" => ld = 0 /\ lw = 0
      BY <1>2, <2>0
    <3>0. PICK d, w : d = device /\ w = wire
      OBVIOUS
    <3>2. d \in Seq(Token) /\ (Len(d) = 0 => d = <<>>)
      BY <3>0 DEF StreamTyped
    <3>3. w \in Seq(Token) /\ (Len(w) = 0 => w = <<>>)
      BY <3>0 DEF StreamTyped
    <3>. QED
      BY <1>1, <2>0, <3>0, <3>1, <3>2, <3>3
  <2>2. CASE m_useRawXML
    <3>1. PICK r, b, d, w : r = rawXml /\ b = m_requestBuffer /\ d = device /\ w = wire
      OBVIOUS
    <3>2. r \in Seq(Token) /\ b \in Seq(Token) /\ d \in Seq(Token) /\ w \in Seq(Token)
      BY <3>1 DEF InBody, StreamTyped
    <3>3. rawXml' = r \o b /\ m_requestBuffer' = <<>> /\ r \o (b \o d \o w) = Body(i)
      BY <1>7, <2>2, <3>1 DEF receivePlain, InBody, Coming
    <3>4. PICK u : u = b \o d
      OBVIOUS
    <3>5. u \in Seq(Token)
      BY <3>2, <3>4
    <3>6. (r \o b) \o (<<>> \o d \o w) = r \o (b \o d \o w)
      <4>1. <<>> \o d = d
        BY <3>2
      <4>2. PICK x : x = d \o w
        OBVIOUS
      <4>3. x \in Seq(Token)
        BY <3>2, <4>2
      <4>4. (r \o b) \o x = r \o (b \o x)
        BY <3>2, <4>3
      <4>5. b \o (d \o w) = (b \o d) \o w
        BY SMTT(30), <3>2, ConcatAssociative
      <4>. QED
        BY <4>1, <4>2, <4>4, <4>5
    <3>7. (IF m_useRawXML' THEN rawXml' ELSE <<>>) \o Coming' = Body(i)
      BY <2>0, <2>2, <3>1, <3>3, <3>6 DEF Coming
    <3>8. rawXml' \in Seq(Token)
      BY <3>2, <3>3
    <3>. QED
      BY <1>1, <1>2, <1>3, <1>4, <1>7, <2>0, <2>1, <3>3, <3>7, <3>8
  <2>3. CASE ~ m_useRawXML
    <3>1. rawXml' = rawXml /\ m_requestBuffer' = m_requestBuffer
      BY <1>7, <2>3 DEF receivePlain
    <3>2. Coming' = Coming
      BY <2>0, <3>1 DEF Coming
    <3>. QED
      BY <1>1, <1>2, <1>3, <1>4, <1>7, <2>0, <2>1, <2>3, <3>1, <3>2 DEF InBody
  <2>. QED
    BY <2>2, <2>3
<1>8. CASE UNCHANGED vars
  <2>1. UNCHANGED <<client, wire, device, pc, assembly, service>>
    BY <1>8 DEF vars
  <2>2. Coming' = Coming
    BY <2>1 DEF Coming, assembly
  <2>3. ~ Over
    BY <2>1, OverKeeps
  <2>. QED
    BY <1>1, <1>2, <1>3, <2>1, <2>2, <2>3 DEF InBody, assembly
<1>9. CASE Over /\ pc = "request"
  <2>1. device = <<>> /\ wire = <<>> /\ (m_useRawXML => m_requestBuffer = <<>>)
    BY <1>9 DEF InBody
  <2>2. (IF m_useRawXML THEN rawXml ELSE receivedData) = Body(i)
    <3>1. PICK r, b : r = rawXml /\ b = m_requestBuffer
      OBVIOUS
    <3>2. r \in Seq(Token) /\ b \in Seq(Token)
      BY <3>1 DEF InBody, StreamTyped
    <3>3. b \o <<>> = b /\ b \o <<>> \o <<>> = b /\ r \o <<>> = r /\ <<>> \o b = b
      BY <3>2
    <3>4. Coming = b
      BY <2>1, <3>1, <3>3 DEF Coming
    <3>. QED
      BY <1>0, <2>1, <3>1, <3>3, <3>4 DEF InBody, receivedData
  <2>. QED
    BY <1>0, <1>9, <2>1, <2>2, OverToIdle DEF InBody
<1>. QED
  BY <1>0, <1>5, <1>6, <1>7, <1>8, <1>9, StepAt DEF InBody

(* The chunk size line that is read is the one of the next chunk.          *)
LEMMA ChunkLine ==
    ASSUME StreamTyped, NEW i \in 1..Len(script), NEW c, InChunks(i, c), nextEOL # 0,
           NEW size, size = IF c < Len(script[i].sizes) THEN script[i].sizes[c + 1] ELSE 0
    PROVE  /\ m_chunkStart \in Nat /\ nextEOL = m_chunkStart + 2 /\ nextEOL <= Len(m_requestBuffer)
           /\ size \in Nat \cup {-1} /\ (size = 0 <=> c = Len(script[i].sizes))
           /\ isSize <=> size # -1
           /\ isSize => sizeLine[1].n = size
<1>1. PICK m, b, e, n, B : /\ m = m_chunkStart /\ b = m_requestBuffer /\ e = nextEOL /\ n = Len(script[i].sizes)
                           /\ B = ChunkedBody(i)
  OBVIOUS
<1>2. n \in Nat /\ c \in 0..n /\ m = Len(Upto(Chunks(i), c))
  BY <1>1, BodyTyped DEF InChunks, StreamTyped
<1>3. /\ m \in Nat /\ m + 2 <= Len(B) /\ B \in Seq(Inner) /\ B[m + 1] = ChunkSize(size) /\ B[m + 2] = Eol
      /\ size \in Nat \cup {-1} /\ (size = 0 <=> c = n)
  <2>1. CASE c < n
    <3>1. c \in 0..(n - 1) /\ size = script[i].sizes[c + 1]
      BY <1>1, <1>2, <2>1
    <3>2. /\ m \in Nat /\ size \in (Nat \ {0}) \cup {-1} /\ B \in Seq(Inner)
          /\ m + 2 < Len(B)
          /\ B[m + 1] = ChunkSize(size) /\ B[m + 2] = Eol
      <4>1. script \in Scripts /\ c \in 0..(Len(script[i].sizes) - 1)
        BY <1>1, <3>1 DEF StreamTyped
      <4>2. m = LengthTo(i, c) /\ size = SizeAfter(i, c)
        BY <1>2, <3>1 DEF LengthTo, SizeAfter
      <4>. QED
        BY ZenonT(60), <1>1, <4>1, <4>2, NextChunkIs
    <3>. QED
      BY SMTT(30), <1>2, <2>1, <3>2
  <2>2. CASE c = n
    <3>1. size = 0 /\ m = Len(Upto(Chunks(i), n))
      BY <1>1, <1>2, <2>2
    <3>2. PICK t : t = Trail(i)
      OBVIOUS
    <3>3. /\ m \in Nat /\ B \in Seq(Inner) /\ Len(B) = m + 1 + Len(t) /\ Len(t) >= 2
          /\ B[m + 1] = ChunkSize(0) /\ B[m + 2] = Eol
      BY <1>1, <3>1, <3>2, LastSizeIs DEF StreamTyped
    <3>4. Len(t) \in Nat
      BY <3>2, EndingIs DEF StreamTyped
    <3>. QED
      BY SMTT(30), <1>2, <2>2, <3>1, <3>3, <3>4
  <2>. QED
    BY <1>2, <2>1, <2>2
<1>4. b \in Seq(Token) /\ \A p \in 1..Len(b) : p \in 1..Len(Coming) /\ Coming[p] = b[p]
  BY <1>1, ComingFacts
<1>5. \A p \in 1..Len(B) : p \in 1..Len(Coming) /\ Coming[p] = B[p]
  BY <1>1 DEF InChunks
<1>6. PICK from : from = m + 1
  OBVIOUS
<1>7. from \in Nat \ {0} /\ e # 0 /\ e = eolFrom(b, from)
  BY <1>1, <1>3, <1>6 DEF nextEOL
<1>8. e \in from..Len(b) /\ b[e] = Eol /\ \A p \in from..(e - 1) : b[p] # Eol
  BY <1>4, <1>7, EolIs
<1>9. b[from] = ChunkSize(size) /\ from \in 1..Len(b)
  <2>1. from \in 1..Len(b) /\ from \in 1..Len(B)
    BY <1>3, <1>6, <1>7, <1>8
  <2>. QED
    BY <1>3, <1>4, <1>5, <1>6, <2>1
<1>10. e # from
  BY <1>8, <1>9 DEF Eol, ChunkSize
<1>11. e = m + 2
  <2>1. PICK q : q = m + 2
    OBVIOUS
  <2>2. q \in 1..Len(b) /\ q \in 1..Len(B) /\ q > from
    BY <1>3, <1>6, <1>8, <1>10, <2>1, <1>4
  <2>3. b[q] = Eol
    BY <1>3, <1>4, <1>5, <2>1, <2>2
  <2>4. ~ q \in from..(e - 1)
    BY <1>8, <2>3
  <2>5. q \in Nat /\ from \in Nat /\ e \in Nat /\ from <= e /\ q = from + 1
    BY SMTT(30), <1>3, <1>6, <1>8, <2>1
  <2>. QED
    BY <1>10, <2>1, <2>4, <2>5
<1>12. PICK l : l = SubSeq(b, from, from)
  OBVIOUS
<1>13. Len(l) = 1 /\ l[1] = ChunkSize(size)
  BY <1>4, <1>9, <1>12
<1>14. sizeLine = l
  <2>1. e - 1 = from
    BY <1>3, <1>6, <1>11
  <2>. QED
    BY <1>1, <1>6, <1>12, <2>1 DEF sizeLine
<1>15. ChunkSize(size).k = "size" /\ ChunkSize(size).n = size
  BY DEF ChunkSize
<1>16. (isSize <=> size # -1) /\ sizeLine[1].n = size
  BY <1>3, <1>13, <1>14, <1>15 DEF isSize
<1>. QED
  BY <1>1, <1>3, <1>8, <1>11, <1>16

(* Steps that take nothing stay in InChunks.                               *)
LEMMA InChunksKept ==
    ASSUME NEW i \in 1..Len(script), NEW c, InChunks(i, c),
           UNCHANGED <<script, sent, handled, m_httpHeaders, m_chunkStart, m_delayedResponse,
                       m_decodedRequestBuffer, m_useRawXML, rawXml>>,
           Coming' = Coming, pc' \in {"eventLoop", "read", "body"},
           replies' = replies \/ (c < Len(script[i].sizes) /\ script[i].sizes[c + 1] = -1)
    PROVE  InChunks(i, c)'
<1>1. /\ Body(i)' = Body(i) /\ ChunkedBody(i)' = ChunkedBody(i) /\ Chunks(i)' = Chunks(i) /\ Datas(i)' = Datas(i)
      /\ decoded' = decoded
  BY Same DEF decoded
<1>2. replies' = replies => Receiving(i)' = Receiving(i)
  BY DEF Receiving, Balanced, Whole, Owed
<1>. QED
  BY <1>1, <1>2 DEF InChunks

(* One more chunk.                                                         *)
LEMMA TakeChunkStep ==
    ASSUME StreamTyped, NEW i \in 1..Len(script), i <= sent, NEW c, InChunks(i, c), takeChunk
    PROVE  InChunks(i, c + 1)'
<1>1. PICK size : size = IF c < Len(script[i].sizes) THEN script[i].sizes[c + 1] ELSE 0
  OBVIOUS
<1>2. PICK m, b, n, B, q : /\ m = m_chunkStart /\ b = m_requestBuffer /\ n = Len(script[i].sizes)
                           /\ B = ChunkedBody(i) /\ q = c + 1
  OBVIOUS
<1>3. nextEOL # 0 /\ isSize /\ sizeLine[1].n > 0 /\ chunkEnd < Len(b)
  BY <1>2 DEF takeChunk
<1>4. m \in Nat /\ nextEOL = m + 2 /\ size \in Nat \cup {-1} /\ size # -1 /\ sizeLine[1].n = size
      /\ (size = 0 <=> c = n)
  BY <1>1, <1>2, <1>3, ChunkLine
<1>5. size \in Nat \ {0} /\ m + size + 3 < Len(b)
  <2>1. chunkEnd = (m + 2) + size + 1
    BY <1>4 DEF chunkEnd
  <2>. QED
    BY <1>3, <1>4, <2>1
<1>6. n \in Nat /\ c \in 0..(n - 1) /\ size = script[i].sizes[c + 1] /\ m = Len(Upto(Chunks(i), c))
  <2>1. n \in Nat /\ c \in 0..n /\ m = Len(Upto(Chunks(i), c))
    BY <1>2, BodyTyped DEF InChunks, StreamTyped
  <2>. QED
    BY <1>1, <1>2, <1>4, <1>5, <2>1
<1>7. PICK d : d = ChunkData(i, q)
  OBVIOUS
<1>8. /\ Len(Upto(Chunks(i), c + 1)) = m + size + 3
      /\ m + size + 3 < Len(B)
      /\ d \in Seq(Inner) /\ Len(d) = size
      /\ \A j \in 1..size, p \in Nat : p = m + 2 + j => B[p] = d[j]
  <2>1. script \in Scripts /\ c \in 0..(Len(script[i].sizes) - 1)
    BY <1>2, <1>6 DEF StreamTyped
  <2>2. m = LengthTo(i, c) /\ size = SizeAfter(i, c) /\ d = DataAfter(i, c) /\ Len(Upto(Chunks(i), c + 1)) = LengthTo(i, c + 1)
    BY <1>2, <1>6, <1>7 DEF LengthTo, SizeAfter, DataAfter
  <2>3. /\ DataAfter(i, c) \in Seq(Inner)
        /\ SizeAfter(i, c) # -1 => Len(DataAfter(i, c)) = SizeAfter(i, c)
        /\ LengthTo(i, c + 1) = LengthTo(i, c) + Len(DataAfter(i, c)) + 3
        /\ LengthTo(i, c) + Len(DataAfter(i, c)) + 3 < Len(ChunkedBody(i))
    BY <2>1, NextChunkIs
  <2>4. \A j \in 1..Len(DataAfter(i, c)), p \in Nat :
          p = LengthTo(i, c) + 2 + j => ChunkedBody(i)[p] = DataAfter(i, c)[j]
    BY <2>1, NextChunkIs
  <2>5. d \in Seq(Inner) /\ Len(d) = size
    BY <1>4, <2>2, <2>3
  <2>6. Len(Upto(Chunks(i), c + 1)) = m + size + 3 /\ m + size + 3 < Len(B)
    BY <1>2, <2>2, <2>3, <2>5
  <2>7. \A j \in 1..size, p \in Nat : p = m + 2 + j => B[p] = d[j]
    BY ONLY <1>2, <2>2, <2>4, <2>5
  <2>. QED
    BY ONLY <2>5, <2>6, <2>7
<1>9. b \in Seq(Token) /\ \A p \in 1..Len(b) : p \in 1..Len(Coming) /\ Coming[p] = b[p]
  BY <1>2, ComingFacts
<1>10. \A p \in 1..Len(B) : p \in 1..Len(Coming) /\ Coming[p] = B[p]
  BY <1>2 DEF InChunks
<1>11. PICK from, to : from = m + 3 /\ to = m + 2 + size
  OBVIOUS
<1>12. PICK x : x = SubSeq(b, from, to)
  OBVIOUS
<1>13. x = d
  <2>1. from \in Nat \ {0} /\ to \in Nat /\ to < Len(b) /\ Len(b) \in Nat /\ to - from + 1 = size /\ from <= to
    BY <1>4, <1>5, <1>9, <1>11
  <2>2. x \in Seq(Token) /\ Len(x) = size
    BY <1>9, <1>12, <2>1
  <2>3. ASSUME NEW j \in 1..size PROVE x[j] = d[j]
    <3>1. PICK p : p = m + 2 + j
      OBVIOUS
    <3>2. p = from + j - 1 /\ p \in from..to /\ p \in 1..Len(b) /\ p \in 1..Len(B) /\ j \in 1..(to - from + 1)
      BY <1>4, <1>5, <1>8, <1>11, <2>1, <3>1
    <3>3. x[j] = b[p]
      <4>1. x[j] = b[from + j - 1]
        BY <1>9, <1>12, <2>1, <3>2
      <4>. QED
        BY <3>2, <4>1
    <3>4. p \in Nat
      BY <3>2
    <3>. QED
      BY <1>8, <1>9, <1>10, <3>1, <3>2, <3>3, <3>4
  <2>4. d \in Seq(Token)
    BY <1>8, SeqMonotonic DEF Inner
  <2>. QED
    BY <1>8, <2>2, <2>3, <2>4
<1>14. decoded' = decoded \o d
  <2>1. nextEOL + 1 = from /\ nextEOL + sizeLine[1].n = to
    BY <1>4, <1>5, <1>11
  <2>. QED
    BY <1>2, <1>12, <1>13, <2>1 DEF takeChunk, decoded
<1>15. decoded \o d = Upto(Datas(i), c + 1)
  <2>1. Datas(i) \in Seq(Seq(Inner)) /\ Len(Datas(i)) = n
    BY <1>2, BodyTyped DEF StreamTyped
  <2>2. PICK D : D = Datas(i)
    OBVIOUS
  <2>3. D \in Seq(Seq(Inner)) /\ c \in 0..(Len(D) - 1)
    BY <1>6, <2>1, <2>2
  <2>4. Upto(D, c + 1) = Upto(D, c) \o D[c + 1]
    BY <2>3, UptoIs
  <2>5. D[c + 1] = d
    <3>1. q \in 1..n
      BY <1>2, <1>6
    <3>. QED
      BY <1>2, <1>7, <2>2, <3>1 DEF Datas
  <2>6. decoded = Upto(D, c)
    BY <2>2 DEF InChunks
  <2>. QED
    BY <2>2, <2>4, <2>5, <2>6
<1>16. m_chunkStart' = m + size + 3
  BY <1>4, <1>5 DEF takeChunk
<1>17. /\ UNCHANGED <<script, sent, handled, replies, m_httpHeaders, m_delayedResponse, pc>> /\ Coming' = Coming
       /\ pc = "body"
  BY DEF takeChunk, client, service, atChunk, Coming
<1>18. /\ ChunkedBody(i)' = ChunkedBody(i) /\ Chunks(i)' = Chunks(i) /\ Datas(i)' = Datas(i)
       /\ Receiving(i)' = Receiving(i)
  BY <1>17, Same DEF Receiving, Balanced, Whole, Owed
<1>19. Receiving(i) /\ Len(Coming) = Len(ChunkedBody(i))
  BY <1>5, <1>6 DEF InChunks
<1>20. c + 1 \in 0..n
  BY <1>6
<1>. QED
  BY <1>2, <1>8, <1>14, <1>15, <1>16, <1>17, <1>18, <1>19, <1>20 DEF InChunks

(* What is coming stays in front of a new request.                         *)
LEMMA SendKeeps ==
    ASSUME StreamTyped, send
    PROVE  \A p \in 1..Len(Coming) : p \in 1..Len(Coming') /\ Coming'[p] = Coming[p]
<1>1. PICK b, d, w, i : b = m_requestBuffer /\ d = device /\ w = wire /\ i = sent + 1
  OBVIOUS
<1>2. i \in 1..Len(script)
  BY <1>1 DEF StreamTyped, send
<1>3. PICK s : s = Stream(i)
  OBVIOUS
<1>4. s \in Seq(Token)
  BY <1>2, <1>3, StreamIs DEF StreamTyped
<1>5. m_requestBuffer' = b /\ device' = d /\ wire' = w \o s
  BY <1>1, <1>3 DEF send, assembly
<1>6. b \in Seq(Token) /\ d \in Seq(Token) /\ w \in Seq(Token)
  BY <1>1 DEF StreamTyped
<1>7. PICK u, X : u = b \o d /\ X = u \o w
  OBVIOUS
<1>8. u \in Seq(Token) /\ X \in Seq(Token)
  BY <1>6, <1>7
<1>9. Coming = X /\ Coming' = X \o s
  <2>1. u \o (w \o s) = (u \o w) \o s
    BY <1>4, <1>6, <1>8
  <2>. QED
    BY <1>1, <1>5, <1>7, <2>1 DEF Coming
<1>10. PICK Y : Y = X \o s
  OBVIOUS
<1>11. Len(Y) = Len(X) + Len(s) /\ \A j \in 1..Len(X) : Y[j] = X[j]
  BY ONLY <1>4, <1>8, <1>10, ConcatIs
<1>12. Len(X) \in Nat /\ Len(s) \in Nat
  BY <1>4, <1>8
<1>. QED
  BY <1>9, <1>10, <1>11, <1>12

(* The size of 0 ends the body: the trailers are next.                     *)
LEMMA LastChunkStep ==
    ASSUME StreamTyped, NEW i \in 1..Len(script), i <= sent, NEW c, InChunks(i, c), lastChunk
    PROVE  InTrailers(i)'
<1>1. PICK size : size = IF c < Len(script[i].sizes) THEN script[i].sizes[c + 1] ELSE 0
  OBVIOUS
<1>2. PICK m, b, n, B, t : /\ m = m_chunkStart /\ b = m_requestBuffer /\ n = Len(script[i].sizes)
                           /\ B = ChunkedBody(i) /\ t = Trail(i)
  OBVIOUS
<1>3. nextEOL # 0 /\ isSize /\ sizeLine[1].n = 0
  BY DEF lastChunk
<1>4. m \in Nat /\ nextEOL = m + 2 /\ m + 2 <= Len(b) /\ size = 0 /\ c = n
  BY <1>1, <1>2, <1>3, ChunkLine
<1>5. n \in Nat /\ m = Len(Upto(Chunks(i), n))
  BY <1>2, <1>4, BodyTyped DEF InChunks, StreamTyped
<1>6. /\ B \in Seq(Inner) /\ Len(B) = m + 1 + Len(t) /\ Len(t) >= 2
      /\ \A j \in 1..Len(t) : B[m + 1 + j] = t[j]
  BY <1>2, <1>5, LastSizeIs DEF StreamTyped
<1>7. t \in Seq(Inner) /\ t \in Seq(Token) /\ Len(t) \in Nat
  <2>1. t \in Seq(Inner) /\ Len(t) \in Nat
    BY <1>2, EndingIs DEF StreamTyped
  <2>. QED
    BY <2>1, SeqMonotonic DEF Inner
<1>8. Receiving(i) /\ Len(Coming) = Len(B)
  BY <1>2, <1>4, <1>5 DEF InChunks
<1>9. Coming' = t
  <2>1. PICK k : k = m + 1
    OBVIOUS
  <2>2. k \in 0..Len(m_requestBuffer)
    BY SMTT(30), <1>2, <1>4, <2>1, ComingFacts
  <2>3. UNCHANGED <<device, wire>> /\ m_requestBuffer' = SubSeq(m_requestBuffer, k + 1, Len(m_requestBuffer))
    <3>1. nextEOL = k + 1
      BY <1>4, <2>1
    <3>. QED
      BY <3>1 DEF lastChunk
  <2>4. Len(Coming) = Len(t) + k
    BY <1>4, <1>6, <1>7, <1>8, <2>1
  <2>5. ASSUME NEW j \in 1..Len(t) PROVE Coming[j + k] = t[j]
    <3>1. PICK p : p = m + 1 + j
      OBVIOUS
    <3>2. p = j + k /\ p \in 1..Len(B)
      BY <1>4, <1>6, <1>7, <2>1, <3>1
    <3>3. Coming[p] = B[p]
      BY <1>2, <3>2 DEF InChunks
    <3>4. B[p] = t[j]
      BY <1>6, <3>1
    <3>. QED
      BY <3>2, <3>3, <3>4
  <2>. QED
    BY <1>7, <2>2, <2>3, <2>4, <2>5, ComingFront
<1>10. decoded = Body(i)
  <2>1. PICK D : D = Datas(i)
    OBVIOUS
  <2>2. D \in Seq(Seq(Inner)) /\ Len(D) = n /\ Body(i) = FlattenSeq(D)
    BY <1>2, <2>1, BodyTyped DEF StreamTyped
  <2>3. Upto(D, Len(D)) = FlattenSeq(D)
    BY <2>2, UptoIs
  <2>4. decoded = Upto(D, n)
    BY <1>4, <2>1 DEF InChunks
  <2>. QED
    BY <2>2, <2>3, <2>4
<1>11. /\ UNCHANGED <<script, sent, handled, replies, m_httpHeaders, m_delayedResponse, pc>> /\ decoded' = decoded
       /\ pc = "body" /\ m_chunkStart' = -1
  BY DEF lastChunk, client, service, atChunk, decoded
<1>12. Body(i)' = Body(i) /\ Trail(i)' = Trail(i) /\ Receiving(i)' = Receiving(i)
  BY <1>11, Same DEF Receiving, Balanced, Whole, Owed
<1>. QED
  BY <1>2, <1>8, <1>9, <1>10, <1>11, <1>12 DEF InTrailers, InChunks

(* From InChunks a step leads to a phase again.                            *)
LEMMA InChunksStep ==
    ASSUME StreamTyped, StreamTyped', IsSequence(handled), IsSequence(replies), DelayedDisabled, ~ pipelines,
           NEW i \in 1..sent, NEW c \in Nat, InChunks(i, c), [Next]_vars
    PROVE  Phases'
<1>0. i \in 1..Len(script) /\ i <= sent /\ ~ m_delayedResponse
  BY SMTT(30) DEF InChunks, StreamTyped
<1>1. isChunked /\ m_chunkStart \in Nat
  <2>1. Chunks(i) \in Seq(Seq(Inner)) /\ Len(Chunks(i)) = Len(script[i].sizes)
    BY <1>0, BodyTyped DEF StreamTyped
  <2>2. Upto(Chunks(i), c) \in Seq(Inner)
    BY <2>1, UptoIs DEF InChunks
  <2>. QED
    BY <1>0, <2>2 DEF InChunks, isChunked
<1>2. ASSUME InChunks(i, c)', sent' = sent PROVE Phases'
  BY <1>2 DEF Phases
<1>3. CASE receive
  <2>1. /\ Coming' = Coming /\ UNCHANGED <<client, assembly, service>> /\ pc' \in {"eventLoop", "read"}
    BY <1>3, ReceiveIs
  <2>. QED
    BY <1>0, <1>2, <2>1, InChunksKept DEF client, assembly, service
<1>4. CASE readAll
  <2>1. Coming' = Coming
    BY <1>4, ReadFlows
  <2>2. pc' = "body"
    BY <1>0, <1>4 DEF readAll, InChunks
  <2>. QED
    BY <1>0, <1>2, <1>4, <2>1, <2>2, InChunksKept DEF readAll, client, service
<1>5. CASE chunkIncomplete \/ UNCHANGED vars
  <2>1. UNCHANGED <<client, wire, device, assembly, service>> /\ pc' \in {"eventLoop", pc}
    BY <1>5 DEF chunkIncomplete, vars
  <2>2. Coming' = Coming
    BY <2>1 DEF Coming, assembly
  <2>3. pc' \in {"eventLoop", "read", "body"}
    BY <2>1 DEF InChunks
  <2>. QED
    BY <1>0, <1>2, <2>1, <2>2, <2>3, InChunksKept DEF client, assembly, service
<1>6. CASE badChunkSize
  <2>1. UNCHANGED <<client, wire, device, assembly, handled, m_delayedResponse>> /\ pc' = "eventLoop"
    BY <1>6 DEF badChunkSize
  <2>2. Coming' = Coming
    BY <2>1 DEF Coming, assembly
  <2>3. PICK size : size = IF c < Len(script[i].sizes) THEN script[i].sizes[c + 1] ELSE 0
    OBVIOUS
  <2>4. nextEOL # 0 /\ ~ isSize
    BY <1>6 DEF badChunkSize
  <2>5. size = -1
    BY <1>0, <2>3, <2>4, ChunkLine
  <2>6. c < Len(script[i].sizes) /\ script[i].sizes[c + 1] = -1
    BY <2>3, <2>5
  <2>. QED
    BY <1>0, <1>2, <2>1, <2>2, <2>6, InChunksKept DEF client, assembly
<1>7. CASE takeChunk
  <2>1. InChunks(i, c + 1)' /\ c + 1 \in Nat
    BY <1>0, <1>7, TakeChunkStep
  <2>2. sent' = sent
    BY <1>7 DEF takeChunk, client
  <2>. QED
    BY <2>1, <2>2 DEF Phases
<1>8. CASE lastChunk
  <2>1. InTrailers(i)'
    BY <1>0, <1>8, LastChunkStep
  <2>2. sent' = sent
    BY <1>8 DEF lastChunk, client
  <2>. QED
    BY <2>1, <2>2 DEF Phases
<1>9. CASE send
  <2>1. c < Len(script[i].sizes) /\ script[i].sizes[c + 1] = -1
    BY <1>9, <1>0, NoSend DEF InChunks
  <2>2. /\ UNCHANGED <<script, handled, m_httpHeaders, m_chunkStart, m_delayedResponse,
                       m_decodedRequestBuffer, m_useRawXML, rawXml, pc>>
        /\ sent' = sent + 1
    BY <1>9 DEF send, assembly, service
  <2>3. /\ Body(i)' = Body(i) /\ ChunkedBody(i)' = ChunkedBody(i) /\ Chunks(i)' = Chunks(i) /\ Datas(i)' = Datas(i)
        /\ decoded' = decoded
    BY <2>2, Same DEF decoded
  <2>4. \A p \in 1..Len(ChunkedBody(i)) : p \in 1..Len(Coming') /\ Coming'[p] = ChunkedBody(i)[p]
    BY <1>9, SendKeeps DEF InChunks
  <2>5. i <= sent' /\ i \in 1..sent'
    BY <1>0, <2>2 DEF StreamTyped
  <2>6. InChunks(i, c)'
    BY <2>1, <2>2, <2>3, <2>4, <2>5 DEF InChunks
  <2>. QED
    BY <2>5, <2>6 DEF Phases
<1>. QED
  BY <1>0, <1>1, <1>3, <1>4, <1>5, <1>6, <1>7, <1>8, <1>9, StepAt DEF InChunks

(* When the trail is read nothing more is coming.                          *)
LEMMA TrailEnds ==
    ASSUME StreamTyped, NEW i \in 1..Len(script), Coming = Trail(i), blankLine(m_requestBuffer) # 0
    PROVE  device = <<>> /\ wire = <<>>
<1>1. PICK b, d, w : b = m_requestBuffer /\ d = device /\ w = wire
  OBVIOUS
<1>2. /\ b \in Seq(Token) /\ d \in Seq(Token) /\ w \in Seq(Token)
      /\ Len(Coming) = Len(b) + Len(d) + Len(w)
      /\ \A p \in 1..Len(b) : p \in 1..Len(Coming) /\ Coming[p] = b[p]
      /\ Len(b) \in Nat /\ Len(d) \in Nat /\ Len(w) \in Nat
  BY <1>1, ComingFacts
<1>3. PICK p \in 1..(Len(b) - 1) : b[p] = Eol /\ b[p + 1] = Eol
  BY <1>1, <1>2, BlankIs
<1>4. p \in 1..Len(b) /\ p + 1 \in 1..Len(b)
  BY <1>2
<1>5. Coming[p] = Eol /\ Coming[p + 1] = Eol
  BY <1>2, <1>3, <1>4
<1>6. Len(b) = Len(Coming)
  <2>1. PICK t, e, x : t = Trail(i) /\ e = Eol /\ x = Trailer(i)
    OBVIOUS
  <2>2. t = <<e, e>> \/ t = <<e, x, e, e>>
    BY <2>1, EndingIs DEF StreamTyped
  <2>3. x # e
    BY <2>1 DEF Eol, Trailer
  <2>4. t[p] = e /\ t[p + 1] = e /\ Len(t) = Len(b) + Len(d) + Len(w)
    BY <1>2, <1>5, <2>1
  <2>5. PICK lb, ld, lw, lt, q : lb = Len(b) /\ ld = Len(d) /\ lw = Len(w) /\ lt = Len(t) /\ q = p
    OBVIOUS
  <2>6. lb \in Nat /\ ld \in Nat /\ lw \in Nat /\ q \in Nat /\ q >= 1 /\ lb >= q + 1 /\ lt = lb + ld + lw
    <3>1. q \in 1..(lb - 1) /\ lt = lb + ld + lw
      BY <1>3, <2>4, <2>5
    <3>2. lb \in Nat /\ ld \in Nat /\ lw \in Nat
      BY <1>2, <2>5
    <3>. QED
      BY ONLY <3>1, <3>2
  <2>7. t[q] = e /\ t[q + 1] = e
    BY <2>4, <2>5
  <2>8. lt = 2 \/ (lt = 4 /\ t[2] = x)
    BY <2>2, <2>5
  <2>9. lb = lt
    <3>1. lt = 4 /\ t[2] = x => q # 2 /\ q + 1 # 2
      BY ONLY <2>3, <2>7
    <3>. QED
      BY ONLY <2>6, <2>8, <3>1
  <2>. QED
    BY <2>1, <2>5, <2>9
<1>7. Len(d) = 0 /\ Len(w) = 0
  BY <1>2, <1>6
<1>. QED
  BY <1>1, <1>2, <1>7

(* The same from InTrailers, where the request may be handled.             *)
LEMMA InTrailersStep ==
    ASSUME StreamTyped, StreamTyped', IsSequence(handled), IsSequence(replies), DelayedDisabled, ~ pipelines,
           HandledSoFar, NEW i \in 1..sent, InTrailers(i), [Next]_vars
    PROVE  HandledSoFar' /\ Phases'
<1>0. i \in 1..Len(script) /\ ~ send /\ ~ m_delayedResponse /\ i = sent
  BY NoSend DEF InTrailers, Receiving, StreamTyped
<1>1. isChunked /\ m_chunkStart = -1
  BY <1>0 DEF InTrailers, isChunked, StreamTyped
<1>2. ASSUME [Next]_vars, ~ Over, Coming' = Coming,
             UNCHANGED <<script, sent, m_httpHeaders, m_chunkStart, m_decodedRequestBuffer, m_useRawXML, rawXml,
                         handled, replies, m_delayedResponse>>,
             pc' \in {"eventLoop", "read", "body", "request"},
             pc' = "request" => device' = <<>> /\ wire' = <<>>
      PROVE  HandledSoFar' /\ Phases'
  <2>1. Body(i)' = Body(i) /\ Trail(i)' = Trail(i) /\ decoded' = decoded
    BY <1>2, Same DEF decoded
  <2>2. Receiving(i)' = Receiving(i)
    BY <1>2 DEF Receiving, Balanced, Whole, Owed
  <2>3. InTrailers(i)'
    BY <1>2, <2>1, <2>2 DEF InTrailers
  <2>4. HandledSoFar'
    BY <1>2, HandledKept
  <2>. QED
    BY <1>2, <2>3, <2>4 DEF Phases
<1>3. pc # "request" => ~ Over
  BY OverKeeps
<1>4. CASE receive
  <2>1. /\ Coming' = Coming /\ UNCHANGED <<client, assembly, service>> /\ pc = "eventLoop" /\ pc' \in {"eventLoop", "read"}
    BY <1>4, ReceiveIs
  <2>. QED
    BY <1>2, <1>3, <2>1 DEF client, assembly, service
<1>5. CASE readAll
  <2>1. Coming' = Coming
    BY <1>5, ReadFlows
  <2>2. pc' = "body" /\ pc = "read"
    BY <1>0, <1>5 DEF readAll, InTrailers
  <2>. QED
    BY <1>2, <1>3, <1>5, <2>1, <2>2 DEF readAll, client, service
<1>6. CASE endOfTrailers
  <2>1. /\ UNCHANGED <<client, wire, device, assembly, service>> /\ pc = "body"
        /\ pc' \in {"eventLoop", "request"} /\ (pc' = "request" => blankLine(m_requestBuffer) # 0)
    BY <1>6 DEF endOfTrailers
  <2>2. Coming' = Coming
    BY <2>1 DEF Coming, assembly
  <2>3. pc' = "request" => device' = <<>> /\ wire' = <<>>
    BY <1>0, <2>1, TrailEnds DEF InTrailers
  <2>. QED
    BY <1>2, <1>3, <2>1, <2>2, <2>3 DEF client, assembly, service
<1>7. CASE UNCHANGED vars
  <2>1. UNCHANGED <<client, wire, device, pc, assembly, service>>
    BY <1>7 DEF vars
  <2>2. Coming' = Coming
    BY <2>1 DEF Coming, assembly
  <2>3. ~ Over
    BY <2>1, OverKeeps
  <2>. QED
    BY <1>2, <2>1, <2>2, <2>3 DEF InTrailers, client, assembly, service
<1>8. CASE Over /\ pc = "request"
  <2>1. device = <<>> /\ wire = <<>> /\ Receiving(i) /\ m_httpHeaders = i
    BY <1>8 DEF InTrailers
  <2>2. (IF m_useRawXML THEN rawXml ELSE receivedData) = Body(i)
    BY <1>1 DEF InTrailers, decoded, receivedData
  <2>. QED
    BY <1>0, <1>1, <1>8, <2>1, <2>2, OverToIdle
<1>. QED
  BY <1>0, <1>1, <1>4, <1>5, <1>6, <1>7, <1>8, StepAt DEF InTrailers

(* The client of a connection does not change.                             *)
LEMMA ClientKept == ASSUME [Next]_vars PROVE script' = script /\ pipelines' = pipelines
<1>1. CASE Over
  BY <1>1 DEF Over, endRequest, refuse, handleFileDownload, dropTruncated, rejectFault, makeCall, makeDelayedCall,
              atCall, requestDone, client
<1>. QED
  BY <1>1, StepAt
  DEF send, receive, readyRead, sendDelayedReply, readAll, headersIncomplete, parseHeaders, receivePlain, chunkIncomplete,
      takeChunk, lastChunk, badChunkSize, endOfTrailers, vars, client

(* Every step keeps IntactInv.                                             *)
LEMMA IntactStep == OrderInv /\ OrderInv' /\ DelayedDisabled /\ IntactInv /\ [Next]_vars => IntactInv'
<1>. SUFFICES ASSUME OrderInv, OrderInv', DelayedDisabled, ~ pipelines', IntactInv, [Next]_vars
              PROVE  HandledSoFar' /\ Phases'
  BY DEF IntactInv
<1>2. pipelines' = pipelines
  BY ClientKept
<1>3. ~ pipelines /\ HandledSoFar /\ Phases
  BY <1>2 DEF IntactInv
<1>4. StreamTyped /\ StreamTyped' /\ IsSequence(handled) /\ IsSequence(replies)
  BY DEF OrderInv
<1>5. pc # "request" => HandledSoFar'
  BY <1>3, HandledKept, OverKeeps
<1>6. CASE Idle
  BY <1>3, <1>4, <1>5, <1>6, IdleStep DEF Idle
<1>7. ASSUME NEW i \in 1..sent, InHeaders(i) PROVE HandledSoFar' /\ Phases'
  BY <1>3, <1>4, <1>5, <1>7, InHeadersStep DEF InHeaders
<1>8. ASSUME NEW i \in 1..sent, InBody(i) PROVE HandledSoFar' /\ Phases'
  BY <1>3, <1>4, <1>8, InBodyStep
<1>9. ASSUME NEW i \in 1..sent, NEW c \in Nat, InChunks(i, c) PROVE HandledSoFar' /\ Phases'
  BY <1>3, <1>4, <1>5, <1>9, InChunksStep DEF InChunks
<1>10. ASSUME NEW i \in 1..sent, InTrailers(i) PROVE HandledSoFar' /\ Phases'
  BY <1>3, <1>4, <1>10, InTrailersStep
<1>. QED
  BY <1>3, <1>6, <1>7, <1>8, <1>9, <1>10 DEF Phases

(* Both invariants hold when the connection starts.                        *)
LEMMA IntactAtFirst == Init => OrderInv /\ IntactInv
<1>. SUFFICES ASSUME Init PROVE OrderInv /\ IntactInv
  OBVIOUS
<1>1. script \in Scripts /\ Len(script) \in Nat
  BY SocketAssumption DEF Init
<1>2. Coming = <<>>
  BY DEF Init, Coming
<1>3. StreamTyped /\ Ascending /\ Ahead
  BY <1>1, <1>2 DEF Init, StreamTyped, Ascending, Ahead
<1>4. replies = <<>> /\ handled = <<>> /\ <<>> \in Seq({})
  BY DEF Init
<1>5. OrderInv
  BY <1>3, <1>4 DEF Init, OrderInv, RepliesBehind, OwesOne, HeadersOnce, IsSequence, OneReplyEach
<1>6. HandledSoFar
  BY <1>4 DEF HandledSoFar
<1>7. Idle
  BY <1>4 DEF Init, Idle, Balanced, Owed
<1>. QED
  BY <1>5, <1>6, <1>7 DEF IntactInv, Phases

(* However the network cuts up the requests of a client that waits for its *)
(* replies, and however long they are, the service is handed the headers   *)
(* and the very data of each, once and in order.                           *)
THEOREM RequestsArriveIntact == Spec => []RequestsIntact
<1>1. IntactInv => RequestsIntact
  BY DEF IntactInv, HandledSoFar, RequestsIntact
<1>. QED
  BY <1>1, IntactAtFirst, OrderStep, IntactStep, DelayedInductive, PTL DEF Spec

---------------------------------------------------------------------------
(* To a client that behaves well, every request handled has its reply, but *)
(* one may owe a delayed response.                                         *)
Exchanged ==
    /\ Len(handled) = Len(replies) + Owed /\ Len(handled) <= sent
    /\ pc = "request" => Len(handled) + 1 = sent

(* In every phase what was handled is answered or owed.                    *)
LEMMA AllAnswered ==
    ASSUME WellBehaved, StreamTyped, HandledSoFar, Phases
    PROVE  Exchanged
<1>0. sent \in Nat /\ 1..sent \subseteq 1..Len(script)
  BY DEF StreamTyped
<1>1. CASE Idle
  BY <1>0, <1>1 DEF Idle, Balanced, Exchanged, WellBehaved, Whole
<1>2. ASSUME NEW i \in 1..sent, Receiving(i) PROVE Exchanged
  BY <1>0, <1>2 DEF Receiving, Balanced, Exchanged, WellBehaved, Whole
<1>3. ASSUME NEW i \in 1..sent, NEW c \in Nat, InChunks(i, c) PROVE Receiving(i)
  <2>0. i \in 1..Len(script) /\ script \in Scripts
    BY <1>0 DEF StreamTyped
  <2>1. i \in DOMAIN script /\ Len(script[i].sizes) \in Nat
    BY <2>0, BodyTyped, SocketAssumption
  <2>2. script[i].chunked
    BY <1>3 DEF InChunks
  <2>3. ~ (c < Len(script[i].sizes) /\ script[i].sizes[c + 1] = -1)
    <3>1. PICK z, n : z = script[i].sizes /\ n = Len(z)
      OBVIOUS
    <3>2. z \in Seq((Nat \ {0}) \cup {-1}) /\ n \in Nat
      <4>1. script[i].sizes \in Seq((Nat \ {0}) \cup {-1})
        BY <2>0, ScriptTyped DEF Request
      <4>. QED
        BY <3>1, <4>1
    <3>3. c < n => c + 1 \in DOMAIN z
      BY <3>1, <3>2
    <3>4. \A q \in DOMAIN z : z[q] # -1
      BY <2>1, <2>2, <3>1 DEF WellBehaved
    <3>. QED
      BY <3>1, <3>3, <3>4
  <2>. QED
    BY <1>3, <2>3 DEF InChunks
<1>. QED
  BY <1>1, <1>2, <1>3 DEF Phases, InHeaders, InBody, InTrailers

(* Every request of a client that behaves well, once it was handled, is    *)
(* answered or will be by the delayed response its service owes            *)
(* (KDSoapServerSocket::handleRequest()).                                  *)
THEOREM HandledAreAnswered == Spec => []HandledIsAnswered
<1>1. OrderInv /\ IntactInv => HandledIsAnswered
  <2>1. OrderInv /\ IntactInv /\ WellBehaved => Exchanged
    BY AllAnswered DEF OrderInv, IntactInv, WellBehaved
  <2>. QED
    BY <2>1 DEF Exchanged, Owed, HandledIsAnswered, EveryRequestIsAnswered
<1>. QED
  BY <1>1, IntactAtFirst, OrderStep, IntactStep, DelayedInductive, PTL DEF Spec

(* Every step is a step of the exchange or a stutter.                      *)
LEMMA ExchangeStep ==
    ASSUME WellBehaved => Exchanged, WellBehaved' => Exchanged', StreamTyped,
           IsSequence(handled), IsSequence(replies), [Next]_vars
    PROVE  [Exchange!Next]_(Exchange!vars)
<1>. USE DEF Exchange!Next, Exchange!vars, Exchange!Ask, Exchange!Handle, Exchange!AnswerLater
<1>w. WellBehaved' = WellBehaved
  BY ClientKept DEF WellBehaved
<1>n. CASE ~ WellBehaved
  BY <1>w, <1>n DEF promised
<1>. SUFFICES ASSUME WellBehaved PROVE [Exchange!Next]_(Exchange!vars)
  BY <1>n
<1>p. /\ promised(sent) = sent /\ promised(Len(handled)) = Len(handled) /\ promised(Len(replies)) = Len(replies)
      /\ promised(sent)' = sent' /\ promised(Len(handled))' = Len(handled')
      /\ promised(Len(replies))' = Len(replies')
  BY <1>w DEF promised
<1>. Exchanged /\ Exchanged' /\ ~ pipelines
  BY <1>w DEF WellBehaved
<1>. USE <1>p
<1>0. Len(handled) \in Nat /\ Len(replies) \in Nat /\ sent \in Nat
  BY AppendIs DEF StreamTyped
<1>1. Owed \in {0, 1} /\ (m_delayedResponse => Owed = 1)
  BY DEF Owed
<1>2. CASE UNCHANGED <<sent, handled, replies>>
  BY <1>2
<1>3. CASE send
  <2>1. sent' = sent + 1 /\ handled' = handled /\ replies' = replies /\ Len(replies) >= sent
    BY <1>3 DEF send, service
  <2>2. sent = Len(replies)
    BY <1>0, <1>1, <2>1 DEF Exchanged
  <2>. QED
    BY <2>1, <2>2
<1>4. CASE m_delayedResponse /\ sendDelayedReply
  <2>1. PICK r : write(r)
    BY <1>4 DEF sendDelayedReply
  <2>2. Len(replies') = Len(replies) + 1
    BY <2>1, AppendIs DEF write
  <2>3. sent' = sent /\ handled' = handled
    BY <1>4 DEF sendDelayedReply, client
  <2>4. Len(replies) < Len(handled)
    BY <1>0, <1>1, <1>4 DEF Exchanged
  <2>. QED
    BY <2>2, <2>3, <2>4
<1>5. CASE Over /\ pc = "request"
  <2>1. sent' = sent
    BY <1>5 DEF Over, endRequest, refuse, handleFileDownload, dropTruncated, rejectFault, makeCall, makeDelayedCall,
                atCall, requestDone, client
  <2>2. PICK data : hand(data)
    <3>1. PICK data : (IF m_useRawXML THEN rawXml ELSE receivedData) = data
      OBVIOUS
    <3>. QED
      BY <1>5, <3>1, OverHands
  <2>3. Len(handled') = Len(handled) + 1
    BY <2>2, AppendIs DEF hand
  <2>4. replies' = replies \/ Len(replies') = Len(replies) + 1
    <3>1. replies' = replies \/ \E r : write(r)
      BY <1>5, OverReplies
    <3>. QED
      BY <3>1, AppendIs DEF write
  <2>5. Len(handled) < sent
    BY <1>0, <1>5 DEF Exchanged
  <2>. QED
    BY <2>1, <2>3, <2>4, <2>5
<1>6. ~ badChunkSize
  <2>1. ASSUME badChunkSize PROVE FALSE
    <3>1. PICK r : write(r)
      BY <2>1 DEF badChunkSize
    <3>2. Len(replies') = Len(replies) + 1
      BY <3>1, AppendIs DEF write
    <3>3. handled' = handled /\ Owed' = Owed
      BY <2>1 DEF badChunkSize, Owed
    <3>. QED
      BY <1>0, <1>1, <3>2, <3>3 DEF Exchanged
  <2>. QED
    BY <2>1
<1>7. CASE receive
  BY <1>2, <1>7, ReceiveIs DEF client, service
<1>8. CASE readAll \/ headersIncomplete \/ parseHeaders \/ receivePlain \/ chunkIncomplete \/ takeChunk \/ lastChunk
           \/ endOfTrailers \/ UNCHANGED vars
  <2>1. UNCHANGED <<sent, handled, replies>>
    BY <1>8 DEF readAll, headersIncomplete, parseHeaders, receivePlain, chunkIncomplete, takeChunk, lastChunk,
                endOfTrailers, vars, client, service
  <2>. QED
    BY <1>2, <2>1
<1>. QED
  BY <1>3, <1>4, <1>5, <1>6, <1>7, <1>8, StepAt

(* The connection of such a client implements KDSoapExchange, but for its  *)
(* fairness: a request is asked when all before it are answered, handled   *)
(* when it was asked, and answered when it was handled, once               *)
(* (KDSoapServerSocket::slotReadyRead() and sendDelayedReply()).           *)
THEOREM ExchangeImplemented == Spec => Exchange!Safety
<1>1. Init => Exchange!Init
  BY DEF Init, Exchange!Init, promised
<1>2. OrderInv /\ IntactInv /\ WellBehaved => Exchanged
  BY AllAnswered DEF OrderInv, IntactInv, WellBehaved
<1>3. OrderInv /\ IntactInv /\ OrderInv' /\ IntactInv' /\ [Next]_vars => [Exchange!Next]_(Exchange!vars)
  <2>1. ASSUME OrderInv, IntactInv, OrderInv', IntactInv', [Next]_vars
        PROVE  [Exchange!Next]_(Exchange!vars)
    <3>1. WellBehaved => Exchanged
      BY <1>2, <2>1
    <3>2. WellBehaved' => Exchanged'
      BY <1>2, <2>1, PTL
    <3>. QED
      BY <2>1, <3>1, <3>2, ExchangeStep DEF OrderInv
  <2>. QED
    BY <2>1
<1>. QED
  BY <1>1, <1>3, IntactAtFirst, OrderStep, IntactStep, DelayedInductive, PTL DEF Spec, Exchange!Safety

---------------------------------------------------------------------------
(* Downloads.  The size of a file that determineFileRanges() is given as   *)
(* an int is right up to IntMax, and negative for as many sizes again.     *)
(* Adding a gap to the end of a range must not leave an int either.        *)
FilesFit == \A size \in FileSizes : Fits(size)

(* What is said of one download, and of the bytes asked for and served.    *)
Serves(h, size, reply, asked, bytes) ==
    LET length == Total([i \in DOMAIN reply.body |-> reply.body[i].size])
        served == {bytes[i] : i \in DOMAIN bytes}
        sane == Len(h.specs) <= MaxSpecs /\ \A i \in DOMAIN h.specs : WellFormed(h.specs[i])
    IN /\ reply.length = length \/ length > IntMax
       /\ \A i \in 1..(Len(bytes) - 1) : bytes[i] < bytes[i + 1]
       /\ Ignored(h) => reply.status \in {"200", "204"}
       /\ reply.status \in {"200", "204"} => Len(bytes) = size
       /\ reply.status = "204" => size = 0 \/ size > IntMax
       /\ reply.status = "206" =>
            /\ sane /\ asked \subseteq served /\ served # 0..(size - 1)
            /\ \A b \in served \ asked : \E a \in asked, c \in asked :
                  a < b /\ b < c /\ c - a <= multiPartOverhead + 1
       /\ reply.status = "416" => ~ sane \/ asked = {} \/ size > IntMax

ServedRight(h, size, reply) ==
    Serves(h, size, reply, UNION {Asked(h.specs[i], size) : i \in DOMAIN h.specs},
           FlattenSeq([i \in DOMAIN reply.body |-> reply.body[i].bytes]))

(* The bytes a spec asks for.                                              *)
LEMMA AskedIs ==
    ASSUME NEW spec, SpecOk(spec), NEW size \in Nat, NEW b
    PROVE  b \in Asked(spec, size) <=> b \in Int /\ FirstAsked(spec, size) <= b /\ b <= LastAsked(spec, size)
<1>1. PICK x, y : x = spec[1] /\ y = spec[2]
  OBVIOUS
<1>2. x \in Int /\ y \in Int /\ x >= -1 /\ y >= -1
  <2>1. Len(spec) = 2 /\ spec \in Seq(Nat \cup {-1})
    BY DEF SpecOk, WellFormed
  <2>2. PICK T : T = Nat \cup {-1}
    OBVIOUS
  <2>3. spec \in Seq(T) /\ Len(spec) = 2
    BY <2>1, <2>2
  <2>4. spec[1] \in T /\ spec[2] \in T
    BY <2>3
  <2>. QED
    BY <1>1, <2>2, <2>4
<1>3. PICK first, last : first = FirstAsked(spec, size) /\ last = LastAsked(spec, size)
  OBVIOUS
<1>4. first \in Nat /\ last \in Int /\ last < size
  BY <1>3, RequestedIs
<1>5. b \in Asked(spec, size) <=>
        /\ b \in 0..(size - 1)
        /\ IF x < 0 THEN b >= size - y ELSE x <= b /\ (y < 0 \/ (b <= y /\ x <= y))
  BY <1>1 DEF Asked
<1>6. CASE x < 0
  <2>1. first = Max({0, size - y}) /\ last = size - 1
    BY <1>1, <1>3, <1>6, Zenon DEF FirstAsked, LastAsked
  <2>2. first = IF 0 >= size - y THEN 0 ELSE size - y
    <3>1. 0 \in Int /\ size - y \in Int
      BY <1>2
    <3>. QED
      BY <2>1, <3>1, MaxOfTwo
  <2>. QED
    BY <1>2, <1>3, <1>4, <1>5, <1>6, <2>1, <2>2
<1>7. CASE ~ x < 0
  <2>1. first = x
    <3>1. first = Max({0, x})
      BY <1>1, <1>3, <1>7, Zenon DEF FirstAsked
    <3>2. 0 \in Int
      OBVIOUS
    <3>. QED
      BY <1>2, <1>7, <3>1, <3>2, MaxOfTwo
  <2>2. CASE y < 0
    <3>1. last = size - 1
      BY <1>1, <1>3, <2>2, Zenon DEF LastAsked
    <3>. QED
      BY <1>2, <1>3, <1>4, <1>5, <1>7, <2>1, <2>2, <3>1
  <2>3. CASE ~ y < 0
    <3>1. last = Min({y, size - 1})
      BY <1>1, <1>3, <1>7, <2>3, Zenon DEF LastAsked
    <3>2. last = IF y <= size - 1 THEN y ELSE size - 1
      <4>1. size - 1 \in Int
        OBVIOUS
      <4>. QED
        BY <1>2, <3>1, <4>1, MinOfTwo
    <3>. QED
      BY <1>2, <1>3, <1>4, <1>5, <1>7, <2>1, <2>3, <3>2
  <2>. QED
    BY <2>2, <2>3
<1>. QED
  BY <1>6, <1>7

(* A download that is right as DownloadOk says is right.                   *)
LEMMA ServedIs ==
    ASSUME NEW h, h \in RangeHeader, NEW size \in Nat, Fits(size)
    PROVE  ServedRight(h, size, Download(h, size))
<1>1. PICK reply, bytes, asked, served, specs :
        /\ reply = Download(h, size) /\ specs = h.specs
        /\ bytes = BytesOf(reply.body)
        /\ asked = UNION {Asked(specs[i], size) : i \in DOMAIN specs}
        /\ served = {bytes[i] : i \in DOMAIN bytes}
  OBVIOUS
<1>2. DownloadOk(reply, h, size)
  BY <1>1, DownloadIs
<1>3. /\ reply.length = SizeOf(reply.body) \/ SizeOf(reply.body) > IntMax
      /\ bytes \in Seq(Int) /\ Rising(bytes)
      /\ Ignored(h) => reply.status \in {"200", "204"}
      /\ reply.status \in {"200", "204"} => Len(bytes) = size
      /\ reply.status = "204" => size = 0 \/ size > IntMax
      /\ reply.status = "206" => Sane(h) /\ Answers(bytes, specs, size)
      /\ reply.status = "416" => ~ Sane(h) \/ size > IntMax \/ \A b \in Int : ~ Wanted(specs, size, b)
  BY <1>1, <1>2, Zenon DEF DownloadOk
<1>4. DOMAIN specs = 1..Len(specs)
  <2>1. PICK T : T = Seq(Nat \cup {-1})
    OBVIOUS
  <2>2. specs \in Seq(T)
    BY <1>1, <2>1 DEF RangeHeader
  <2>. QED
    BY <2>2
<1>5. ASSUME Sane(h), NEW b PROVE b \in asked <=> b \in Int /\ Wanted(specs, size, b)
  <2>1. ASSUME NEW i \in 1..Len(specs) PROVE SpecOk(specs[i])
    <3>1. PICK T : T = Seq(Nat \cup {-1})
      OBVIOUS
    <3>2. specs \in Seq(T)
      BY <1>1, <3>1 DEF RangeHeader
    <3>3. specs[i] \in T
      BY <3>2
    <3>4. WellFormed(specs[i])
      BY <1>1, <1>4, <1>5 DEF Sane
    <3>. QED
      BY <3>1, <3>3, <3>4 DEF SpecOk
  <2>2. b \in asked <=> \E i \in 1..Len(specs) : b \in Asked(specs[i], size)
    BY <1>1, <1>4, Zenon
  <2>3. \A i \in 1..Len(specs) :
          b \in Asked(specs[i], size) <=>
            b \in Int /\ FirstAsked(specs[i], size) <= b /\ b <= LastAsked(specs[i], size)
    BY <2>1, AskedIs
  <2>. QED
    BY <2>2, <2>3, Zenon DEF Wanted
<1>6. DOMAIN bytes = 1..Len(bytes) /\ \A i \in 1..Len(bytes) : bytes[i] \in Int
  BY <1>3
<1>7. ASSUME reply.status = "206"
      PROVE  /\ Sane(h) /\ asked \subseteq served /\ served # 0..(size - 1)
             /\ \A b \in served \ asked : \E a \in asked, c \in asked :
                   a < b /\ b < c /\ c - a <= multiPartOverhead + 1
  <2>1. Sane(h) /\ Answers(bytes, specs, size)
    BY <1>3, <1>7
  <2>2. asked \subseteq served
    <3>. SUFFICES ASSUME NEW b \in asked PROVE b \in served
      OBVIOUS
    <3>1. b \in Int /\ Wanted(specs, size, b)
      BY <1>5, <2>1
    <3>2. PICK i \in 1..Len(bytes) : bytes[i] = b
      BY <2>1, <3>1 DEF Answers
    <3>. QED
      BY <1>1, <1>6, <3>2
  <2>3. served # 0..(size - 1)
    <3>1. PICK b \in 0..(size - 1) : \A i \in 1..Len(bytes) : bytes[i] # b
      BY <2>1 DEF Answers
    <3>2. b \notin served
      BY <1>1, <1>6, <3>1
    <3>. QED
      BY <3>1, <3>2
  <2>4. ASSUME NEW b \in served \ asked
        PROVE  \E a \in asked, c \in asked : a < b /\ b < c /\ c - a <= multiPartOverhead + 1
    <3>1. PICK i \in 1..Len(bytes) : bytes[i] = b
      BY <1>1, <1>6
    <3>2. b \in Int
      BY <1>6, <3>1
    <3>3. ~ Wanted(specs, size, b)
      BY <1>5, <2>1, <3>2
    <3>4. PICK a \in Int, e \in Int : /\ Wanted(specs, size, a) /\ Wanted(specs, size, e)
                                      /\ a < b /\ b < e /\ e - a <= multiPartOverhead + 1
      BY <2>1, <3>1, <3>3 DEF Answers
    <3>5. a \in asked /\ e \in asked
      BY <1>5, <2>1, <3>4
    <3>. QED
      BY <3>4, <3>5
  <2>. QED
    BY <2>1, <2>2, <2>3, <2>4
<1>8. ASSUME reply.status = "416" PROVE ~ Sane(h) \/ asked = {} \/ size > IntMax
  <2>1. CASE Sane(h) /\ \A b \in Int : ~ Wanted(specs, size, b)
    BY <1>5, <2>1
  <2>. QED
    BY <1>3, <1>8, <2>1
<1>9. \A i \in 1..(Len(bytes) - 1) : bytes[i] < bytes[i + 1]
  BY <1>3 DEF Rising
<1>10. bytes = FlattenSeq([i \in DOMAIN reply.body |-> reply.body[i].bytes])
  BY <1>1, Zenon DEF BytesOf
<1>11. \/ reply.length = Total([i \in DOMAIN reply.body |-> reply.body[i].size])
       \/ Total([i \in DOMAIN reply.body |-> reply.body[i].size]) > IntMax
  BY <1>3, Zenon DEF SizeOf
<1>12. Serves(h, size, reply, asked, bytes)
  <2>1. /\ Ignored(h) => reply.status \in {"200", "204"}
        /\ reply.status \in {"200", "204"} => Len(bytes) = size
        /\ reply.status = "204" => size = 0 \/ size > IntMax
    BY <1>3
  <2>2. Sane(h) <=> (Len(h.specs) <= MaxSpecs /\ \A i \in DOMAIN h.specs : WellFormed(h.specs[i]))
    BY Zenon DEF Sane
  <2>. QED
    BY <1>1, <1>7, <1>8, <1>9, <1>11, <2>1, <2>2, Zenon DEF Serves
<1>13. asked = UNION {Asked(h.specs[i], size) : i \in DOMAIN h.specs}
  BY <1>1
<1>14. ServedRight(h, size, reply)
  BY <1>10, <1>12, <1>13 DEF ServedRight
<1>. QED
  BY <1>1, <1>14, Zenon

(* Every download is what Download() makes of its request.                 *)
DownloadsInv ==
    /\ IsSequence(downloads)
    /\ \A j \in 1..Len(downloads) : \E o \in 1..Len(script), size \in FileSizes :
         downloads[j] = [of |-> o, size |-> size, reply |-> Download(script[o].range, size)]

LEMMA DownloadsStep == OrderInv /\ DownloadsInv /\ [Next]_vars => DownloadsInv'
<1>. SUFFICES ASSUME OrderInv, DownloadsInv, [Next]_vars PROVE DownloadsInv'
  OBVIOUS
<1>1. CASE UNCHANGED <<script, downloads>>
  BY <1>1 DEF DownloadsInv, IsSequence
<1>2. CASE handleFileDownload
  <2>1. PICK size \in FileSizes :
          downloads' = Append(downloads, [of |-> m_httpHeaders, size |-> size,
                                          reply |-> Download(script[m_httpHeaders].range, size)])
    BY <1>2, Zenon DEF handleFileDownload
  <2>. PICK o : o = m_httpHeaders
    OBVIOUS
  <2>. PICK e : e = [of |-> o, size |-> size, reply |-> Download(script[o].range, size)]
    OBVIOUS
  <2>2. script' = script
    BY <1>2 DEF handleFileDownload, requestDone, client
  <2>3. o \in 1..Len(script)
    <3>1. o \in 0..sent /\ sent \in 0..Len(script) /\ script \in Scripts
      BY <2>1 DEF OrderInv, StreamTyped
    <3>2. Len(script) \in Nat
      BY <3>1, SocketAssumption
    <3>3. o # 0
      BY <1>2, <2>1 DEF handleFileDownload, refusals
    <3>. QED
      BY <3>1, <3>2, <3>3
  <2>4. /\ IsSequence(downloads') /\ Len(downloads') = Len(downloads) + 1 /\ Len(downloads) \in Nat
        /\ downloads'[Len(downloads) + 1] = e
        /\ \A j \in 1..Len(downloads) : downloads'[j] = downloads[j]
    BY <2>1, AppendIs DEF DownloadsInv
  <2>5. ASSUME NEW j \in 1..Len(downloads')
        PROVE  \E p \in 1..Len(script), s \in FileSizes :
                 downloads'[j] = [of |-> p, size |-> s, reply |-> Download(script[p].range, s)]
    <3>1. CASE j = Len(downloads) + 1
      BY <2>1, <2>3, <2>4, <3>1
    <3>2. CASE j # Len(downloads) + 1
      <4>1. j \in 1..Len(downloads)
        BY <2>4, <3>2
      <4>. QED
        BY <2>4, <4>1 DEF DownloadsInv
    <3>. QED
      BY <3>1, <3>2
  <2>. QED
    BY <2>2, <2>4, <2>5 DEF DownloadsInv, IsSequence
<1>3. CASE slotReadyRead /\ ~ handleFileDownload
  <2>1. UNCHANGED <<script, downloads>>
    BY <1>3 DEF slotReadyRead, readAll, headersIncomplete, parseHeaders, receivePlain, chunkIncomplete, takeChunk,
                lastChunk, endOfTrailers, badChunkSize, endRequest, refuse, dropTruncated, rejectFault, makeCall,
                makeDelayedCall, atCall, requestDone, client, service
  <2>. QED
    BY <1>1, <2>1
<1>4. CASE ~ slotReadyRead
  <2>1. UNCHANGED <<script, downloads>>
    BY <1>4 DEF Next, send, receive, readyRead, sendDelayedReply, finished, vars, client, service
  <2>. QED
    BY <1>1, <2>1
<1>. QED
  BY <1>2, <1>3, <1>4

(* A file of less than 2 GiB, but for the last 86 bytes before, is         *)
(* downloaded as the Range header asks, whatever the header: with the      *)
(* length it is announced with (if parts add up to an int), every byte     *)
(* asked for once and in order, and besides only the bytes of small gaps;  *)
(* "no content" is said of an empty file only.  From 2 GiB up to 4 GiB the *)
(* bytes are right where there is no usable Range header, and any other    *)
(* header may be refused; the length announced for the whole file is wrong *)
(* (determineFileRanges(), writeFileRanges() and httpResponseHeaders() of  *)
(* KDSoapServerSocket.cpp).                                                *)
THEOREM DownloadsAreRight == ASSUME FilesFit PROVE Spec => []RangesServed
<1>1. Init => OrderInv /\ DownloadsInv
  <2>. SUFFICES ASSUME Init PROVE OrderInv /\ DownloadsInv
    OBVIOUS
  <2>1. OrderInv
    BY OrderAtFirst
  <2>2. downloads = <<>> /\ <<>> \in Seq({})
    BY DEF Init
  <2>3. Len(downloads) = 0
    BY <2>2
  <2>. QED
    BY <2>1, <2>2, <2>3 DEF DownloadsInv, IsSequence
<1>2. OrderInv /\ DownloadsInv => RangesServed
  <2>. SUFFICES ASSUME OrderInv, DownloadsInv, NEW j \in 1..Len(downloads)
                PROVE  ServedRight(script[downloads[j].of].range, downloads[j].size, downloads[j].reply)
    BY Zenon DEF RangesServed, ServedRight, Serves
  <2>1. PICK o \in 1..Len(script), size \in FileSizes :
          downloads[j] = [of |-> o, size |-> size, reply |-> Download(script[o].range, size)]
    BY DEF DownloadsInv
  <2>2. PICK h : h = script[o].range
    OBVIOUS
  <2>3. downloads[j].of = o /\ downloads[j].size = size /\ downloads[j].reply = Download(h, size)
    BY <2>1, <2>2
  <2>4. h \in RangeHeader
    <3>1. script[o] \in Request
      BY ScriptTyped DEF OrderInv, StreamTyped
    <3>. QED
      BY <2>2, <3>1 DEF Request
  <2>5. size \in Nat /\ Fits(size)
    BY SocketAssumption DEF FilesFit
  <2>6. ServedRight(h, size, Download(h, size))
    BY <2>4, <2>5, ServedIs
  <2>. QED
    BY <2>2, <2>3, <2>6
<1>. QED
  BY <1>1, <1>2, OrderStep, DownloadsStep, DelayedInductive, PTL DEF Spec
=============================================================================
