# KDSoap in TLA+

TLA+ modules, TLC configurations and TLAPS proofs about KDSoap, the Qt library
for SOAP clients and servers, kept beside its code. All source paths below are
relative to the repository; `KDSoapServer/` stands for `src/KDSoapServer/` and
`KDSoapClient/` for `src/KDSoapClient/`.

* [1. The system](#1-the-system): inventory of components
* [2. Modules](#2-modules): what models what
* [3. Runs](#3-runs): what TLC checks, with which bounds
* [4. Fairness](#4-fairness)
* [5. Proofs](#5-proofs)
* [6. What the runs found](#6-what-the-runs-found)
* [7. Limits of the models](#7-limits-of-the-models)
* [8. Plan](#8-plan)

To check a run: `tlc -workers 2 -config ServerPool.cfg MCKDSoapServer.tla`. To
check the proofs of a module: `tlapm KDSoapServer_proofs.tla`. `PROJECT.json`
lists the runs, maps each definition to the lines it translates, gives a mutant
for each property and names the hazards of the code with the properties that
watch them.

## 1. The system

KDSoap has three parts: a client library, a server library that reuses the
client's messages, and the generator kdwsdl2cpp that turns WSDL files into
classes using both. Everything that runs concurrently is in the first two; the
generator is sequential, but what it writes must agree with itself on both ends of
a connection and with the libraries.

### Server library

| component | state | operations | who it talks to |
|---|---|---|---|
| **KDSoapServer** (`KDSoapServer.cpp`) | limit of connections, saved port, main thread's socket list, pool pointer, logging | `incomingConnection`, `suspend`, `resume`, counts, `log` | asks the pool for a thread, or creates a socket in its own thread; `suspend` blocks on the pool |
| **KDSoapThreadPool** (`KDSoapThreadPool.cpp`) | `m_threads`, `m_maxThreadCount` | `handleIncomingConnection` (through `chooseNextThread`), counts, `disconnectSockets`, destructor | shared by several servers; posts events to threads, reads their counters, waits on a semaphore and for threads to end |
| **KDSoapServerThread** and its Impl (`KDSoapServerThread.cpp`) | event queue of the thread, `m_incomingConnectionCount`, one `KDSoapSocketList` per server, `m_socketListMutex` | slots `handleIncomingConnection`, `disconnectSocketsForServer`, `quit`; counters read by main | creates sockets; main enters only through queued calls and mutex-protected counters |
| **KDSoapSocketList** (`KDSoapSocketList.cpp`) | the sockets of one server in one thread, the server object | create, forget on `disconnected()`, clear | owned by a thread, or by the server for the main thread |
| **KDSoapServerSocket** (`KDSoapServerSocket.cpp`) | request buffer, parsed headers, chunk position, enabled and delayed flags | `slotReadyRead`, `handleRequest`, `makeCall`, `sendDelayedReply`, replies | calls the server object; `QTcpSocket` below it delivers pieces |
| **KDSoapServerObjectInterface** (same name) | fault, detail, response headers of the current call | `setFault`, `setResponseHeaders`, `setRequestHeaders`, delayed response | the socket prepares it, the service fills it in, the socket reads it |
| **Other server interfaces** (auth, raw XML, custom verbs) | none | callbacks | asked by the socket before the call |
| **File ranges** (`KDSoapServerSocket.cpp`, 450-738) | none | a pure algorithm: parse, clip, sort and merge byte ranges, write them | the socket's reply to a GET |

Hard here: main and workers share counters; a connection is "nowhere" between
`incomingConnection()` and the thread that makes its socket; `suspend()` and the
pool's destructor block on threads that may be in the middle of a call; the
network cuts requests at any byte; a call may be answered later, while more data
arrives; an object outlives the call its fault belongs to.

Correct means: every descriptor has one owner and loses it for a reason only; threads are bounded and
evenly loaded; after `suspend()` no call of that server runs or can start, and no
other server has lost anything; no call loses its socket; a service sees exactly
the request that was sent; each request has one reply, in order, that carries
nothing of another call; whoever blocks gets on. Section 6 says where the code falls short.

### Client library

| component | state | operations | who it talks to |
|---|---|---|---|
| **KDSoapClientInterface** (`KDSoapClientInterface.cpp`) | settings, access manager, cookie jar, client thread | `call`, `asyncCall`, `callNoReply`, request preparation, destructor | queues tasks to the client thread; posts requests with `QNetworkAccessManager` |
| **KDSoapClientThread** (`KDSoapClientThread.cpp`) | task queue, stop flag, mutex, wait condition, the running task | `enqueue`, `run`, `stop`; task: `process`, `slotFinished` | releases the caller of `call()` through the task's semaphore |
| **KDSoapPendingCall, KDSoapPendingCallWatcher** | shared Private: reply, buffer, parsed message | `returnMessage` and the like, copies, watchers, destruction | owns the reply together with the access manager |
| **KDSoapAuthentication, TLS handlers** | user, password, WS-Security | answer `authenticationRequired()` once per reply | reply |
| **KDSoapJob** | request and reply | start, finished | pending calls, in generated subclasses |
| **KDSoapUdpClient** | a socket | send a datagram, emit each message received | reader and writer |
| **Message reader** (`KDSoapMessageReader.cpp`) | none | `xmlToMessage`, with a retry that strips invalid character references | pending calls and server sockets |
| **Message writer, values, addressing, namespaces** | the message: a tree of values with attributes, headers, addressing properties | build an envelope, WS-Addressing headers | interface and server socket |
| **Dates and qualified names** (`KDDateTime`, `KDQName`) | a value | conversions from and to text | generated code |

Hard here: `call()` hands a structure on its own stack to another thread, which
also uses the unlocked interface; replies, their buffers, handles, watchers, timers
and the interface may go away in any order; a timer may fire for a reply that has
already finished; `abort()` emits signals while its owner is being destroyed.

Correct means: a call returns, with the answer its reply ended with, and the same
to every reader; the thread touches nothing its caller has given back; a reply never
reads a freed buffer; a dropped call is cancelled silently; destruction ends; what was
put into a message, its headers and addressing properties is what the other end reads,
also when its text had to be repaired.

### Generator, and the rest

| component | state | operations | who it talks to |
|---|---|---|---|
| **Compiler** (`kdwsdl2cpp/src/compiler.cpp`) | exit code | download, parse, convert, create, exit | parser, converter |
| **WSDL parser** (`kdwsdl2cpp/wsdl`) | one `Definitions`, the parser context (base URL, namespaces) | recursive descent over DOM elements and imported documents; lookups | schema parser of libkode |
| **Converter** (`converter*.cpp`, `typemap.cpp`) | used types, type map, classes so far | collect the used types, settle name conflicts, write data, client, server and job classes | libkode's C++ output |
| **Generated data classes** | members, pointers and nil flags | `serialize`, `deserialize` | values and messages |
| **Generated client and server classes** | interface, end point, last reply; none in the server | calls in three styles; dispatch of a request to a method | client interface; server socket |
| **libkode** | | vendored XML schema and C++ output libraries: a git submodule, absent from the repository | |

Hard here: one `Definitions` object is filled by nested documents that overwrite its
context; the used types are collected through a worklist in hash order; names are
made unique as they are met; each fact about an operation (element name, SOAP action,
position of an argument, wrapper of a result) is decided independently for client,
server, asynchronous slot and job; and `serialize()` and `deserialize()` are written by
different functions.

Correct means: imports are flattened in document order into their own namespaces; the
types kept are exactly those needed; types and jobs whose names clash get other names; a call
reaches the method of its own operation with its own arguments, at the end point the
application chose; results and faults come back through each of the three interfaces; an
object arrives as it was sent; the generator ends, and so does a job.

The complete list of hazards, each at its line with the properties that watch it or
the reason why none does, is under `hazards` in `PROJECT.json`.

## 2. Modules

| module | extends | models |
|---|---|---|
| `KDSoapServerThread` | | worker threads, their event queues and socket lists |
| `KDSoapThreadPool` | `KDSoapServerThread` | the pool, main's loops over the threads |
| `KDSoapServer` | `KDSoapThreadPool` | servers, kernel, clients; the composed specification and its properties |
| `KDSoapService` | | abstract: accepted, open, closed; listening, suspending, suspended |
| `KDSoapServerObjectInterface` | | what a server object keeps from call to call |
| `KDSoapFileRanges` | | the ranges of a download, pure |
| `KDSoapServerSocket` | `KDSoapServerObjectInterface`, `KDSoapFileRanges` | one connection: client, network, socket, service |
| `KDSoapExchange` | | abstract: requests asked, handled, answered |
| `KDSoapPendingCall` | | one reply and the objects that share it |
| `KDSoapClientThread` | `KDSoapPendingCall` | the client thread, its queue and its task |
| `KDSoapClientInterface` | `KDSoapClientThread` | the interface and the application; the composed specification |
| `KDSoapValue` | | values and their XML, pure |
| `KDSoapMessage` | `KDSoapValue` | messages, faults, headers, addressing; writer, reader, repair; pure |
| `KWSDLTypeMap` | `KDSoapValue` | which class or builtin a schema type becomes, pure |
| `KWSDLClasses` | `KWSDLTypeMap` | `serialize` and `deserialize` of generated data classes, pure |
| `KDSoapTypedMessages` | `KDSoapMessage`, `KWSDLClasses` | an object on its way: application, interface, writer, network, reader, receiver |
| `KWSDLElements` | | `loadXML` of messages, ports, bindings, operations, pure |
| `KWSDLDefinitions` | `KWSDLElements` | loading documents and imports |
| `KWSDLConverter` | `KWSDLDefinitions` | used messages and types, class names |
| `KWSDLStubs` | `KWSDLConverter` | what generated client, server and job classes do, pure |
| `KDWsdl2cpp` | `KWSDLStubs` | a run of the generator, then its code at work; the composed specification |
| `MC...` | the composed module | constants for TLC, symmetry |
| `SequenceLemmas` | `SequencesExt`, `TLAPS` | lemmas about `FlattenSeq`, without induction theorems |
| `KDSoapFileRanges_proofs` | `KDSoapFileRanges`, `SequenceLemmas` | lemmas about sums, sorting, coalescing and writing ranges |
| `..._proofs` | the composed module, `TLAPS` | theorems |

The proofs about the servers are in three modules: `KDSoapServer_proofs` (types, calls,
`suspend()`, the bound), `KDSoapServerOwners_proofs` on top of it (where connections are,
why they go and how they are spread over the threads), and on top of that
`KDSoapServerService_proofs` (refinement). The mapping to `KDSoapService` is in `KDSoapServer`:
`statusMap` reads a connection's status off its place, `phaseMap` a server's phase off
`main` and `listening`. Those about the socket are in `KDSoapServerSocket_proofs` (calls and answers, then
requests and replies, then the refinement, then downloads), the last on top of `KDSoapFileRanges_proofs`,
whose lemmas say what the operators of `KDSoapFileRanges` compute; the
mapping to `KDSoapExchange`, which only counts, is in `KDSoapServerSocket`. The client's are in
`KDSoapClient_proofs`, those of the generator and its code in `KDWsdl2cpp_proofs`.
`SequenceLemmas` holds what socket and generator both need about concatenations.

Each composed module is the whole step relation of a process: `KDSoapServer` takes
the operators of the pool and of the threads and says what they leave unchanged
elsewhere. The socket is a model of its own: one connection interacts with others
only through the thread it occupies, which `KDSoapServerThread` models by `busy`.
Likewise the client: two interfaces share nothing.

Definitions named "Mutant" are variants of the definition after them with a
plausible mistake. No specification uses them; each shows that a property can fail.

### Servers, pool and threads

State. `queue[t]` is the list of events posted with `QMetaObject::invokeMethod` to
thread t (`incoming`, `disconnect`, `quit`), oldest first. `incoming[t]` is
`m_incomingConnectionCount`; `sockets[t]` the union of t's socket lists; `busy[t]`
the connection whose service method t is inside; `running[t]` whether `exec()` has
not returned. `readyThreads` is the semaphore of `disconnectSockets()`. `main` is
the activation record of what the main thread is doing: counting sockets, choosing
a thread, waiting in `suspend()`, joining threads, or idle in its event loop.
`fresh`, `backlog`, `rejected`, `mainSockets` say where the other connections are.

| code | action |
|---|---|
| `incomingConnection()`, no pool | `incomingConnectionMain` |
| `incomingConnection()`, pool: count, then refuse or choose | `incomingConnectionPooled`, `countThread`*, `rejectPooled` or `acceptPooled`, then |
| `chooseNextThread()` and `handleIncomingConnection()` | `lookAtBusy`*, then `takeIdling`, `takeLeastLoaded` or `createThread` |
| `suspend()`, `disconnectSockets()` | `suspendMain`; `suspendPooled`, `acquireReadyThreads` |
| `resume()`, `setMaxThreadCount()` | `resume`, `setMaxThreadCount` |
| `~KDSoapThreadPool()` | `destroyPool`, `waitForThreads` |
| slots of a worker | `handleIncomingConnection`, `disconnectSocketsForServer`, `quit` |
| `disconnected()` of a socket | `socketDisconnected`, `mainSocketDisconnected` |
| a request on a socket, a delayed response | `startCall`, `endCall`, `sendDelayedReply`; `mainCallDelayed`, `mainSendDelayedReply` |

Granularity: a slot of a worker is a step, except that a call has a beginning and an
end, so that main can act in between. Main's loops over the threads are cut at each
thread, because workers go on between two reads. A worker takes events only between
calls; main takes new connections only when idle, as in their event loops.

### Socket

The byte stream is a sequence of tokens: header block, line end, unit of data, chunk
size, trailer. The network hands over any number of tokens at a time (`readyRead`),
so that every boundary that the parser looks for can be cut on either side, and
inside the blank line. `slotReadyRead()` is split at its returns and calls, with
`pc` telling where it is: `readAll`, `headersIncomplete` or `parseHeaders`, then
`receivePlain` or the loop over chunks (`takeChunk`, `lastChunk`, `endOfTrailers`,
`chunkIncomplete`, `badChunkSize`), then the request: `endRequest` (raw XML),
`refuse`, `dropTruncated`, `rejectFault`, `makeCall`, `makeDelayedCall`. The
members `m_requestBuffer`, `m_httpHeaders`, `m_bytesReceived`, `m_chunkStart`,
`m_decodedRequestBuffer`, `m_delayedResponse`, `m_socketEnabled` have their names.
`device` is what a disabled socket leaves in `QIODevice`.

A server object's field is abstracted to the number of the request it was set for,
which is what tells a stale value from a fresh one. `objects["main"]` is the object
of the socket; `objects["other"]` one that `processRequestWithPath()` dispatches to.

A GET is `handleFileDownload`: the size of the file is a choice, the `Range` header is
part of the request, and what is announced and written is recorded in `downloads`.
`KDSoapFileRanges` follows `determineFileRanges()` (parse, resolve, clip, sort,
coalesce) and `writeFileRanges()`, whose pieces of text count by their size only. An `int`
is narrow (`IntMax = 127`), so that a size and the length of a multipart answer wrap and a range
end is no number. What overflows in the code wraps here (`AsInt`): the size on its way into
`determineFileRanges()`, the sum of the lengths, and the end of a range plus the gap that is sent
along (`Reach`). `std::sort()` is external: `sorted` is a permutation of the ranges with none less
than one before it. The constants of the code (86 bytes of overhead, a random boundary) are parameters.
`RangesServed` compares with sets of byte positions.

### Client

`reply[c]`, `pending[c]` are the `QNetworkReply` and the shared Private of call c
with its owners (`handles`, `watcher`), buffer and parsed message. `thread` is where
the client thread stands in `run()` and whose task is on its stack; `m_queue`,
`m_stopThread`, `m_response`, `m_semaphore` have their names; `taskData` is the set
of calls whose `KDSoapThreadTaskData` exists, i.e. whose `call()` has not returned.
`fate` and `returned` are history.

| code | action |
|---|---|
| `call()` | `call`, `startThread`, `return` |
| `asyncCall()`, `callNoReply()` | `asyncCall`, `callNoReply` |
| `KDSoapClientThread::run()` | `wait`, `break`, `dequeue`, `process`, `taskDone` |
| `slotFinished()` | `store`, `release` |
| `TimeoutHandler::replyTimeout()` | `replyTimeout` |
| `handleAuthenticationRequired()` | `authenticate`, `refused` |
| `parseReply()`, copies, watchers, `~Private()` | `parseReply`, `copy`, `watch`, `dropHandle`, `dropWatcher` |
| `~KDSoapClientInterface()` | `destroy`, `deletePrivate` |

`slotFinished()` is two steps because `m_response` and `m_semaphore` are used without
the mutex: the caller may return, and free both, between them or right after.
A reply makes progress only while the event loop that serves it runs: `exec()` in
the client thread, or the application's loop.

### Messages and typed objects

A text is a sequence of words with the form each is encoded in (raw, hex, base64, a
character reference that XML forbids); an XML document is a tree of elements, attributes
and runs of text whose prefixes are resolved through its declarations, as
`QXmlStreamReader` does. `KDSoapValue` and `KDSoapMessage` have the names of the code:
`writeElement`, `parseElement`, `messageToXml`, `xmlToMessage` (as `Pass`, one attempt),
`writeMessageAddressingProperties`, `readMessageAddressingProperty`. `KWSDLTypeMap` and
`KWSDLClasses` say what the code written by the converter does when it runs, per element
and attribute of a schema type: list, pointer, nil, choice, substitution group, base
class, enumeration, list and union types, arrays of SOAP's encoding.

`KDSoapTypedMessages` puts them in a row. The application sets members, persistent and
other headers, addressing on the interface or the message (`set`, `setHeader`,
`addHeader`, `setInterfaceAddressing`, `setMessageAddressing`,
`setSendSoapActionInWsAddressingHeader`); `send` is `prepareRequestBuffer()` and the
writer; the network delivers the document, or one with a forbidden character, with text
split into runs, or cut (`deliver`, `damage`, `interrupt`, `cutOff`, `garble`); `read` is
one attempt of the reader, repeated on the repaired text into the same result;
`deserialize` fills the receiver's object, and `sendBack` makes it the sender's.

### Generator and generated code

`definitions`, `baseUrl` and `stack` are the `Definitions` object, the context and the
nested calls of `loadXML()`: one action reads one child element of the document on top.
`collector` is `TypeCollector`; its rounds take types in any order, because they are
walks over a `QSet`. `todo` and `classes` are what `convertClientService()` has to do and
has generated; the bindings of a service come in any order, too.

| code | action |
|---|---|
| `Compiler::download()`, `parse()` | `download`, `load` (`startLoading`, then one of `KWSDLDefinitions!LoadNext`) |
| `fixUpDefinitions()` | `fixup` |
| `Converter::setWSDL()`, `cleanupUnusedTypes()` | `cleanupUnusedTypes`, `collect` (`collectType`, `nextRound`), `startConverting` |
| `convertServerService()`, `convertClientService()` | `convertServerService`, `convertClientService`, `nextService` |
| generated constructor, `clientInterface()`, `setEndPoint()` | `createService`, `setEndPoint`, `setSoapVersion`, `startCall` |
| `KDSoapJob::start()`, generated `doStart()` | `startCall`, then `doStart` from the event loop |
| generated `processRequest()`, late `...Response()` | `processRequest`; a foreign server's empty answer is `foreignReply` |
| generated blocking call, `...Finished` slot, job's `slotFinished()` | `syncReturns`, `asyncFinished`, `jobFinished` |

XML schema parsing and C++ output are libkode's and external: a `types` element gives
its types or fails, a class is its qualified name and, where it runs, what it does.
A call carries its SOAP action in the HTTP headers as `prepareRequest()` puts it there for
the version in use, and the server finds it as `handleRequest()` does (`prepareRequest`,
`SoapActionOf`).

## 3. Runs

Distinct states in parentheses.

| run | shows | instance |
|---|---|---|
| `server_pool` (426 000) | threads bounded, load even, no call loses its socket, `suspend()` leaves nothing of its server and touches no other | 2 services on a pool of at most 2 threads, 4 connections |
| `servers_live` (35 000) | each connection has one owner, and goes for a reason only; `suspend()` and the destructor return, posted connections are handled, closed ones forgotten; refines `KDSoapService` | a service in the main thread beside a pooled one limited to one connection, 3 connections, 2 threads |
| `socket_requests` (449 000) | requests arrive intact, replies in order and one each, answers to calls carry only their own call's fault code and headers, no two calls at once, downloads send what was asked and announced; well-formed requests of a client that waits are handled and answered once (refines `KDSoapExchange`); what arrives while the socket is disabled is read in the end | every pair of 11 kinds of request, any cut, with and without pipelining; 550 `Range` headers with 7 sizes of file, two of which are no `int` |
| `client_calls` (1 594 000) | answers, lifetimes, hand-over between threads, cookie jar, silent cancellation | 2 calls of any kind, all 6 responses, 2 handles per call, timeout and credentials on or off |
| `client_live` (127 000) | blocking calls and the destructor return, watchers are notified | as above, 1 response, 1 handle |
| `messages` (73 000) | an object of a generated class, its headers and addressing properties arrive as they were sent, a second trip loses nothing, a repair changes no message and repeats the headers it has met | 8 schemas and ways to call, up to 2 members and 2 headers set, every fault of the network on every word |
| `generator` (260 000) | imports flattened, needed types kept, conflicts resolved, calls reach their method and results come back, the generator exits | 12 WSDL inputs: imports, document and RPC style, several services, names that clash in every way, every way to fail; up to 2 calls at once of any kind (1 in the largest), in SOAP 1.1 or 1.2 |
| `pooled_limit`, `truncated`, `stale_fault`, `stale_detail`, `job_never_finishes` | violations: see section 6 | the smallest instance with the behaviour |

Why the bounds are enough. Servers: with two threads and two connections per
service, a thread can hold a socket and an event at once, an idle thread can appear
behind main's loop index, a thread can serve both services while one is suspended,
and the fourth connection must take the least loaded thread. The loops of the pool keep
one best thread and compare it with the next, so a second thread shows all they do.
Socket: all that a request
leaves behind is seen by the next one, so pairs suffice; two units of data in a chunk
and two chunks exercise each index comparison at, before and after its boundary.
Ranges: three specs overlap, touch, nest and leave gaps just below, at and above the
overhead, in any order; coalescing compares neighbours only. A file of 120 bytes has multipart
answers longer than an `int` says, one of 254 bytes is negative as one and one of 256 bytes is 0.
Client: hazards involve one call, or one call and the thread still busy with the
one before.
Messages: a member is written and read on its own but for its neighbours in a list or
choice, so pairs of members suffice; two headers and two keys show their order; `Trips = 2`
is the object sent back once.
Generator: the inputs hold each element, style and failure the parser and converter
distinguish; six types whose names differ in case, in a forbidden character or are the name
chosen for another are met in every order, and jobs of three services have free and taken names;
two calls in flight can be answered in either order. `MaxDepth` (4) is
never reached: no instance imports a cycle.

Counters of the server and the client have no artificial bound: connections are opened
once, scripts are finite, handles are bounded by `MaxHandles`, threads by the connections.
In `messages` the application sets members at most `MaxSets` times and gives a call at most
`MaxHeaders` headers; in the generator's runs it makes an input's `calls` calls. A service
starts with the SOAP version its binding gives; `Versions` is what it may be changed to.
Symmetry (over connections of the same server, over calls) is used for safety only.

Deadlock is checked in each run of the server, the socket and the client: `ended`,
`finished` and `Terminated` are the states where the program may stop, and their guards are
exact, so a thread stuck anywhere else is reported. It is not checked in `messages`,
`generator` and `job_never_finishes`, whose programs end by themselves; `GeneratorExits`
says that the generator does.

## 4. Fairness

* Workers (`KDSoapServer!Fairness`): strong fairness on handling a posted event and on
  noticing a closed socket, since a Qt event loop delivers all posted events and looks
  at all ready sockets in each round, and a burst of requests (the client's choice)
  cannot starve them; weak fairness on `endCall`, i.e. service methods return; weak
  fairness on what main is in the middle of. Nothing obliges a client to connect or
  close, or the application to suspend, resume or destroy.
* Socket: weak fairness on the network's delivery, on the steps of `slotReadyRead()`
  (sequential code), on the client's next request, and on a service sending the
  response it has delayed, which the API asks it to do.
* Generator: weak fairness on `Generate`, a sequential program.
* Client: weak fairness on both threads' next steps and on timers. A server need react
  only where no timeout is set: with one, the calls return whatever the server does.

## 5. Proofs

TLC checks the instances above; TLAPS proves these for all values of the constants.

| theorem | module | says |
|---|---|---|
| `TypeCorrect` | `KDSoapServer_proofs` | `[]TypeOK` |
| `CallsKeepSockets` | | `[]CallKeepsSocket`: `suspend()` and `quit` never take a socket from a running call |
| `SuspendComplete` | | `[]SuspendQuiescent`: when `suspend()` has returned nothing of its server is left |
| `ThreadsBounded` | | `[]ThreadBound`, if there is one limit, never changed, and it is positive |
| `OwnersAreSingle` | `KDSoapServerOwners_proofs` | `[]SingleOwner`: no connection is in two places |
| `DropsHaveReasons` | | `DropsOnlySuspended`: a connection goes, from wherever it is between the kernel and its socket, only when its client left, its server is suspended or the pool is destroyed |
| `LoadsBalanced` | | `[]BalancedLoad`, if there is one limit, of any value |
| `ServiceImplemented` | `KDSoapServerService_proofs` | `Spec => ImplementsService`: the servers with pool, threads and events are a `KDSoapService` |
| `CallsAreSequential` | `KDSoapServerSocket_proofs` | `NoConcurrentCall` |
| `AnswersAreOwn` | | `[]AnswersOwnCall`: fault code and headers of a reply are its own call's |
| `RepliesAreOrdered` | | `[]OneReplyEach`, for clients that wait and clients that do not |
| `RequestsArriveIntact` | | `[]RequestsIntact`, for any requests and any pieces |
| `HandledAreAnswered` | | `[]HandledIsAnswered`, which is about clients that wait, with complete documents and chunk sizes that are numbers |
| `ExchangeImplemented` | | `Spec => Exchange!Safety` for the same clients: `ImplementsExchange` but for its fairness |
| `DownloadsAreRight` | | `[]RangesServed`, for any header and files of less than 2 GiB, but for the last 86 bytes; up to 4 GiB it says that a whole file is sent whole, whatever length is announced |
| `KeptAreNeeded` | `KDWsdl2cpp_proofs` | `[]KeptTypesAreNeeded`, if no two types of an input share a name |
| `ImportsAreFlattened` | | `[]ImportsFlattened`, if no document imports itself, be it through others |
| `EndPointIsHonoured` | | `[]EndPointHonoured`, the part of `CallsReachTheirMethod` about the address |
| `CallsAreServed` | | `[](Servable => CallsReachTheirMethod)`, for any calls in flight |
| `ResultsAreReturned` | | `[](Servable /\ Returnable => ResultsComeBack)` |
| `ClientTypes`, `AnswersAreReplies`, `TasksAlive`, `InterfaceNotShared`, `JarInMain`, `NoNoiseAfterCancel`, `BuffersOutliveReplies` | `KDSoapClient_proofs` | every invariant of `client_calls` |

Assumptions: `ThreadAssumption` (finitely many connections, each with a server; the
value for "none" is neither), `PoolAssumption` (limits are integers), `ServerAssumption`,
`SocketAssumption` (scripts are sequences of requests, whose chunks are not empty), `RangesAssumption` (sizes are numbers), `CallAssumption` (responses are
of the six kinds, `MaxHandles` is a natural number), `InputsAssumption` (paths and names of documents are strings, schema types
have the fields of one) and `EndPointsAssumption` (an end point that is set is not empty: an
empty string is how the generated class says that none is). TLC evaluates them in the runs. Hypotheses of theorems are needed: without its own `ThreadsBounded`
fails, see the note on the limit in section 6; a truncated document is dropped without a reply
(`truncated`), and a malformed chunk size is answered for every piece that follows it. Hence `HandledIsAnswered` and
`ExchangeImplemented` ask each connection for `WellBehaved`, and promise nothing of the others.
`DownloadsAreRight` has `FilesFit`, which the sizes of `socket_requests` satisfy but for the last one (256): a size either fits an
`int`, with room for a gap of `multiPartOverhead` behind the end of a range, or is less than twice as much
as an `int` holds, when it is negative as one and every range is refused. Section 6 says what happens to other files.

The generator's hypotheses are about its input. `ImportsDescend`: documents have ranks, bounded
by some number, that get smaller along every import, that is, imports form no circle; with one
`importDefinition()` calls itself for ever (section 6). `DeclaredOnce`: the collector finds a type by
its name and takes the first, and XML Schema has one symbol space for complex and simple types.
`ToldApart`: the generated server compares the request's name, then its action, with those of
its operations one after the other, so with two that agree it calls the first. `ArgumentsFit`:
part names differ, `<soap:body parts=...>` leaves none out, and a document style message has one
part at most (of several the last would overwrite the others). `Returnable`: the same of the
result, of which the stubs read one, by the name of its part in RPC style. `ImportsDescend` and `DeclaredOnce` hold
of every input of `generator`, and the others of every binding whose class is created there, so
the theorems say of any input what the run says of these.

**Servers.** `TypeOK` is inductive only with `MainInv` (main holds a connection exactly
while counting or choosing). `SuspendQuiescent` is about the moment `suspend()` has
returned, so the invariant must say what happens before. A `disconnect` event exists
only while main waits, is for the server main waits for, and is the last in its queue
(`DisconnectLast`): nothing can be posted behind it because main is blocked. A thread
whose queue has none any more has handled it, holds nothing of the server, and has
released one permit (`PermitsCounted`: permits = threads without the event). With as
many permits as threads, none has the event left, hence none holds anything: main
returns to an empty pool for that server, and `SuspendedEmpty` keeps it so until
`resume()`, since `listening` is false and `backlog` empty. `PooledInv` keeps workers
and main thread apart and `DelayedOwned` says that only living sockets owe a response.
The conjunction is `SuspendInv`; its step is proved action by action, on top of
`NextFlow`, which says what any step does to the connections a thread holds.

**Owners.** `SingleOwner` alone is not inductive: a worker that makes a socket of a posted
connection must not already have it, and main must not post what it has counted elsewhere.
`OwnerInv` says it of every place a connection can be: each posted one is in one queue at
one position (`PostedOnce`), and no thread that has it posted has its socket (`NewToThread`);
threads share nothing (`ThreadsApart`); fresh, waiting, refused, main's own and looked-at
connections are apart from each other and from the pool (`OutsideApart`); the thread main
has chosen exists (`BestIsThread`). `GivePosted` and `TakePosted` count positions when an event
is appended or removed; `StartPosted` starts a thread with one event.

**Drops.** Every step of main moves the connection it is at from one place to the next, and every step
of a worker the one it takes from its queue (`OutsideDrops`, `PoolDrops`): only the events that are meant to
give up connections do. A `disconnect` may be handled only while its server is suspended, a `quit` only
while main waits for its threads (`DropInv`): both hold because main is blocked from posting
to handling (`MainGoesOn`). This is where a `disconnect` that overtakes `resume()` would show.

**Refinement of `KDSoapService`.** With `OwnerInv` the five statuses exclude each other, so a
step that moves a connection changes one status (`MovedOne`, `ClosedSome`), and each action
is shown to be `Accept`, `Open`, `Close`, `Suspend`, `Suspended` or `Resume` of the abstract
service, or to change nothing of it. Two facts are not local: what waits in `backlog` or is looked
at has a listening server (`ComingListens`), and `acquireReadyThreads` may be `Suspended` only
because nothing of the server is alive, which is `SuspendQuiescent`'s argument.

**Balance.** As long as nobody left, loads differ by one at most (`Even`) and the thread
main has chosen so far has no more than any thread it has looked at (`BestIsLeast`). Workers
do not disturb it: what they move from queue to sockets stays in their load, and
`IncomingCounted` ties the counter `m_incomingConnectionCount`, which is read by main, to the
queue. With limits that change, a limit raised later gives new, empty threads beside loaded
ones, so the theorem has one limit.

**ThreadBound.** A thread is created only if main has found no idle thread and the pool
is not at its limit or has no thread; with a positive limit, a pool that has threads has
`main.best # 0` at the end of the loop, so `Len(queue) = limit` stops it
(`ChooseFields`, `BoundStep`).

**Socket.** A socket that owes a delayed response is disabled and not in
`slotReadyRead()` (`DelayedDisabled`), from which `NoConcurrentCall` follows. For
`AnswersOwnCall`: every reply of kind "call" written so far, on the server's own path,
has a fault and headers of its own request or none (`OwnInv`), because
`setRequestHeaders()` clears both before the call, and, for a delayed response, the
object's headers still are those of the last request handled.

**Requests and replies.** Both arguments are about `Coming`, the tokens in the buffer, in the
device and on the network together: how the network cuts them does not matter because only
reading a header block, a chunk or the last size takes from it, and only from the front
(`StepFlows`). For `OneReplyEach` it suffices that header blocks still to come are of ascending
requests (`Ascending`) that are all later than the one being received and the ones handled or
replied to (`Ahead`, `RepliesBehind`), whatever the buffer holds beside them, so it holds even
when a client that does not wait has its requests mixed up. A `400` may be sent again because
the socket is then stuck at the size line for ever (`Stuck`), and handles nothing more.

`RequestsIntact` needs to know `Coming` to the last token. `IntactInv` says which phase the
socket of a waiting client is in: `Idle`, `InHeaders(i)` (all of `Stream(i)` is coming),
`InBody(i)` (what processXML() was given, followed by what is coming, is the body), `InChunks(i, c)`
(chunks 1 to `c` are decoded, `m_chunkStart` is the length of those chunks), `InTrailers(i)`
(decoded is the whole body, only the trailers are coming). Each phase has its step lemma;
`ChunkLine` shows that the size line that is read is the one of chunk `c + 1`, `TakeChunkStep`
that the indices cut out exactly its data. TLC agrees with `IntactInv` on the instance of
`socket_requests`. `Balanced` counts replies against requests handled, which gives
`HandledAreAnswered` and the refinement: the client asks only when nothing is owed.

Bodies are concatenations of any number of chunks, defined by a recursive function. What is
needed of it is proved without an induction theorem, from the least number for which a
statement fails (`Least`): `FlattenSeq` exists and is what its defining equation says
(`FlattenSeqIs`), and `UptoIs` gives the concatenation of the first `c` chunks, chunk by chunk.
These lemmas are in `SequenceLemmas`, since `Imports` below rests on them too.

**Downloads.** `DownloadsInv` says of every download that it is what `Download()` makes of its
request, so the theorem is about pure operators (`DownloadIs` in `KDSoapFileRanges_proofs`), which it
follows through the code. A spec is resolved to the range from its first to its last byte, if it
has any (`RequestedIs`). An order that sorts exists, by inserting one range after the other
(`Inserted`, `OrderExists`), hence the one chosen does sort (`SortedIs`). Coalescing keeps `Left`: what is
left of the first `k` sorted ranges lies apart by more than a small gap, each of the `k` is in one that is
left, and these hold nothing but the `k` and small gaps between two of them; a range either is too far from the last
one left and is added (`AddedLeft`), or becomes part of it (`MergedLeft`), where sorting matters:
it begins no earlier than the last one left, so it cannot reach back to those before. For the request this
means that what is left holds every byte asked for and no byte far from those (`RangesAnswer`). Writing keeps `Written`: the
bytes sent so far are those of the first `k` ranges, rising (`Sends`), and their size, boundaries and part heads
included, is what the loop over `length` has added up (`PartWritten`, `BodyIs`). A single range that is the whole file is sent with
200 instead; several never are, since they leave out the byte behind the first (`LeavesOut`). Folds
and sums are recursive functions on sets of positions; their equations are proved like that of
`FlattenSeq`, from a least counterexample (`TotalIs`, `CoalescesIs`).

**Client.** One inductive invariant, `Inv`, proves all: `TypeOK`; `HandOver`, which ties
the place of main in `call()` to the places of the thread, the queue, the semaphore and
the stored response (while the thread is between `process` and `release`, or the queue is not
empty, main is blocked in that very call, with no permit);
`OneFate`, which ties the end of each reply to what was parsed, stored, returned and
notified; `Ownership`, which ties owners to reply and buffer. TLC agrees with `Inv` on
the instance of `client_calls`. The proof has a lemma per action.

**Kept types.** `Needed` is the least set that holds the types of the messages and is closed
under `DependencyClosed`. `CollectInv` ties the collector to it between any two types: kept are
the declared names met and no longer waiting; what a kept type depends on has been met; and
everything met is in every closed set, so nothing too many is. When nothing waits the kept names
are themselves closed (`LastRound`), hence the least. A type is processed in a round and
its dependencies in the next; `fixupComplexType` may mark types on the way, which changes no
name (`FixedNames`). Until then `LoadTyped` says that what has been read are types of the input
(`TypesInv`).

**Imports.** `ImportsFlattened` compares the lists of the one `Definitions` with `NamesIn`, which
follows imports by recursion; the code has a stack of documents half read instead. `ReadOk` says
what has been read at any moment: every frame of the stack has given what its document and its
imports up to its position hold (`Chunk`; an import counts once it has been left, `Below`), and
the names in each list are those chunks from the bottom of the stack to its top (`Given`).
`StackOk` says that a waiting frame stands just behind the import of the frame above it, and that
the context saved there is the one of the waiting document, so that leaving restores the right
base and namespace. An element adds to the top's chunk (`PassGives`), an import adds a frame with
an empty one (`PushGives`), and when a document is left its chunk is complete and becomes a part
of the one below (`PopGives`). A types section that does not parse ends its document there, and
what follows in it counts neither in the code nor in `NamesIn` (`ChunkBroken`). `NamesIn` is a
recursion over documents: by ranks it has a solution (`FlattenedExists`) and only one
(`FlattenedOnce`), so it is that solution (`NamesInIs`); without `ImportsDescend` there may be none.

**Calls of generated code.** `UseInv` has two parts. The object: what was made into an
interface has the end point that counts, and the object keeps its binding (`ObjectKept`). Each
call (`CallOk`), by its state: it was made for an operation with one argument for each part
(`Asked`), left as the stub writes it (`Left`), was answered as the generated server does (`Answered`)
and ended as its interface reads it (`Ended`). No step of one call touches another or the
definitions, which is why any number may be in flight. What remains is about the pure operators
that stand for the generated functions: the server finds the operation (`OperationFound`, with
`ActionArrives` for the action), its arguments (`ArgumentsRead`), and each interface the result (`ResultRead`).

**Only model-checked.** Liveness under fairness, that of `ImplementsExchange` included;
of the generator `ConflictsResolved`; all of
`messages`. Everything about
messages speaks of trees, about which an induction over data would be needed. `KDSoapValue`, `KDSoapMessage` and `KWSDLClasses` use `RECURSIVE`
operators, with which nothing can be proved. `ConflictsResolved` needs to know when two class
names made by concatenation differ, and the provers know nothing of the letters of a string.

Every invariant that was proved was first checked by TLC on the instances of the runs.

## 6. What the runs found

1. `pooled_limit`: `maxConnections()` can be exceeded with a thread pool.
   `KDSoapServer.cpp:81` counts sockets, not the connections posted to a worker that has
   not made its socket yet, while the header says that `numConnectedSockets()` "will
   always be less than maxConnections(), if maxConnections was set". Note that the limit itself is reachable, so "less than"
   is not meant strictly.
2. `truncated`: a complete POST with a document that ends early gets no reply
   (`KDSoapServerSocket.cpp:391`): the code waits for more data after clearing its buffer.
3. `stale_fault`: an object that `processRequestWithPath()` dispatches to keeps its fault
   for ever; `hasFault()` is documented as of "the current method invocation".
4. `stale_detail`: a fault with a text detail is sent with the value detail of an earlier call's
   fault, because the two are stored in two fields and neither is cleared between calls
   (`KDSoapServerObjectInterface.cpp:105`, 125, 151-157). `AnswersOwnCall` is about fault codes and headers.
5. `job_never_finishes`: a generated job returns from its slot before `emitFinished()` when
   an RPC reply has no children (`converter_clientstub.cpp:491`); `KDSoapJob.h` promises
   `finished()`. Every other reply is handled (`ResultsComeBack`).

Noticed while modelling, in no run of their own:

* With a limit of zero, or one lowered below the number of threads, the pool grows without
  bound, because `KDSoapThreadPool.cpp:86` compares with `==`; the header promises at least
  one thread and a limit that is always respected. This is why `ThreadBound` is checked and
  proved for one positive limit.
* A download with a `Range` header from a file of 2 GiB or more is refused with 416, whatever it asks for,
  because `determineFileRanges()` takes the size as an `int` (`KDSoapServerSocket.cpp:450`), which is negative.
  `RangesServed` allows for it.
* The same `int` holds a positive number again from 4 GiB on: of such a file, ranges are served as if it had
  its size modulo 4 GiB. In the last 86 bytes below 2 GiB the end of a range plus the gap sent along
  overflows (`KDSoapServerSocket.cpp:539`), so overlapping ranges are not coalesced and bytes are sent twice; and
  the parts of a file close to 2 GiB add up to a length that overflows (623), so the `Content-Length` is
  negative. `RangesServed` allows for the last, `DownloadsAreRight` excludes the others by its hypothesis.
* The reply that refuses a fault message (`rejectFault`) is written without a call of the service, and so
  without `setRequestHeaders()` before it: it carries the response headers of the call before. `AnswersOwnCall`
  is about answers to calls.
* A whole file of 2 GiB or more is announced with its size as an `int` (`KDSoapServerSocket.cpp:158`, 708): a
  negative or wrong `Content-Length`, and "204 No Content" if the size wraps to 0. `RangesServed` demands the right length
  only where it is an `int`. An empty file is "204 No Content", too.
* A repaired message comes with its headers once for each pass of the reader: the retry appends to the list the failed
  attempt has written to (`KDSoapMessageReader.cpp:210`, 246). `RepairRepeatsHeadersOnly` says that this is all.
* A name chosen for a type or job is not looked up again: of the types `foo`, `Foo` and `FooType` two become `FooType`,
  and of services `S` with an operation `USum`, `T` and `U` with `sum` two jobs become `USumJob`
  (`converter_clientstub.cpp:385`, `typemap.cpp:390`). Names are compared before forbidden characters are replaced in one
  of them only: `Foo-bar` and `Foo_bar` become one class, and whether `foo-bar` is renamed beside `Foo_bar` depends
  on the hash order (`converter.cpp:183-198`). Services `store` and `Store` become one client class: nothing compares them.
  `ConflictsResolved` says that jobs clash in no other case, and used complex types neither; the instances `JobsClash`, `JobsRenamed` and `ServicesClash` have all of these.
* `setMessageAddressingProperties()` of the interface is lost once
  `setSendSoapActionInWsAddressingHeader(true)` is called: `prepareRequestBuffer()`
  (`KDSoapClientInterface.cpp:149-157`) starts again from the message's own properties.
* A SOAP action with a semicolon does not reach a SOAP 1.2 server: the client puts it unquoted
  into the content type (`KDSoapClientInterface.cpp:110`), which the server splits at semicolons
  (`KDSoapServerSocket.cpp:412`). The instances have none.
* An import cycle between WSDL documents makes `importDefinition()` recurse for ever.
* The range check of a simple type tests `MINEX` where `MAXEX` is meant
  (`converter_simpletype.cpp:522`); it only logs.

## 7. Limits of the models

* Data races: `KDSoapSocketList`'s lambda on `disconnected()` erases without the mutex
  that main's count takes. The erasure is one step here; torn reads are not modelled.
  `log()` reading its settings without their mutex is left out with all logging.
* Rejected descriptors are neither wrapped nor closed by the code; the model only says
  that they are not served.
* Pipelining clients lose what they sent too early (`slotReadyRead()` clears the buffer);
  `RequestsIntact` is about clients that wait.
* Server objects: request headers, SOAP version and the pointers of a delayed response
  handle are left out. Main-thread sockets run a call in one step, so a service method
  that spins a nested event loop is not modelled.
* Sockets' TLS handshake, WS-Security headers, SOAP action and HTTP header texts are left
  out: no property depends on them.
* A second watcher of the same pending call is left out. A watcher created after the reply
  finished is modelled (`late`) and never notified; `WatchedIsNotified` is about the ones
  that connect in time.
* Downloads: the file keeps its size while it is read; the loop that copies it in blocks is
  one step; `fileSize - end` of a suffix range wraps only for a negative size, of which nothing is
  served however it wraps, so that one is not wrapped in the model; HTTP header texts are left out.
* `totalConnectionCount()` is left out, like the limit of sockets of the process.
* Messages: numbers and dates are words, so formatting, parsing and the loss of precision of
  a float are left out, and with them `KDDateTime` and `KDQName`; so are the attributes of
  header elements, `_as_kdsoap_value` members, `toXml()`, optional getters and void elements.
  Entities, encodings and tokenizing are Qt's.
* `ObjectArrives` is about values the generated code can carry (`Carried`): member names that
  do not repeat those of a base class or of the class itself, objects of the declared class or
  known by their element, required lists, single words in list types, texts in `anyType`,
  types not named like a builtin one when the use is encoded. All others are in the
  instances too, and `SecondTripIsLossless` holds of them: what is lost is lost once.
* Generator: a child missing from an RPC request is read from beyond the list by the
  generated server (undefined behaviour); the instances send all parts. Header messages take
  part in the collection of types only. The text of classes, the option parser, the name mapper
  and the HTTP and MIME bindings are left out; `saveXML()` and the functions that synthesize XML
  in `kdwsdl2cpp/wsdl` have no caller.
* Jobs: that a job deletes itself is left out, and so are services destroyed before their jobs.
* Not modelled at all: `KDSoapUdpClient` (a datagram is a message, nothing is kept), dates and
  qualified names, TLS handlers, logging, the test programs, and libkode, which is not there.
* Asking a pending call for its message after its interface was destroyed dereferences a
  null guarded pointer; the application in the model does not do it.
* The application uses an interface and its pending calls from one thread: they are
  `QObject`s, or tied to some, without locks.

## 8. Plan

Done: servers, pool and threads; socket, server object and downloads; interface, client thread
and pending calls; messages, headers, addressing and generated data classes; loading of WSDL,
the used types and the generated client, server and job classes; the theorems of section 5.

Left, in order:

1. **Late watchers** and a second watcher of a pending call.
2. **Server object interface**: delayed response handles and request headers;
   `setExpectedSocketCount()` and log file of the server.
3. **Dates** as functions on calendar fields, if a property deserves them.
