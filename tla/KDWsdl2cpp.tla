------------------------------ MODULE KDWsdl2cpp ------------------------------
(***************************************************************************)
(* The generator from its input to the code it writes, and that code at    *)
(* work.  Compiler::run() downloads and loads the WSDL, fixes it up, keeps *)
(* the used types, generates server and client classes and exits.  Then an *)
(* application uses one generated client class against the generated       *)
(* server of the same binding: the service object with its lazily created  *)
(* KDSoapClientInterface, blocking calls, asynchronous calls and jobs, any *)
(* number of them in flight, answered in any order.                        *)
(***************************************************************************)
EXTENDS KWSDLStubs

CONSTANTS Values,       \* what an application gives for an argument and a method returns
          EndPoints,    \* what an application sets as end point, never ""
          Versions      \* what it sets as SOAP version, "1.1" or "1.2"

ASSUME EndPointsAssumption == "" \notin EndPoints

VARIABLES generator,  \* "download", "load", "fixup", "collect", "types", "convert", "client" or "exit"
          exit,       \* the exit code, "none" before
          todo,       \* the services to convert, each with the names of its bindings: <<service, names>>
          classes,    \* [clients, servers, jobs], sequences of the qualified names generated
          service,    \* the application's object of a generated client class
          calls       \* the calls made through it, in their order

vars == <<loadVars, collector, generator, exit, todo, classes, service, calls>>
generatorVars == <<loadVars, collector, generator, exit, todo, classes>>

NoClasses == [clients |-> <<>>, servers |-> <<>>, jobs |-> <<>>]
NoService == [binding |-> NoName, endPoint |-> "", interface |-> "none", version |-> "none",
              lastReply |-> NoMessageSent, lastFault |-> FALSE]
NoCall == [api |-> "none", op |-> NoOp, args |-> <<>>, to |-> "", state |-> "none",
           served |-> NoOp, foreign |-> FALSE, got |-> <<>>, result |-> Default, fault |-> FALSE,
           request |-> NoMessageSent, http |-> NoHttp, reply |-> NoMessageSent, outcome |-> Faulty, emitted |-> FALSE]

Init ==
  /\ LoadInit
  /\ collector = NoCollector
  /\ generator = "download" /\ exit = "none"
  /\ todo = <<>>
  /\ classes = NoClasses
  /\ service = NoService
  /\ calls = <<>>

(***************************************************************************)
(* Compiler and Converter.                                                 *)
(***************************************************************************)
Exit(code) == generator' = "exit" /\ exit' = code

(* Compiler::download(). *)
download ==
  /\ generator = "download"
  /\ IF input.main \notin DOMAIN input.files THEN Exit("1") /\ UNCHANGED loadVars
     ELSE IF input.files[input.main].root = "malformed" THEN Exit("2") /\ UNCHANGED loadVars
     ELSE startLoading /\ generator' = "load" /\ UNCHANGED exit
  /\ UNCHANGED <<collector, todo, classes, service, calls>>

(* Definitions::loadXML() in Compiler::parse(). *)
load ==
  /\ generator = "load"
  /\ LoadNext
  /\ CASE loading' = "failed" -> Exit("3")
       [] loading' = "loaded" -> generator' = "fixup" /\ UNCHANGED exit
       [] OTHER -> UNCHANGED <<generator, exit>>
  /\ UNCHANGED <<collector, todo, classes, service, calls>>

fixup ==
  /\ generator = "fixup"
  /\ definitions' = fixUpDefinitions(definitions)
  /\ generator' = "collect"
  /\ UNCHANGED <<input, baseUrl, stack, loading, collector, exit, todo, classes, service, calls>>

(* Converter::setWSDL(). *)
cleanupUnusedTypes ==
  /\ generator = "collect"
  /\ ~input.keepUnused
  /\ startCollecting(definitions)
  /\ generator' = "types"
  /\ UNCHANGED <<loadVars, exit, todo, classes, service, calls>>

collect ==
  /\ generator = "types"
  /\ collectType(definitions) \/ nextRound
  /\ UNCHANGED <<loadVars, generator, exit, todo, classes, service, calls>>

ServiceBindings(defs) ==
  [i \in DOMAIN defs.services |-> <<defs.services[i], uniqueBindings(defs, defs.services[i])>>]

(* The end of setWSDL(). *)
startConverting ==
  /\ \/ generator = "types" /\ CollectingDone /\ definitions' = Cleaned(definitions)
     \/ generator = "collect" /\ input.keepUnused /\ UNCHANGED definitions
  /\ generator' = "convert"
  /\ collector' = [collector EXCEPT !.phase = "idle"]
  /\ UNCHANGED <<input, baseUrl, stack, loading, exit, todo, classes, service, calls>>

Several(of) == Cardinality(uniqueBindings(definitions, of)) > 1
ServerClasses(of) ==
  MapSeq(LAMBDA name : ServerClass(input.nameSpace, of, name, Several(of)), SetToSeq(uniqueBindings(definitions, of)))

(* The classes of the servers are sorted when all have been generated. *)
convertServerService ==
  /\ generator = "convert"
  /\ classes' = [classes EXCEPT !.servers = FlattenSeq(MapSeq(ServerClasses, definitions.services))]
  /\ todo' = ServiceBindings(definitions)
  /\ generator' = "client"
  /\ UNCHANGED <<loadVars, collector, exit, service, calls>>

(* One binding of the foremost service in convertClientService(): a QSet   *)
(* gives them in any order.                                                *)
convertClientService ==
  /\ generator = "client" /\ todo # <<>>
  /\ \E name \in Head(todo)[2] :
       LET of == Head(todo)[1] IN
       IF BindingConvertible(definitions, name)
       THEN /\ classes' = [classes EXCEPT
                 !.clients = Append(@, ClientClass(input.nameSpace, of, name, Several(of))),
                 !.jobs = WithJobs(@, definitions, input.nameSpace, of, name, Several(of))]
            /\ todo' = [todo EXCEPT ![1] = <<of, @[2] \ {name}>>]
            /\ UNCHANGED <<generator, exit>>
       ELSE Exit("4") /\ UNCHANGED <<classes, todo>>
  /\ UNCHANGED <<loadVars, collector, service, calls>>

nextService ==
  /\ generator = "client"
  /\ IF todo = <<>> THEN Exit("0") /\ UNCHANGED todo
     ELSE Head(todo)[2] = {} /\ todo' = Tail(todo) /\ UNCHANGED <<generator, exit>>
  /\ UNCHANGED <<loadVars, collector, classes, service, calls>>

Generate ==
  \/ download \/ load \/ fixup \/ cleanupUnusedTypes \/ collect \/ startConverting
  \/ convertServerService \/ convertClientService \/ nextService

(***************************************************************************)
(* A generated service object.                                             *)
(***************************************************************************)
ServiceBinding == findBinding(definitions, service.binding)

createService ==
  /\ exit = "0" /\ service = NoService
  /\ \E name \in UNION {uniqueBindings(definitions, s) : s \in SeqRange(definitions.services)} :
       service' = [NoService EXCEPT !.binding = name]
  /\ UNCHANGED <<generatorVars, calls>>

(* clientInterface(): created by the first use, with the end point set     *)
(* until then or that of the WSDL, and the version of the binding.         *)
Interface(s) ==
  LET binding == findBinding(definitions, s.binding) IN
  IF s.interface # "none" THEN s
  ELSE [s EXCEPT !.interface = IF s.endPoint # "" THEN s.endPoint ELSE binding.address,
                 !.version = binding.version]

setEndPoint ==
  /\ service # NoService
  /\ \E e \in EndPoints :
       service' = [service EXCEPT !.endPoint = e, !.interface = IF @ # "none" THEN e ELSE @]
  /\ UNCHANGED <<generatorVars, calls>>

(* The application may know better than the WSDL. *)
setSoapVersion ==
  /\ service # NoService
  /\ \E v \in Versions : service' = [Interface(service) EXCEPT !.version = v]
  /\ UNCHANGED <<generatorVars, calls>>

Apis(op) == IF op.type = "SolicitResponseOperation" THEN {"job"} ELSE {"sync", "async", "job"}

(* A blocking call keeps its caller from starting others; asynchronous     *)
(* calls and jobs do not.                                                  *)
Blocked == \E c \in DOMAIN calls : calls[c].api = "sync" /\ calls[c].state \in {"sent", "served"}

(* The message and the HTTP headers leave together, asyncCall() and call(). *)
Sent(call, from) ==
  [call EXCEPT !.to = from.interface,
               !.request = clientGenerateMessage(definitions, ServiceBinding, call.op, call.args),
               !.http = prepareRequest(from.version, SoapOp(ServiceBinding, call.op).soapAction),
               !.state = "sent"]

(* A job is only given its arguments and an event for doStart(). *)
startCall ==
  /\ service # NoService /\ Len(calls) < input.calls /\ ~Blocked
  /\ \E op \in SeqRange(findPortType(definitions, ServiceBinding.portType).operations) :
     \E api \in Apis(op) :
     \E args \in [{p.name : p \in SeqRange(InputParts(definitions, ServiceBinding, op))} -> Values] :
       LET call == [NoCall EXCEPT !.api = api, !.op = op, !.args = args, !.state = "started"] IN
       /\ op.type # "NotificationOperation"
       /\ IF api = "job" THEN UNCHANGED service /\ calls' = Append(calls, call)
          ELSE service' = Interface(service) /\ calls' = Append(calls, Sent(call, Interface(service)))
  /\ UNCHANGED generatorVars

(* The event loop: jobs in the order of their start(). *)
doStart(c) ==
  /\ calls[c].state = "started" /\ ~Blocked
  /\ \A b \in 1..c - 1 : calls[b].state # "started"
  /\ service' = Interface(service)
  /\ calls' = [calls EXCEPT ![c] = Sent(@, Interface(service))]
  /\ UNCHANGED generatorVars

(* The generated server: the method of the matched operation is called and *)
(* returns a value or sets a fault; without a match the base class sets a  *)
(* fault.                                                                  *)
processRequest(c) ==
  /\ calls[c].state = "sent"
  /\ LET action == SoapActionOf(calls[c].http)
         op == MatchedOperation(definitions, ServiceBinding, calls[c].request, action)
     IN \E result \in Values \cup {"fault"} :
          LET fault == op = NoOp \/ (MethodCalled(definitions, op) /\ result = "fault") IN
          calls' = [calls EXCEPT ![c] = [@ EXCEPT !.state = "served", !.served = op, !.result = result,
            !.got = IF op = NoOp THEN <<>> ELSE ServerArguments(definitions, ServiceBinding, op, calls[c].request),
            !.fault = fault,
            !.reply = IF fault \/ op = NoOp THEN NoMessageSent
                      ELSE ServerReply(definitions, ServiceBinding, op, result)]]
  /\ UNCHANGED <<generatorVars, service>>

(* A server of another make may answer with an empty element. *)
foreignReply(c) ==
  /\ calls[c].state = "sent"
  /\ calls' = [calls EXCEPT ![c] = [@ EXCEPT !.state = "served", !.foreign = TRUE]]
  /\ UNCHANGED <<generatorVars, service>>

Finished(c, outcome, emitted) ==
  calls' = [calls EXCEPT ![c] = [@ EXCEPT !.state = "done", !.outcome = outcome, !.emitted = emitted]]

(* The blocking call returns; m_lastReply is its reply. *)
syncReturns(c) ==
  LET call == calls[c]
      outcome == IF call.fault THEN Faulty ELSE syncOutcome(definitions, ServiceBinding, call.op, call.reply)
  IN /\ call.state = "served" /\ call.api = "sync"
     /\ Finished(c, outcome, TRUE)
     /\ service' = [service EXCEPT !.lastReply = call.reply, !.lastFault = outcome.fault]
     /\ UNCHANGED generatorVars

(* The ...Done() or ...Error() signal. *)
asyncFinished(c) ==
  LET call == calls[c] IN
  /\ call.state = "served" /\ call.api = "async" /\ ~Blocked
  /\ Finished(c, IF call.fault THEN Faulty ELSE asyncOutcome(definitions, ServiceBinding, call.op, call.reply), TRUE)
  /\ UNCHANGED <<generatorVars, service>>

(* slotFinished() of a job. *)
jobFinished(c) ==
  LET call == calls[c] IN
  /\ call.state = "served" /\ call.api = "job" /\ ~Blocked
  /\ IF call.fault THEN Finished(c, Faulty, TRUE)
     ELSE IF JobReturnsEarly(definitions, ServiceBinding, call.op, call.reply) THEN Finished(c, Faulty, FALSE)
     ELSE Finished(c, syncOutcome(definitions, ServiceBinding, call.op, call.reply), TRUE)
  /\ UNCHANGED <<generatorVars, service>>

Use ==
  \/ createService \/ setEndPoint \/ setSoapVersion \/ startCall
  \/ \E c \in DOMAIN calls : doStart(c) \/ processRequest(c) \/ foreignReply(c)
                             \/ syncReturns(c) \/ asyncFinished(c) \/ jobFinished(c)

(* The program has ended, or every call has been made and the application  *)
(* has nothing left to do.                                                 *)
Next == Generate \/ Use

Spec == Init /\ [][Next]_vars

(* The generator is one thread that goes on until it exits. *)
FairSpec == Spec /\ WF_vars(Generate)

(***************************************************************************)
(* What the object is meant to hold.                                       *)
(***************************************************************************)
(* A section of types that does not parse ends its document.               *)
ReadAt(doc, i) == \A b \in 1..i : doc.items[b].tag = "types" => doc.items[b].parses

Target(url, e) == Dir(url) \o e.location
ImportedAt(files, url, e) ==
  e.tag = "import" /\ e.location # <<>>
  /\ Target(url, e) \in DOMAIN files /\ files[Target(url, e)].root = "definitions"

(* The names that the i-th element of the document at url adds, when       *)
(* namesOf gives those of the documents it imports.                        *)
NamesAt(files, tag, namesOf, url, i) ==
  LET doc == files[url]  e == doc.items[i] IN
  CASE ~ ReadAt(doc, i) -> <<>>
    [] ReadAt(doc, i) /\ e.tag = tag -> <<QName(doc.tns, Attr(e, "name"))>>
    [] ReadAt(doc, i) /\ ImportedAt(files, url, e) -> namesOf[Target(url, e)]
    [] OTHER -> <<>>

(* The names of the elements with the tag in the document at url and, in   *)
(* place, in those it imports, each in its own document's namespace.       *)
NamesIn(files, main, tag) ==
  LET namesOf[url \in DOMAIN files] ==
        FlattenSeq([i \in 1..Len(files[url].items) |-> NamesAt(files, tag, namesOf, url, i)])
  IN namesOf[main]

Names(list) == MapSeq(LAMBDA x : QName(x.ns, x.name), list)

(* Loading flattens the import graph in document order, and every message,  *)
(* port type and binding carries the namespace of the document that         *)
(* declares it, however deep or often that document was imported.           *)
ImportsFlattened ==
  loading = "loaded" /\ exit = "none" /\ generator = "fixup" =>
    /\ Names(definitions.messages) = NamesIn(input.files, input.main, "message")
    /\ Names(definitions.portTypes) = NamesIn(input.files, input.main, "portType")
    /\ Names(definitions.bindings) = NamesIn(input.files, input.main, "binding")

(***************************************************************************)
(* The used types.                                                         *)
(***************************************************************************)
(* Types the schemas declare; names they do not declare lead nowhere.       *)
SchemaNames(defs) == {n \in {t.name : t \in defs.types} : n # NoName /\ ~IsBuiltin(n)}
DependencyClosed(defs, kept) ==
  \A t \in defs.types : t.name \in kept =>
    /\ ({t.base} \cup t.uses) \cap SchemaNames(defs) \subseteq kept
    /\ t.kind = "complex" =>
         \A d \in defs.types : d.kind = "complex" /\ d.base = t.name /\ d.name \in SchemaNames(defs) => d.name \in kept

Needed(defs) ==
  LET closed == {s \in SUBSET SchemaNames(defs) :
                   UsedTypes(defs) \cap SchemaNames(defs) \subseteq s /\ DependencyClosed(defs, s)}
  IN {n \in SchemaNames(defs) : \A s \in closed : n \in s}

(* The types that are kept are the least set that holds those of the used   *)
(* messages and, with a type, its base, the types of its members and every  *)
(* type derived from it, in whatever order the sets are walked.             *)
KeptTypesAreNeeded ==
  generator = "types" /\ CollectingDone =>
    {t.name : t \in collector.complex \cup collector.simple} = Needed(definitions)

(* The second name is what the first becomes as that of a class. *)
Capitalized(m, n) == m.ns = n.ns /\ m.l # n.l /\ n.l = upperlize(m.l)
HasForbidden(n) == Identifier(n.l) # n.l

(* Of two types whose names differ in the case of the first letter only,    *)
(* the lower one gets another class name, whichever the collector meets     *)
(* first.  Two classes have one name only where the code does not look: at  *)
(* a name it has just chosen, and at names with characters it replaces.     *)
TypesDistinct ==
  \A s, t \in collector.complex :
    /\ Capitalized(s.name, t.name) /\ ~HasForbidden(s.name) => s.conflicting /\ ~t.conflicting
    /\ s # t /\ TypeClass(s) = TypeClass(t) =>
         s.conflicting # t.conflicting \/ HasForbidden(s.name) \/ HasForbidden(t.name)
(* No other type is renamed. *)
OnlyClashesMarked ==
  \A s \in collector.complex : s.conflicting => \E t \in collector.complex : Capitalized(s.name, t.name)

(* Every job that is to be generated: <<service, binding, number of its operation>>. *)
JobSpots ==
  UNION {UNION {{<<i, name, k>> : k \in DOMAIN JobOperations(definitions, name)} :
                  name \in uniqueBindings(definitions, definitions.services[i])} : i \in DOMAIN definitions.services}
JobAt(spot, Class(_, _, _, _, _)) ==
  LET of == definitions.services[spot[1]]
  IN Class(input.nameSpace, of, spot[2], Several(of), JobOperations(definitions, spot[2])[spot[3]])

(* The name a job gets when its own is taken belongs to no other job. *)
RenamedJobsAreFree ==
  \A s, t \in JobSpots : /\ JobAt(s, RenamedJob) # JobAt(t, PlainJob)
                         /\ s # t => JobAt(s, RenamedJob) # JobAt(t, RenamedJob)

Distinct(list) == \A i, j \in DOMAIN list : list[i] = list[j] => i = j

(* Used complex types that differ in the case of their first letter get     *)
(* two classes in whatever order they are met, and only they are renamed;   *)
(* two jobs of whatever services get one class only if a name chosen in     *)
(* place of a taken one is itself the name of another.                      *)
ConflictsResolved ==
  /\ generator = "types" /\ CollectingDone => TypesDistinct /\ OnlyClashesMarked
  /\ generator = "client" /\ RenamedJobsAreFree => Distinct(classes.jobs)

(* A run of the generator ends with an exit code, whatever is imported,     *)
(* missing or broken: the documents of the instances import no cycle.       *)
GeneratorExits == <>(generator = "exit")

(***************************************************************************)
(* The generated code at work.                                             *)
(***************************************************************************)
(* Requests go to the end point the application has set, whether or not     *)
(* the interface existed before, and else to that of the WSDL.              *)
EndPointHonoured ==
  service.interface # "none" =>
    service.interface = IF service.endPoint # "" THEN service.endPoint ELSE ServiceBinding.address

(* The interface has the end point set for it, and a call is served by the  *)
(* method of its own operation with the arguments the application gave,     *)
(* although client and server decide on element names, actions and          *)
(* positions each for itself.                                               *)
CallsReachTheirMethod ==
  /\ EndPointHonoured
  /\ \A c \in DOMAIN calls : calls[c].state \in {"served", "done"} /\ ~calls[c].foreign =>
       calls[c].served = calls[c].op /\ calls[c].got = calls[c].args

(* Between generated client and server, the three interfaces of the client  *)
(* give an operation's result as the method returned it, and a fault as a   *)
(* fault.                                                                   *)
ResultsComeBack ==
  \A c \in DOMAIN calls : calls[c].state = "done" /\ ~calls[c].foreign =>
    calls[c].outcome =
      IF calls[c].fault THEN Faulty
      ELSE Outcome(FALSE, [n \in {p.name : p \in SeqRange(OutputMessage(definitions, calls[c].op).parts)} |->
                             calls[c].result])

(* start() is documented to emit finished() once done: a job whose reply    *)
(* has been handled has emitted it.                                         *)
JobsEmitFinished == \A c \in DOMAIN calls : calls[c].state = "done" => calls[c].emitted
================================================================================
