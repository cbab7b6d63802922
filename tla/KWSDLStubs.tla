------------------------------ MODULE KWSDLStubs ------------------------------
(***************************************************************************)
(* The code that convertClientService() and convertServerService()         *)
(* generate from the loaded definitions, by what it does when it runs: the *)
(* message a client sends for an operation, the operation a server takes   *)
(* it for and the arguments it reads, the reply it writes and what each of *)
(* the client's three interfaces reads from it.                            *)
(*                                                                         *)
(* A message is a record [name, value, children]: the name of its element, *)
(* what the element itself holds, and its child elements.  A value carries *)
(* the type it was serialized from; read as another type it gives Default. *)
(***************************************************************************)
EXTENDS KWSDLConverter

Default == "default"
NoValue == [type |-> NoName, v |-> Default]
NoMessageSent == [name |-> "", value |-> NoValue, children |-> <<>>]
ReadAs(defs, part, value) == IF value.type = PartType(defs, part) THEN value.v ELSE Default

soapStyle(binding) == IF binding.type = "SOAPBinding" THEN binding.style ELSE "rpc"
SoapOp(binding, op) == SoapOperation(binding.soapOperations, op.name)

(* <soap:body parts="..."/>: the attribute is taken as one name. *)
selectedParts(binding, message, selected) ==
  IF binding.type = "SOAPBinding" /\ selected # ""
  THEN SelectSeq(message.parts, LAMBDA p : p.name = selected)
  ELSE message.parts

InputParts(defs, binding, op) ==
  selectedParts(binding, findMessage(defs, op.input), SoapOp(binding, op).input.part)
OutputMessage(defs, op) == IF op.type = "OneWayOperation" THEN NoMessage ELSE findMessage(defs, op.output)
OutputParts(defs, binding, op) ==
  selectedParts(binding, OutputMessage(defs, op), SoapOp(binding, op).output.part)

elementNameForPart(defs, part) ==
  IF part.type = NoName THEN findElement(defs, part.element).name ELSE part.name

(* serializePart() and addMessageArgument(): in document style the part    *)
(* becomes the message, in RPC style a child of it.                        *)
Argument(defs, part, v) ==
  [name |-> elementNameForPart(defs, part), value |-> [type |-> PartType(defs, part), v |-> v]]

addMessageArgument(defs, style, message, part, v) ==
  LET argument == Argument(defs, part, v)
  IN IF style = "document" THEN [message EXCEPT !.name = argument.name, !.value = argument.value]
     ELSE [message EXCEPT !.children = Append(@, argument)]

(* clientGenerateMessage(), and the name the message is written with: the  *)
(* operation's in RPC style, where each part adds a child; in document     *)
(* style the last part stays.  args gives a value to the name of each part. *)
clientGenerateMessage(defs, binding, op, args) ==
  LET parts == InputParts(defs, binding, op)
  IN IF soapStyle(binding) = "rpc"
     THEN [NoMessageSent EXCEPT !.name = op.name,
                                !.children = [i \in DOMAIN parts |-> Argument(defs, parts[i], args[parts[i].name])]]
     ELSE IF parts = <<>> THEN NoMessageSent
     ELSE addMessageArgument(defs, "document", NoMessageSent, Last(parts), args[Last(parts).name])

(***************************************************************************)
(* The SOAP action of the operation, "" without one, in the HTTP headers:  *)
(* prepareRequest() quotes it in a header of its own (1.1) or appends it   *)
(* to the content type (1.2), handleRequest() looks for it by the content  *)
(* type.  The instances have no action with a semicolon in it.             *)
(***************************************************************************)
NoHttp == [contentType |-> "", soapAction |-> <<>>, actionParameter |-> <<>>]
Quoted(action) == <<"quoted", action>>
stripQuotes(text) == Last(text)

(* Mutant: always in the header of SOAP 1.1. *)
prepareRequest_header_only(version, action) ==
  [NoHttp EXCEPT !.contentType = IF version = "1.1" THEN "text/xml" ELSE "application/soap+xml",
                 !.soapAction = Quoted(action)]

prepareRequest(version, action) ==
  IF version = "1.1" THEN [NoHttp EXCEPT !.contentType = "text/xml", !.soapAction = Quoted(action)]
  ELSE [NoHttp EXCEPT !.contentType = "application/soap+xml", !.actionParameter = <<action>>]

SoapActionOf(http) ==
  LET found == IF http.contentType = "text/xml" THEN http.soapAction ELSE http.actionParameter
  IN IF found = <<>> THEN "" ELSE stripQuotes(found)

(***************************************************************************)
(* The server: the generated processRequest().                             *)
(***************************************************************************)
(* The operations are tried in the order of the port type. *)
Matches(binding, op, request, action) ==
  LET own == SoapOp(binding, op).soapAction IN
  request.name = op.name \/ (own # "" /\ action = own)

NoOp == [name |-> "", type |-> "OneWayOperation", input |-> NoName, output |-> NoName]

MatchedOperation(defs, binding, request, action) ==
  LET ops == findPortType(defs, binding.portType).operations
      hits == {i \in DOMAIN ops : Matches(binding, ops[i], request, action)}
  IN IF hits = {} THEN NoOp ELSE ops[CHOOSE i \in hits : \A j \in hits : i <= j]

(* All the parts of the message, whatever <soap:body parts=...> selects; in *)
(* RPC style by position, and a child that is missing is read from beyond   *)
(* the list: the instances send them all.                                   *)
ServerArguments(defs, binding, op, request) ==
  LET parts == findMessage(defs, op.input).parts IN
  [n \in {p.name : p \in SeqRange(parts)} |->
     LET i == CHOOSE j \in DOMAIN parts : parts[j].name = n IN
     ReadAs(defs, parts[i],
            IF soapStyle(binding) = "rpc" THEN request.children[i].value ELSE request.value)]

(* An operation of several output parts is not supported: its method is     *)
(* never called.                                                            *)
MethodCalled(defs, op) == Len(OutputMessage(defs, op).parts) <= 1

(* Mutant: the result is never put into a wrapper. *)
ServerReply_unwrapped(defs, binding, op, result) ==
  LET out == OutputMessage(defs, op) IN
  IF Len(out.parts) # 1 THEN NoMessageSent
  ELSE addMessageArgument(defs, "document", NoMessageSent, out.parts[1], result)

(* Also what the generated ...Response() method sends later. *)
ServerReply(defs, binding, op, result) ==
  LET out == OutputMessage(defs, op) IN
  IF Len(out.parts) # 1 THEN NoMessageSent
  ELSE LET reply == addMessageArgument(defs, soapStyle(binding), NoMessageSent, out.parts[1], result)
       IN IF soapStyle(binding) = "rpc" THEN [reply EXCEPT !.name = out.name] ELSE reply

(***************************************************************************)
(* The client: what is read from a reply.  An outcome is [fault, values],  *)
(* values giving one to the name of each output part.                      *)
(***************************************************************************)
Outcome(fault, values) == [fault |-> fault, values |-> values]
Faulty == Outcome(TRUE, <<>>)
ReadAll(defs, parts, value) == [n \in {p.name : p \in SeqRange(parts)} |->
  ReadAs(defs, CHOOSE p \in SeqRange(parts) : p.name = n, value)]

(* The blocking call: an RPC reply without children is turned into a fault. *)
syncOutcome(defs, binding, op, reply) ==
  LET parts == OutputParts(defs, binding, op) IN
  IF Len(parts) # 1 \/ soapStyle(binding) = "document"
  THEN Outcome(FALSE, ReadAll(defs, parts, reply.value))
  ELSE IF reply.children = <<>> THEN Faulty
  ELSE Outcome(FALSE, ReadAll(defs, parts, reply.children[1].value))

(* KDSoapValueList::child(): an absent child reads as a null value. *)
ChildValue(reply, name) ==
  LET hits == {c \in SeqRange(reply.children) : c.name = name}
  IN IF hits = {} THEN NoValue ELSE (CHOOSE c \in hits : TRUE).value

(* The arguments of the ...Done() signal: RPC parts are looked up by name. *)
asyncOutcome(defs, binding, op, reply) ==
  LET parts == OutputParts(defs, binding, op) IN
  IF soapStyle(binding) = "document" THEN Outcome(FALSE, ReadAll(defs, parts, reply.value))
  ELSE Outcome(FALSE, [n \in {p.name : p \in SeqRange(parts)} |->
         ReadAs(defs, CHOOSE p \in SeqRange(parts) : p.name = n, ChildValue(reply, n))])

(* slotFinished() of a job: an RPC reply without children makes it return   *)
(* before emitFinished().                                                   *)
JobReturnsEarly(defs, binding, op, reply) ==
  /\ OutputParts(defs, binding, op) # <<>>
  /\ soapStyle(binding) = "rpc"
  /\ reply.children = <<>>

(***************************************************************************)
(* The generated classes.  A qualified name is a sequence of names.        *)
(***************************************************************************)
InNamespace(settings, names) == (IF settings = "" THEN <<>> ELSE <<settings>>) \o names

(* Several SOAP bindings in a service: Service::Binding. *)
ClientClass(settings, service, binding, several) ==
  InNamespace(settings, IF several THEN <<upperlize(service.name), upperlize(binding.l)>>
                        ELSE <<upperlize(service.name)>>)

(* The server class of such a service is meant to be in its namespace too, *)
(* and is then moved to that of the settings.                              *)
ServerClass(settings, service, binding, several) ==
  InNamespace(settings, <<upperlize(IF several THEN binding.l ELSE service.name) \o "ServerBase">>)

(* The class of a job, with the name of the service class in front of its   *)
(* own when that is taken.                                                  *)
JobNamed(settings, service, binding, several, name) ==
  LET client == ClientClass(settings, service, binding, several)
  IN (IF several THEN Append(Front(client), upperlize(binding.l) \o "Jobs") ELSE Front(client)) \o <<name>>
PlainJob(settings, service, binding, several, op) ==
  JobNamed(settings, service, binding, several, upperlize(op.name) \o "Job")
RenamedJob(settings, service, binding, several, op) ==
  JobNamed(settings, service, binding, several,
           Last(ClientClass(settings, service, binding, several)) \o upperlize(op.name) \o "Job")

JobClass(classes, settings, service, binding, several, op) ==
  LET plain == PlainJob(settings, service, binding, several, op)
  IN IF plain \in SeqRange(classes) THEN RenamedJob(settings, service, binding, several, op) ELSE plain

JobOperations(defs, binding) ==
  SelectSeq(findPortType(defs, findBinding(defs, binding).portType).operations,
            LAMBDA op : op.type # "NotificationOperation")

WithJobs(classes, defs, settings, service, binding, several) ==
  FoldLeft(LAMBDA cs, op : Append(cs, JobClass(cs, settings, service, binding, several, op)),
           classes, JobOperations(defs, binding))

(* convertClientCall() gives up on an operation whose one result has no     *)
(* known type.                                                              *)
CallConvertible(defs, binding, op) ==
  LET parts == OutputParts(defs, binding, op) IN
  op.type \in {"OneWayOperation", "RequestResponseOperation"} /\ Len(parts) = 1
    => HasLocalType(defs, parts[1])

BindingConvertible(defs, name) ==
  LET binding == findBinding(defs, name) IN
  \A op \in SeqRange(findPortType(defs, binding.portType).operations) : CallConvertible(defs, binding, op)
================================================================================
