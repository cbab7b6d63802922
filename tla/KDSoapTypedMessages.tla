-------------------------- MODULE KDSoapTypedMessages --------------------------
(***************************************************************************)
(* An object of a generated class on its way: an application fills it and  *)
(* sends it with headers and addressing properties, the message is written *)
(* and read, and the receiver's object of the same class is filled from    *)
(* it, and sent back.                                                      *)
(*                                                                         *)
(* A case is the record [T, root, fields, headers, addressings, rpc, use,  *)
(* version, security, faults]: a schema, the type of the argument, the     *)
(* values an application may give to its members, the headers and          *)
(* addressing properties it may use, how the service is called, and which  *)
(* faults happen.  Between the two the text may be damaged as other SOAP   *)
(* stacks and networks do it: a character that XML forbids ("hexref",      *)
(* "decref"), a comment or CDATA section inside of a text ("runs"), an end *)
(* that is missing ("cut").                                                *)
(***************************************************************************)
EXTENDS KDSoapMessage, KWSDLClasses

CONSTANTS Cases,          \* the cases
          KeyOrder,       \* the keys of the persistent headers, in QMap's order
          MaxSets,        \* how often members are set
          MaxHeaders,     \* how many headers a call is given
          Trips           \* how often the object is sent on

VARIABLES case,           \* the case
          phase,          \* "app", "sent", "arriving", "read" or "done"
          object,         \* the sender's object
          persistent,     \* KDSoapClientInterfacePrivate::m_persistentHeaders
          interface,      \* [has, addressing, action]: m_messageAddressingProperties,
                          \* and m_sendSoapActionInWsAddressingHeader
          message,        \* the addressing of the message, given by the application
          headers,        \* the headers of the call
          doc,            \* what was written
          wire,           \* what is read
          harm,           \* what happened to it on the way
          passes,         \* how often the reader has tried
          result,         \* what xmlToMessage() has delivered
          received,       \* the receiver's object
          trip,           \* how often it was sent
          sets            \* how often a member was set
vars == <<case, phase, object, persistent, interface, message, headers, doc, wire, harm, passes,
          result, received, trip, sets>>
app == <<persistent, interface, message, headers>>

NoDocument == [shape |-> "none", decls |-> <<>>, hasHeader |-> FALSE, header |-> <<>>, body |-> <<>>, cut |-> "whole"]
NoResult == [msg |-> NoMessage, headers |-> <<>>, ns |-> "", status |-> "none"]
NotSet == [has |-> FALSE, addressing |-> DefaultAddressing]
Root == ComplexType(case.T, case.root)

Init ==
  /\ case \in Cases
  /\ phase = "app" /\ object = NewObject(case.T, case.root) /\ received = NullPointer
  /\ persistent = [k \in {} |-> NoMessage] /\ headers = <<>>
  /\ interface = NotSet @@ [action |-> FALSE] /\ message = NotSet
  /\ doc = NoDocument /\ wire = NoDocument /\ harm = "none" /\ passes = 0 /\ result = NoResult
  /\ trip = 0 /\ sets = 0

(***************************************************************************)
(* The application: setters of the class, KDSoapClientInterface's settings. *)
(***************************************************************************)
set(name, v) ==
  /\ phase = "app" /\ sets < MaxSets /\ headers = <<>> /\ persistent = <<>>
  /\ object' = setMember(object, name, v) /\ sets' = sets + 1
  /\ UNCHANGED <<case, phase, app, doc, wire, harm, passes, result, received, trip>>

HeadersUsed == Len(headers) + Cardinality(DOMAIN persistent)

setHeader(key, h) ==
  /\ phase = "app" /\ HeadersUsed < MaxHeaders
  /\ persistent' = [k \in DOMAIN persistent \cup {key} |-> IF k = key THEN h ELSE persistent[k]]
  /\ UNCHANGED <<case, phase, object, interface, message, headers, doc, wire, harm, passes, result, received, trip, sets>>

addHeader(h) ==
  /\ phase = "app" /\ HeadersUsed < MaxHeaders
  /\ headers' = Append(headers, h)
  /\ UNCHANGED <<case, phase, object, persistent, interface, message, doc, wire, harm, passes, result, received, trip, sets>>

setInterfaceAddressing(a) ==
  /\ phase = "app" /\ interface' = [interface EXCEPT !.has = TRUE, !.addressing = a]
  /\ UNCHANGED <<case, phase, object, persistent, message, headers, doc, wire, harm, passes, result, received, trip, sets>>

setMessageAddressing(a) ==
  /\ phase = "app" /\ message' = [has |-> TRUE, addressing |-> a]
  /\ UNCHANGED <<case, phase, object, persistent, interface, headers, doc, wire, harm, passes, result, received, trip, sets>>

setSendSoapActionInWsAddressingHeader ==
  /\ phase = "app" /\ interface' = [interface EXCEPT !.action = TRUE]
  /\ UNCHANGED <<case, phase, object, persistent, message, headers, doc, wire, harm, passes, result, received, trip, sets>>

(***************************************************************************)
(* Sending.                                                                *)
(***************************************************************************)
SoapAction == <<Plain("action")>>

(* The argument is the message in document style and its child in RPC. *)
Argument == [SerializeItem(case.T, case.root, object, "arg") EXCEPT !.qualified = TRUE]
TheMessage ==
  LET msg == IF case.rpc THEN [NoMessage EXCEPT !.children = <<Argument>>] ELSE Message(Argument)
  IN [msg EXCEPT !.use = case.use, !.hasAddressing = message.has, !.addressing = message.addressing]

(* prepareRequestBuffer(): the action is put into the message's properties. *)
Addressed(msg) ==
  LET own == IF interface.has THEN setMessageAddressingProperties(msg, interface.addressing) ELSE msg
  IN IF interface.action THEN setMessageAddressingProperties(own, [msg.addressing EXCEPT !.action = SoapAction]) ELSE own

Persistent == LET keys == SelectSeq(KeyOrder, LAMBDA k : k \in DOMAIN persistent)
              IN [i \in DOMAIN keys |-> persistent[keys[i]]]

Written == messageToXml("ns", Addressed(TheMessage), IF case.rpc THEN "method" ELSE "", headers, Persistent, case.security)

send ==
  /\ phase = "app" /\ phase' = "sent"
  /\ doc' = Written /\ wire' = Written /\ trip' = trip + 1
  /\ harm' = "none" /\ passes' = 0 /\ result' = NoResult /\ received' = NullPointer
  /\ UNCHANGED <<case, object, app, sets>>

(***************************************************************************)
(* On the way.                                                             *)
(***************************************************************************)
AllWords(d) == FlattenSeq([i \in DOMAIN d.header |-> Words(d.header[i])])
                 \o FlattenSeq([i \in DOMAIN d.body |-> Words(d.body[i])])
InBoth(d, f(_)) == [d EXCEPT !.header = [i \in DOMAIN @ |-> f(@[i])], !.body = [i \in DOMAIN @ |-> f(@[i])]]

Arrives(d, what) ==
  /\ phase = "sent" /\ phase' = "arriving" /\ wire' = d /\ harm' = what
  /\ UNCHANGED <<case, object, app, doc, passes, result, received, trip, sets>>

Forbidden(form) == <<form, "control">>
deliver == Arrives(doc, "none")
damage(form, w) == Arrives(InBoth(doc, LAMBDA e : Substituted(e, w, Forbidden(form))), form)
interrupt == Arrives(InBoth(doc, Interrupted), "runs")
cutOff(where) == (where = "header" => doc.hasHeader) /\ Arrives([doc EXCEPT !.cut = where], "cut")
garble(shape) == Arrives([doc EXCEPT !.shape = shape], "cut")

(***************************************************************************)
(* Receiving.                                                              *)
(***************************************************************************)
read ==
  /\ phase = "arriving"
  /\ LET r == Pass(result, wire, case.version) IN
     /\ result' = r /\ passes' = passes + 1
     /\ IF r.status = "retry" THEN wire' = Repaired(wire, FirstReference(wire)) /\ phase' = phase
        ELSE phase' = "read" /\ wire' = wire
  /\ UNCHANGED <<case, object, app, doc, harm, received, trip, sets>>

ReceivedArgument(msg) == IF case.rpc THEN child(msg.children, "arg") ELSE msg
deserialize ==
  /\ phase = "read" /\ phase' = "done"
  /\ received' = IF result.status = "ok" /\ ~result.msg.isFault
                 THEN DeserializeAs(case.T, Root, NewObject(case.T, case.root), ReceivedArgument(result.msg))
                 ELSE NullPointer
  /\ UNCHANGED <<case, object, app, doc, wire, harm, passes, result, trip, sets>>

(* The receiver sends its object back, without headers. *)
sendBack ==
  /\ phase = "done" /\ trip < Trips /\ received # NullPointer
  /\ phase' = "app" /\ object' = received
  /\ persistent' = [k \in {} |-> NoMessage] /\ headers' = <<>>
  /\ interface' = NotSet @@ [action |-> FALSE] /\ message' = NotSet
  /\ sets' = MaxSets
  /\ UNCHANGED <<case, doc, wire, harm, passes, result, received, trip>>

Application ==
  \/ \E name \in DOMAIN case.fields : \E v \in case.fields[name] : set(name, v)
  \/ \E h \in case.headers : addHeader(h) \/ \E key \in Range(KeyOrder) : setHeader(key, h)
  \/ \E a \in case.addressings : setInterfaceAddressing(a) \/ setMessageAddressing(a)
  \/ case.addressings # {} /\ setSendSoapActionInWsAddressingHeader
  \/ send
  \/ sendBack
Network ==
  \/ deliver
  \/ \E form \in case.faults \cap {"hexref", "decref"} : \E w \in Range(AllWords(doc)) : damage(form, w)
  \/ "runs" \in case.faults /\ interrupt
  \/ "cut" \in case.faults /\ \E where \in {"header", "body", "tail"} : cutOff(where)
  \/ "cut" \in case.faults /\ \E shape \in {"not an Envelope", "empty Envelope", "no Body"} : garble(shape)
Next == Application \/ Network \/ read \/ deserialize

Spec == Init /\ [][Next]_vars

(***************************************************************************)
(* What is promised.                                                       *)
(***************************************************************************)
(* Which values the code can carry at all: the members of a class and of   *)
(* its bases have names of their own, an object is of the declared class   *)
(* or is known by its element, the items of a list are single words, ...   *)
NameCount(T, t, name) ==
  Cardinality({i \in DOMAIN t.elements : t.elements[i].name.l = name})
    + (IF HasBaseClass(T, t) /\ name \in {m.name : m \in Members(T, ComplexType(T, t.base))} THEN 1 ELSE 0)

RECURSIVE Carried(_, _, _)
CarriedElement(T, t, e, field) ==
  /\ NameCount(T, t, e.name.l) = 1
  /\ IF IsList(t, e) THEN /\ isElementOptional(e) => (field.nil \/ field.v # <<>>)
                          /\ \A i \in DOMAIN field.v : Carried(T, ItemType(t, e), field.v[i])
     ELSE \/ field.nil
          \/ /\ Carried(T, e.type, field.v)
             /\ e.substitutions => ElementName(T, t, e, field.v) = e.name

RECURSIVE CarriedAs(_, _, _)
CarriedAs(T, t, obj) ==
  /\ \A i \in DOMAIN t.elements : CarriedElement(T, t, t.elements[i], obj.fields[t.elements[i].name.l])
  /\ \A i \in DOMAIN t.attributes : LET field == obj.fields[t.attributes[i].name.l]
                                    IN field.nil \/ Carried(T, t.attributes[i].type, field.v)
  /\ HasValue(T, t) => Carried(T, t.base, obj.fields.value.v)
  /\ HasBaseClass(T, t) => CarriedAs(T, ComplexType(T, t.base), obj)

TextVariant(v) == isNull(v) \/ (v.t = "QString" /\ v.c # <<>>)
(* A type of the schema named like a builtin one is taken for it when read. *)
LooksBuiltin(s) == case.use = "encoded" /\ xmlTypeToMetaType(s.name.l) # "unknown"

Carried(T, q, v) ==
  IF isTypeAny(q) THEN TRUE
  ELSE IF isBuiltinType(T, q) THEN localType(T, q) = "QVariant" => TextVariant(v)
  ELSE IF isComplexType(T, q) THEN v.class = q /\ CarriedAs(T, ComplexType(T, q), v)
  ELSE LET s == SimpleType(T, q)  x == v.fields.value.v IN
       /\ s.kind = "union" => TextVariant(x)
       /\ s.kind = "list" => \A i \in DOMAIN x : Carried(T, s.base, x[i])
                                 /\ Len(SerializeItem(T, s.base, x[i], "").value.c) = 1
       /\ s.kind = "restriction" => Carried(T, s.base, x) /\ ~LooksBuiltin(s)

(* The receiver's object equals the sender's, member by member, whatever    *)
(* members were set, in either style and use, with or without a Header:     *)
(* what serialize() writes is what deserialize() reads.                     *)
ObjectArrives ==
  (phase = "done" /\ harm = "none" /\ Carried(case.T, case.root, object)) => received = object

(* What has arrived once can be sent on unchanged, even where the first    *)
(* trip lost something.                                                    *)
SecondTripIsLossless ==
  (phase = "done" /\ harm = "none" /\ trip = 2) => received = object

(* The children of the persistent headers, in the order of their keys, and *)
(* then those of the call's headers, in theirs: each is read as a header   *)
(* of its own, with its name, namespace and text, no other is, and         *)
(* header() finds the first of its name and namespace.                     *)
Expected ==
  LET all == Persistent \o headers
  IN FlattenSeq([i \in DOMAIN all |-> [j \in DOMAIN all[i].children |->
       LET h == all[i].children[j] IN <<h.name, IF h.ns = "" THEN "ns" ELSE h.ns, h.value.c>>]])
Triple(h) == <<h.name, h.ns, h.value.c>>
HeadersArrive ==
  (phase = "read" /\ harm = "none") =>
    /\ SelectSeq([i \in DOMAIN result.headers |-> Triple(result.headers[i])], LAMBDA h : h[2] # "wsse") = Expected
    /\ \A i \in DOMAIN Expected : LET same == SelectSeq(Expected, LAMBDA h : h[1] = Expected[i][1] /\ h[2] = Expected[i][2])
                                 IN Triple(header(result.headers, Expected[i][1], Expected[i][2])) = same[1]

(* The addressing properties that were written are the ones that are read, *)
(* in any of the four namespaces: all of them, or none for a message to    *)
(* nobody; a relationship gets its default type.                           *)
RECURSIVE Skeleton(_)
Skeleton(list) ==
  [i \in DOMAIN list |-> <<list[i].name, IF list[i].children = <<>> THEN list[i].value.c ELSE <<>>, Skeleton(list[i].children)>>]
Essence(a) ==
  [a EXCEPT !.ns = "", !.parameters = Skeleton(@), !.metadata = Skeleton(@),
            !.relationships = LET real == SelectSeq(@, LAMBDA r : r.uri # <<>>)
                              IN [i \in DOMAIN real |-> [real[i] EXCEPT !.type = IF @ = <<>> THEN ReplyType ELSE @]]]
ToNobody(a) == a.ns = "wsa200508" /\ a.destination = predefinedNone(a.ns)
AddressingArrives ==
  (phase = "read" /\ harm = "none") =>
    LET sent == Addressed(TheMessage) IN
    sent.hasAddressing =>
      Essence(result.msg.addressing) = Essence(IF ToNobody(sent.addressing) THEN DefaultAddressing ELSE sent.addressing)

(* Headers and addressing properties share one Header element and are told *)
(* apart by name and namespace alone: what is read as a header was written *)
(* as one, what is read as a property was one, and neither is taken for    *)
(* the other or lost (KDSoapMessageWriter.cpp:64-83,                       *)
(* KDSoapMessageReader.cpp:204-214).                                       *)
EnvelopeHeaderArrives == HeadersArrive /\ AddressingArrives

(* After a repair the message and its namespace are what a reader makes of *)
(* the repaired text that never saw the damaged one.  The list of headers   *)
(* is not: each attempt, failed or not, has appended those of the text to   *)
(* it, so they come once for every pass; header() still finds the same.     *)
RepairRepeatsHeadersOnly ==
  (phase = "read" /\ harm = "hexref" /\ result.status = "ok") =>
    LET clean == Pass(NoResult, wire, case.version) IN
    /\ ~Damaged(AllWords(wire)) /\ result.msg = clean.msg /\ result.ns = clean.ns
    /\ result.headers = FlattenSeq([i \in 1..passes |-> clean.headers])
================================================================================
