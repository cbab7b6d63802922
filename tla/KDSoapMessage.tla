----------------------------- MODULE KDSoapMessage -----------------------------
(***************************************************************************)
(* A SOAP message with its headers and its WS-Addressing properties, what  *)
(* the message writer makes of it and what the message reader makes of     *)
(* that.                                                                   *)
(*                                                                         *)
(* A message is a KDSoapValue with its use, whether it is a fault, whether *)
(* it has addressing properties, and these.  Headers are a sequence of     *)
(* messages; the persistent headers are a QMap, given in the order of its  *)
(* keys.  A document is the record [shape, decls, hasHeader, header, body, *)
(* cut]: the elements in its Header and in its Body, and where it stops    *)
(* when it is not whole ("header", "body" or, after the message, "tail").  *)
(***************************************************************************)
EXTENDS KDSoapValue

(***************************************************************************)
(* Addressing properties.                                                  *)
(***************************************************************************)
AddressingNamespaces == {"wsa200303", "wsa200403", "wsa200408", "wsa200508"}
isWSAddressingNamespace(ns) == ns \in AddressingNamespaces

DefaultAddressing ==
  [ns |-> "wsa200508", destination |-> <<>>, source |-> <<>>, reply |-> <<>>, fault |-> <<>>,
   action |-> <<>>, id |-> <<>>, relationships |-> <<>>, parameters |-> <<>>, metadata |-> <<>>]

predefinedNone(ns) == <<<<"txt", "none">>>>
ReplyType == <<<<"txt", "reply">>>>

addRelationship(a, uri, type) == [a EXCEPT !.relationships = Append(@, [uri |-> uri, type |-> type])]

(* A field that is empty is not written. *)
Field(ns, name, c) == IF c = <<>> THEN <<>> ELSE <<Element(name, ns, <<>>, <<Text(c)>>)>>
AddressField(ns, name, c) ==
  IF c = <<>> THEN <<>> ELSE <<Element(name, ns, <<>>, <<Element("Address", ns, <<>>, <<Text(c)>>)>>)>>

(* Names, texts and children: every element gets the namespace of the      *)
(* addressing, and neither types nor attributes are written.                *)
RECURSIVE writeHierarchy(_, _)
writeHierarchy(ns, list) ==
  [i \in DOMAIN list |->
     Element(list[i].name, ns, <<>>,
       IF list[i].children # <<>> THEN writeHierarchy(ns, list[i].children)
       ELSE IF list[i].value.c = <<>> THEN <<>> ELSE <<Text(list[i].value.c)>>)]
Hierarchy(ns, name, list) == IF list = <<>> THEN <<>> ELSE <<Element(name, ns, <<>>, writeHierarchy(ns, list))>>

RelatesTo(ns, r) ==
  IF r.uri = <<>> THEN <<>>
  ELSE <<Element("RelatesTo", ns, IF r.type = <<>> THEN <<>> ELSE <<Attribute("", "RelationshipType", r.type)>>,
                 <<Text(r.uri)>>)>>

(* Nothing at all is written for a message to nobody. *)
writeMessageAddressingProperties(a) ==
  IF a.ns = "wsa200508" /\ a.destination = predefinedNone(a.ns) THEN <<>>
  ELSE Field(a.ns, "To", a.destination) \o AddressField(a.ns, "From", a.source)
         \o AddressField(a.ns, "ReplyTo", a.reply) \o AddressField(a.ns, "FaultTo", a.fault)
         \o Field(a.ns, "Action", a.action) \o Field(a.ns, "MessageID", a.id)
         \o FlattenSeq([i \in DOMAIN a.relationships |-> RelatesTo(a.ns, a.relationships[i])])
         \o Hierarchy(a.ns, "ReferenceParameters", a.parameters) \o Hierarchy(a.ns, "Metadata", a.metadata)

Relationship(v) ==
  LET given == SelectSeq(v.attributes, LAMBDA x : x.name = "RelationshipType")
  IN [uri |-> v.value.c, type |-> IF given = <<>> THEN ReplyType ELSE Last(given).value.c]

(* The namespace that was used is not remembered. *)
readMessageAddressingProperty(a, v) ==
  LET address == child(v.children, "Address").value.c IN
  CASE v.name = "Action" -> [a EXCEPT !.action = v.value.c]
    [] v.name = "MessageID" -> [a EXCEPT !.id = v.value.c]
    [] v.name = "To" -> [a EXCEPT !.destination = v.value.c]
    [] v.name = "From" -> [a EXCEPT !.source = address]
    [] v.name = "ReplyTo" -> [a EXCEPT !.reply = address]
    [] v.name = "RelatesTo" -> [a EXCEPT !.relationships = Append(@, Relationship(v))]
    [] v.name = "FaultTo" -> [a EXCEPT !.fault = address]
    [] v.name = "ReferenceParameters" -> [a EXCEPT !.parameters = v.children]
    [] v.name = "Metadata" -> [a EXCEPT !.metadata = v.children]
    [] OTHER -> a

(***************************************************************************)
(* The message.                                                            *)
(***************************************************************************)
MessageData == [use |-> "literal", isFault |-> FALSE, hasAddressing |-> FALSE, addressing |-> DefaultAddressing]
Message(v) == v @@ MessageData
NoMessage == Message(NullValue)

(* Mutant: the children of both. *)
AssignValue_adds_children(msg, v) == [v EXCEPT !.children = msg.children \o @] @@ msg

(* Assigning a value to a message keeps the message's own data. *)
AssignValue(msg, v) == v @@ msg
setMessageAddressingProperties(msg, a) == [msg EXCEPT !.hasAddressing = TRUE, !.addressing = a]

addArgument(msg, name, value, type) ==
  [msg EXCEPT !.children = Append(@, [KDSoapValue(name, value, type) EXCEPT !.qualified = msg.qualified])]
addList(msg, name, list) ==
  [msg EXCEPT !.children = Append(@, [KDSoapValue(name, Null, NoName)
                                        EXCEPT !.children = list, !.qualified = msg.qualified])]

createFaultMessage(code, text, version) ==
  LET fault == [Message(KDSoapValue("Fault", Null, NoName)) EXCEPT !.isFault = TRUE, !.ns = "soap"]
      one(name, c) == <<KDSoapValue(name, String(c), NoName)>>
  IN IF version = "1.2" THEN addList(addList(fault, "Code", one("Value", code)), "Reason", one("Text", text))
     ELSE addArgument(addArgument(fault, "faultcode", String(code), NoName), "faultstring", String(text), NoName)

(* header(): the first of that name, and of that namespace when one is given. *)
header(headers, name, ns) ==
  LET hits == SelectSeq(headers, LAMBDA h : h.name = name /\ ns \in {"", h.ns})
  IN IF hits = <<>> THEN NoMessage ELSE hits[1]

(***************************************************************************)
(* KDSoapMessageWriter.                                                    *)
(***************************************************************************)
StandardNamespaces == [soap |-> "soap", xsd |-> "xsd", xsi |-> "xsi"] @@ ("soap-enc" :> "soap-enc")
WithAddressing(msg) ==
  IF msg.hasAddressing THEN StandardNamespaces @@ (msg.addressing.ns :> "wsa") ELSE StandardNamespaces
Declarations(prefixes) ==
  [p \in {prefixes[ns] : ns \in DOMAIN prefixes} |-> CHOOSE ns \in DOMAIN prefixes : prefixes[ns] = p]

(* Mutant: headers are written as arguments are. *)
HeaderElements_unqualified(prefixes, h, messageNs) == ElementsOf(prefixes, h, h.use, messageNs, FALSE)

HeaderElements(prefixes, h, messageNs) ==
  ElementsOf(prefixes, h, h.use, messageNs, TRUE)

(* The names of namespaces that Qt declares by itself: n1 is the message's  *)
(* namespace, unless the message is a fault, which needs none.              *)
messageToXml(defaultNs, msg, method, headers, persistentHeaders, security) ==
  LET messageNs == IF msg.ns = "" THEN defaultNs ELSE msg.ns
      prefixes == WithAddressing(msg) @@ (messageNs :> "n1")
      hasHeader == headers # <<>> \/ persistentHeaders # <<>> \/ msg.hasAddressing \/ security
      all == persistentHeaders \o headers
      name == IF method # "" THEN method ELSE msg.name
  IN [shape |-> "soap",
      decls |-> Declarations(IF hasHeader \/ ~msg.isFault THEN prefixes ELSE WithAddressing(msg)),
      hasHeader |-> hasHeader,
      header |-> FlattenSeq([i \in DOMAIN all |-> HeaderElements(prefixes, all[i], messageNs)])
                   \o (IF msg.hasAddressing THEN writeMessageAddressingProperties(msg.addressing) ELSE <<>>)
                   \o (IF security THEN <<Element("Security", "wsse", <<>>, <<>>)>> ELSE <<>>),
      body |-> IF name = "" THEN <<>>
               ELSE <<writeElementContents(prefixes, msg, msg.use, messageNs, name,
                                           IF msg.isFault THEN "soap" ELSE messageNs)>>,
      cut |-> "whole"]

(***************************************************************************)
(* KDSoapMessageReader.                                                    *)
(***************************************************************************)
(* The position of the first damaged item, 0 when there is none. *)
FirstDamaged(items) ==
  LET bad == {i \in DOMAIN items : Damaged(IF items[i].kind = "text" THEN items[i].c ELSE Words(items[i]))}
  IN IF bad = {} THEN 0 ELSE CHOOSE i \in bad : \A j \in bad : i <= j

(* The parser stops inside of the damaged characters. *)
RECURSIVE UpToDamage(_)
UpToDamage(e) ==
  LET k == FirstDamaged(e.content) IN
  IF k = 0 THEN e
  ELSE [e EXCEPT !.content = SubSeq(@, 1, k - 1)
          \o (IF @[k].kind = "text" THEN <<>> ELSE <<UpToDamage(@[k])>>)]

(* The elements of the Header the parser gets to see. *)
Seen(doc) ==
  LET k == FirstDamaged(doc.header) IN
  IF k = 0 THEN doc.header ELSE Append(SubSeq(doc.header, 1, k - 1), UpToDamage(doc.header[k]))

ReadHeaders(doc) ==
  LET plain == SelectSeq(Seen(doc), LAMBDA e : ~isWSAddressingNamespace(e.ns))
  IN [i \in DOMAIN plain |-> Message(parseElement(doc.decls, plain[i]))]
ReadAddressing(doc) ==
  FoldLeft(LAMBDA a, e : IF isWSAddressingNamespace(e.ns)
                         THEN readMessageAddressingProperty(a, parseElement(doc.decls, e)) ELSE a,
           DefaultAddressing, Seen(doc))

(* A reference in hexadecimal can be repaired; all its copies become a "?". *)
FirstReference(doc) == SelectSeq(Words(doc.body[1]), IsForbidden)[1]
Repaired(doc, w) ==
  LET clean(elements) == [i \in DOMAIN elements |-> Substituted(elements[i], w, Plain("?"))]
  IN [doc EXCEPT !.header = clean(@), !.body = clean(@)]

Failed(r, version, error) == [r EXCEPT !.msg = createFaultMessage(<<Plain(error)>>, <<Plain("XML error")>>, version),
                                       !.status = IF error = "premature" THEN "premature" ELSE "parse error"]

(* One pass of xmlToMessage() over a document; r holds the caller's message *)
(* and header list, which the pass writes into.  A retry is another pass.   *)
Pass(r, doc, version) ==
  LET headed == IF doc.hasHeader
                THEN [r EXCEPT !.headers = @ \o ReadHeaders(doc),
                               !.msg = setMessageAddressingProperties(@, ReadAddressing(doc))]
                ELSE r
      element == UpToDamage(doc.body[1])
      value == parseElement(doc.decls, element)
      read == [headed EXCEPT !.msg = [AssignValue(@, value)
                                        EXCEPT !.isFault = @ \/ (value.name = "Fault" /\ value.ns = "soap")],
                             !.ns = element.ns]
  IN IF doc.shape # "soap" THEN Failed(r, version, "custom")
     ELSE IF FirstDamaged(doc.header) # 0 \/ doc.cut = "header" THEN Failed(headed, version, "custom")
     ELSE IF doc.cut = "body" THEN Failed(headed, version, "premature")
     ELSE IF doc.body = <<>> THEN [headed EXCEPT !.status = "ok"]
     ELSE IF FirstDamaged(doc.body) = 0 THEN [read EXCEPT !.status = "ok"]
     ELSE IF FirstReference(doc)[1] = "hexref" THEN [read EXCEPT !.status = "retry"]
     ELSE Failed(read, version, "not well-formed")
================================================================================
