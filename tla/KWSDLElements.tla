----------------------------- MODULE KWSDLElements -----------------------------
(***************************************************************************)
(* The elements of a WSDL document and what their loadXML() makes of them. *)
(*                                                                         *)
(* An XML element is a record [tag, ns, attr, children]: its local name,   *)
(* the vocabulary of its namespace ("wsdl", "soap", "soap12", "http"), its *)
(* attributes and its child elements in document order.  An attribute that *)
(* the code reads as a QName is a record [p, l] of prefix and local name.  *)
(* The argument map is the namespace manager's map of the document from    *)
(* prefixes to namespaces; the default namespace has the prefix "".        *)
(* A loaded name is a record [ns, l].  Unknown tags only give a warning.   *)
(***************************************************************************)
EXTENDS Naturals, Sequences, SequencesExt

QName(ns, l) == [ns |-> ns, l |-> l]
NoName == QName("", "")

(* QDomElement::attribute(): an absent attribute reads as an empty string. *)
Attr(e, a) == IF a \in DOMAIN e.attr THEN e.attr[a] ELSE ""
Raw(e, a) == IF a \in DOMAIN e.attr THEN e.attr[a] ELSE [p |-> "", l |-> ""]
uri(map, p) == IF p \in DOMAIN map THEN map[p] ELSE ""

Children(e, tag) == SelectSeq(e.children, LAMBDA c : c.tag = tag)
SoapNamespaces == {"soap", "soap12"}
SoapChildren(e, tag) == SelectSeq(e.children, LAMBDA c : c.tag = tag /\ c.ns \in SoapNamespaces)
MapSeq(f(_), s) == [i \in DOMAIN s |-> f(s[i])]

(* The element of list with the given name and namespace, else none: the   *)
(* first match wins, as in the loops of WSDL::find...().                    *)
FindIn(list, name, none) ==
  LET hits == {i \in DOMAIN list : list[i].name = name.l /\ list[i].ns = name.ns}
  IN IF hits = {} THEN none ELSE list[CHOOSE i \in hits : \A j \in hits : i <= j]

(***************************************************************************)
(* Messages, port types and their operations.                              *)
(***************************************************************************)
(* A type without prefix keeps no namespace, an element without prefix is  *)
(* in the document's default namespace.                                    *)
PartOf(map, e) ==
  LET type == Raw(e, "type")  elem == Raw(e, "element") IN
  [name |-> Attr(e, "name"),
   type |-> QName(IF type.p = "" THEN "" ELSE uri(map, type.p), type.l),
   element |-> QName(uri(map, elem.p), elem.l)]

NoPart == [name |-> "", type |-> NoName, element |-> NoName]

MessageOf(map, tns, e) ==
  [ns |-> tns, name |-> Attr(e, "name"),
   parts |-> MapSeq(LAMBDA c : PartOf(map, c), Children(e, "part"))]

NoMessage == [ns |-> "", name |-> "", parts |-> <<>>]

partByName(message, name) ==
  LET hits == {i \in DOMAIN message.parts : message.parts[i].name = name}
  IN IF hits = {} THEN NoPart ELSE message.parts[CHOOSE i \in hits : \A j \in hits : i <= j]

(* The message of a Param is in the target namespace unless it is prefixed; *)
(* a Param that was never loaded names no message.                          *)
ParamOf(map, tns, list) ==
  IF list = <<>> THEN NoName
  ELSE LET raw == Raw(Last(list), "message")
       IN QName(IF raw.p = "" THEN tns ELSE uri(map, raw.p), raw.l)

OperationType(inputs, outputs, children) ==
  LET place(tag) == CHOOSE i \in DOMAIN children : children[i].tag = tag IN
  IF outputs = <<>> THEN "OneWayOperation"
  ELSE IF inputs = <<>> THEN "NotificationOperation"
  ELSE IF place("input") < place("output") THEN "RequestResponseOperation"
  ELSE "SolicitResponseOperation"

(* Its faults are read, and nothing uses them. *)
OperationOf(map, tns, e) ==
  LET inputs == Children(e, "input")  outputs == Children(e, "output") IN
  [name |-> Attr(e, "name"),
   type |-> OperationType(inputs, outputs, e.children),
   input |-> ParamOf(map, tns, inputs), output |-> ParamOf(map, tns, outputs)]

PortTypeOf(map, tns, e) ==
  [ns |-> tns, name |-> Attr(e, "name"),
   operations |-> MapSeq(LAMBDA c : OperationOf(map, tns, c), Children(e, "operation"))]

NoPortType == [ns |-> "", name |-> "", operations |-> <<>>]

(***************************************************************************)
(* The SOAP part of a binding.                                             *)
(***************************************************************************)
StyleOf(e, old) ==
  CASE Attr(e, "style") = "rpc" -> "rpc"
    [] Attr(e, "style") = "document" -> "document"
    [] OTHER -> old

UseOf(e) == IF Attr(e, "use") = "encoded" THEN "encoded" ELSE "literal"

NoBody == [part |-> "", ns |-> "", use |-> "literal"]
BodyOf(e) == [part |-> Attr(e, "parts"), ns |-> Attr(e, "namespace"), use |-> UseOf(e)]

(* The message of a header without prefix gets no namespace at all; its     *)
(* header faults are read, and nothing uses them.                           *)
HeaderOf(map, e) ==
  LET raw == Raw(e, "message") IN
  [message |-> QName(IF raw.p = "" THEN "" ELSE uri(map, raw.p), raw.l),
   part |-> Attr(e, "part"), ns |-> Attr(e, "namespace")]

NoOperation ==
  [soapAction |-> "", style |-> "document", input |-> NoBody, output |-> NoBody,
   inputHeaders |-> <<>>, outputHeaders |-> <<>>]

(* QMap::insert() and operator[] of mOperations. *)
SoapOperation(ops, name) == IF name \in DOMAIN ops THEN ops[name] ELSE NoOperation
Insert(ops, name, op) == [n \in DOMAIN ops \cup {name} |-> IF n = name THEN op ELSE ops[n]]

(* <soap:operation>: a later operation of the same name replaces the first. *)
parseOperation(ops, name, e) ==
  LET soap == SoapChildren(e, "operation") IN
  IF soap = <<>> THEN ops
  ELSE Insert(ops, name, [NoOperation EXCEPT
         !.soapAction = Attr(Last(soap), "soapAction"),
         !.style = StyleOf(Last(soap), "document")])

(* The wsdl:input, wsdl:output and wsdl:fault of a binding's operation: the *)
(* last body counts, headers accumulate.                                    *)
LastBody(list, old) == IF list = <<>> THEN old ELSE BodyOf(Last(list))
LoadedHeaders(map, list) == MapSeq(LAMBDA c : HeaderOf(map, c), list)
InChildren(e, tag, soapTag) ==
  FlattenSeq(MapSeq(LAMBDA c : SoapChildren(c, soapTag), Children(e, tag)))

parseOperationParts(map, ops, name, e) ==
  LET bodies(tag) == InChildren(e, tag, "body")
      headers(tag) == InChildren(e, tag, "header")
      old == SoapOperation(ops, name)
      all == bodies("input") \o bodies("output") \o headers("input") \o headers("output") \o InChildren(e, "fault", "fault")
  IN IF all = <<>> THEN ops
     ELSE Insert(ops, name, [old EXCEPT
            !.input = LastBody(bodies("input"), @),
            !.output = LastBody(bodies("output"), @),
            !.inputHeaders = @ \o LoadedHeaders(map, headers("input")),
            !.outputHeaders = @ \o LoadedHeaders(map, headers("output"))])

BindingOperationOf(map, ops, e) ==
  parseOperationParts(map, parseOperation(ops, Attr(e, "name"), e), Attr(e, "name"), e)

(***************************************************************************)
(* Bindings, ports and services.                                           *)
(***************************************************************************)
NoBinding ==
  [ns |-> "", name |-> "", portType |-> NoName, type |-> "UnknownBinding", version |-> "1.1",
   style |-> "document", operations |-> <<>>, soapOperations |-> <<>>, address |-> ""]

(* The prefix of <soap:binding> decides type and version; the version is    *)
(* never set back to 1.1 by a second <soap:binding>.                        *)
BindingTag(binding, e) ==
  CASE e.ns \in SoapNamespaces ->
         [binding EXCEPT !.type = "SOAPBinding", !.style = StyleOf(e, @),
                         !.version = IF e.ns = "soap12" THEN "1.2" ELSE @]
    [] e.ns = "http" -> [binding EXCEPT !.type = "HTTPBinding"]
    [] OTHER -> binding

BindingOf(map, tns, e) ==
  LET raw == Raw(e, "type")
      ns == IF uri(map, raw.p) = "" THEN tns ELSE uri(map, raw.p)
      tagged == FoldLeft(BindingTag, NoBinding, Children(e, "binding"))
      ops == Children(e, "operation")
  IN [ns |-> tns, name |-> Attr(e, "name"), portType |-> IF raw.l = "" THEN NoName ELSE QName(ns, raw.l),
      type |-> tagged.type, version |-> tagged.version, style |-> tagged.style,
      operations |-> MapSeq(LAMBDA c : Attr(c, "name"), ops),
      soapOperations |-> FoldLeft(LAMBDA s, c : BindingOperationOf(map, s, c), <<>>, ops),
      address |-> ""]

(* The binding's namespace is taken to be the port's own, whatever its      *)
(* prefix says.                                                             *)
PortOf(tns, e) ==
  [name |-> Attr(e, "name"),
   binding |-> IF Raw(e, "binding").l = "" THEN NoName ELSE QName(tns, Raw(e, "binding").l)]

(* Port::loadXML() hands its <soap:address> to every SOAP binding loaded so *)
(* far that has the binding's local name; the last port of a service counts. *)
MeantFor(binding, port) ==
  /\ binding.name = Raw(port, "binding").l
  /\ binding.type = "SOAPBinding"
  /\ SoapChildren(port, "address") # <<>>

AddressedBinding(binding, ports) ==
  LET meant == SelectSeq(ports, LAMBDA p : MeantFor(binding, p)) IN
  IF meant = <<>> THEN binding
  ELSE [binding EXCEPT !.address = Attr(Last(SoapChildren(Last(meant), "address")), "location")]

Addressed(bindings, e) == MapSeq(LAMBDA b : AddressedBinding(b, Children(e, "port")), bindings)

ServiceOf(tns, e) ==
  [ns |-> tns, name |-> Attr(e, "name"),
   ports |-> MapSeq(LAMBDA c : PortOf(tns, c), Children(e, "port"))]
================================================================================
