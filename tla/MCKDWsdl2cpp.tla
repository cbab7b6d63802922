----------------------------- MODULE MCKDWsdl2cpp -----------------------------
(* Small sets of WSDL documents for TLC: imports, styles, headers, several *)
(* services and bindings, and every way a run of the generator can fail.   *)
EXTENDS KDWsdl2cpp

E(tag, attr, children) == [tag |-> tag, ns |-> "wsdl", attr |-> attr, children |-> children]
Soap(ns, tag, attr) == [tag |-> tag, ns |-> ns, attr |-> attr, children |-> <<>>]
P(prefix, l) == [p |-> prefix, l |-> l]
Import(location) == [tag |-> "import", location |-> location]
Types(parses, types, elements) == [tag |-> "types", parses |-> parses, types |-> types, elements |-> elements]
Doc(tns, map, items) == [root |-> "definitions", tns |-> tns, name |-> tns, map |-> map, items |-> items]

Maps == [t |-> "T", b |-> "B", x |-> "xsd"] @@ ("" :> "wsdl")
MapsB == [t |-> "B", x |-> "xsd"]

Message(name, parts) == E("message", [name |-> name], parts)
TypePart(name, p, type) == E("part", [name |-> name, type |-> P(p, type)], <<>>)
ElementPart(name, p, elem) == E("part", [name |-> name, element |-> P(p, elem)], <<>>)
In(p, m) == E("input", [message |-> P(p, m)], <<>>)
Out(p, m) == E("output", [message |-> P(p, m)], <<>>)
Op(name, children) == E("operation", [name |-> name], children)
SoapOpOf(ns, name, action, in, out) ==
  E("operation", [name |-> name], <<Soap(ns, "operation", [soapAction |-> action]), E("input", <<>>, in), E("output", <<>>, out)>>)
Body(ns, attr) == Soap(ns, "body", attr)
Port(name, p, binding, location) ==
  E("port", [name |-> name, binding |-> P(p, binding)], <<Soap("soap", "address", [location |-> location])>>)
Binding(name, p, type, ns, style, ops) ==
  E("binding", [name |-> name, type |-> P(p, type)], <<Soap(ns, "binding", [style |-> style])>> \o ops)

Type(ns, l, kind, base, uses) ==
  [name |-> QName(ns, l), kind |-> kind, base |-> base, uses |-> uses, anonymous |-> FALSE, conflicting |-> FALSE]
Elem(ns, name, type) == [ns |-> ns, name |-> name, type |-> type]
XsdInt == QName("xsd", "int")

(* A document imported twice, once in another directory, and one that is not there. *)
Sub == Doc("B", MapsB,
  <<Import(<<"c.wsdl">>), Message("ask", <<TypePart("n", "x", "int")>>),
    E("portType", [name |-> "Asking"], <<Op("ask", <<In("", "ask"), Out("t", "ask")>>)>>)>>)
Third == Doc("C", MapsB,
  <<Message("lost", <<>>), Types(FALSE, {}, <<>>), Message("never", <<>>)>>)
Imports == [main |-> <<"w", "main.wsdl">>, wanted |-> "S", keepUnused |-> TRUE, nameSpace |-> "", calls |-> 2,
  files |-> (<<"w", "main.wsdl">> :> Doc("T", Maps,
      <<Import(<<"sub", "b.wsdl">>), Import(<<>>), Import(<<"sub", "c.wsdl">>), Message("other", <<>>),
        Import(<<"c.wsdl">>), [tag |-> "other"],
        Binding("Ask", "b", "Asking", "soap", "rpc", <<SoapOpOf("soap", "ask", "", <<Body("soap", <<>>)>>, <<>>)>>),
        E("service", [name |-> "Unwanted"], <<Port("p", "t", "Ask", "elsewhere")>>),
        E("service", [name |-> "S"], <<Port("p", "t", "Ask", "here")>>)>>))
     @@ (<<"w", "sub", "b.wsdl">> :> Sub) @@ (<<"w", "sub", "c.wsdl">> :> Third)]

One(doc, keep, n) == [main |-> <<"one">>, wanted |-> "", keepUnused |-> keep, nameSpace |-> "N", calls |-> n, files |-> <<"one">> :> doc]

(* Document style: actions, headers, a selected part and types that depend on each other. *)
DocumentStyle == One(Doc("T", Maps,
  <<Types(TRUE,
      {Type("T", "foo", "complex", NoName, {XsdInt, QName("T", "Item")}),
       Type("T", "Foo", "complex", QName("T", "foo"), {}),
       Type("T", "Item", "complex", NoName, {QName("T", "kind")}),
       Type("T", "kind", "simple", XsdInt, {}),
       Type("T", "Sub", "complex", QName("T", "Item"), {QName("T", "foo")}),
       Type("T", "Spare", "complex", NoName, {QName("T", "Item")})},
      <<Elem("T", "Get", QName("T", "foo")), Elem("T", "GetAnswer", QName("T", "Item")),
        Elem("T", "Token", XsdInt), Elem("T", "Bare", NoName)>>),
    Message("get", <<ElementPart("parameters", "t", "Get")>>),
    Message("answer", <<ElementPart("parameters", "t", "GetAnswer")>>),
    Message("hdr", <<ElementPart("token", "t", "Token")>>),
    Message("unused", <<ElementPart("p", "t", "Bare")>>),
    E("portType", [name |-> "Store"],
      <<Op("read", <<In("t", "get"), Out("t", "answer")>>), Op("write", <<In("t", "get")>>),
        Op("push", <<Out("t", "answer"), In("t", "get")>>)>>),
    Binding("StoreSoap", "t", "Store", "soap12", "document",
      <<SoapOpOf("soap12", "read", "urn:read",
           <<Body("soap12", [parts |-> "parameters"]), Soap("soap12", "header", [message |-> P("t", "hdr"), part |-> "token"])>>,
           <<Body("soap12", <<>>)>>),
        SoapOpOf("soap12", "write", "urn:write", <<Body("soap12", <<>>)>>, <<>>),
        SoapOpOf("soap12", "push", "urn:push", <<Body("soap12", <<>>)>>, <<Body("soap12", <<>>)>>)>>),
    E("service", [name |-> "store"], <<Port("p", "t", "StoreSoap", "here")>>)>>), FALSE, 2)

(* RPC style: positions, a one-way and a notification, two services and an HTTP binding. *)
RpcOps(ns) == <<SoapOpOf(ns, "sum", "", <<Body(ns, [namespace |-> "urn:sum"])>>, <<Body(ns, <<>>)>>),
                SoapOpOf(ns, "tell", "", <<Body(ns, [use |-> "encoded"])>>, <<>>)>>
RpcItems ==
  <<Message("two", <<TypePart("a", "x", "int"), TypePart("b", "x", "string")>>),
    Message("one", <<TypePart("r", "x", "int")>>),
    E("portType", [name |-> "Calc"],
      <<Op("sum", <<In("t", "two"), Out("t", "one")>>), Op("tell", <<In("t", "one")>>), Op("event", <<Out("t", "one")>>)>>),
    Binding("CalcA", "t", "Calc", "soap", "rpc", RpcOps("soap")),
    Binding("CalcB", "t", "Calc", "soap12", "rpc", RpcOps("soap12")),
    E("binding", [name |-> "CalcHttp", type |-> P("t", "Calc")], <<Soap("http", "binding", <<>>)>>)>>
Rpc == One(Doc("T", Maps, RpcItems \o
  <<E("service", [name |-> "S"], <<Port("a", "t", "CalcA", "hereA")>>),
    E("service", [name |-> "U"], <<Port("b", "t", "CalcA", "hereA"), Port("h", "t", "CalcHttp", "h")>>),
    E("service", [name |-> "V"], <<Port("a", "t", "CalcA", "hereA"), Port("b", "t", "CalcB", "hereB")>>)>>), FALSE, 1)
NoServices == One(Doc("T", Maps, SubSeq(RpcItems, 1, 4)), TRUE, 1)
NoBindings == One(Doc("T", Maps, SubSeq(RpcItems, 1, 3)), FALSE, 0)

(* Names that clash: types with a name already chosen or with a forbidden   *)
(* character, operations whose job takes the name another one would get.    *)
Empty(l, uses) == Type("T", l, "complex", NoName, uses)
Clashing == <<"foo", "Foo", "FooType", "foo-bar", "Foo-bar", "Foo_bar">>
OneOp(port, op) == E("portType", [name |-> port], <<Op(op, <<In("t", "ask")>>)>>)
ClashBinding(port) == Binding(port, "t", port, "soap", "rpc", <<>>)
ClashService(name, port) == E("service", [name |-> name], <<Port("p", "t", port, "here")>>)
Clashes(services) == One(Doc("T", Maps,
  <<Types(TRUE, {Empty(Clashing[i], {}) : i \in 1..Len(Clashing)} \cup {Empty("All", {QName("T", Clashing[i]) : i \in 1..Len(Clashing)})}, <<>>),
    Message("ask", <<TypePart("a", "t", "All")>>), OneOp("Sums", "sum"), OneOp("USums", "USum"),
    ClashBinding("Sums"), ClashBinding("USums")>> \o services), FALSE, 0)
JobsClash == Clashes(<<ClashService("S", "USums"), ClashService("T", "Sums"), ClashService("U", "Sums")>>)
JobsRenamed == Clashes(<<ClashService("T", "Sums"), ClashService("U", "Sums"), ClashService("store", "USums")>>)
ServicesClash == Clashes(<<ClashService("store", "USums"), ClashService("Store", "Sums")>>)

(* What makes the generator give up. *)
Missing == [One(Doc("T", Maps, <<>>), TRUE, 0) EXCEPT !.main = <<"none">>]
Malformed == [One(Doc("T", Maps, <<>>), TRUE, 0) EXCEPT !.files[<<"one">>].root = "malformed"]
BadTypes == One(Doc("T", Maps, <<Types(FALSE, {}, <<>>)>>), TRUE, 0)
UnknownResult == One(Doc("T", Maps,
  <<Message("in", <<>>), Message("out", <<TypePart("r", "t", "nowhere")>>),
    E("portType", [name |-> "Bad"], <<Op("get", <<In("t", "in"), Out("t", "out")>>)>>),
    Binding("BadSoap", "t", "Bad", "soap", "rpc", <<>>),
    E("service", [name |-> "bad"], <<Port("p", "t", "BadSoap", "here")>>)>>), FALSE, 0)

MCInputs == {Imports, DocumentStyle, Rpc, NoServices, NoBindings, JobsClash, JobsRenamed, ServicesClash,
             Missing, Malformed, BadTypes, UnknownResult}
MCUpperFirst == [foo |-> "Foo", item |-> "Item", kind |-> "Kind", read |-> "Read", write |-> "Write", push |-> "Push",
                 sum |-> "Sum", tell |-> "Tell", store |-> "Store", bad |-> "Bad", get |-> "Get", ask |-> "Ask"]
                @@ ("foo-bar" :> "Foo-bar") @@ ("foo_bar" :> "Foo_bar")
MCIdentifiers == ("foo-bar" :> "foo_bar") @@ ("Foo-bar" :> "Foo_bar")
================================================================================
