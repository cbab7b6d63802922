------------------------------ MODULE KDSoapValue ------------------------------
(***************************************************************************)
(* KDSoapValue, the tree every SOAP message is made of, written to XML and *)
(* parsed from it.                                                         *)
(*                                                                         *)
(* A text is a sequence of words, the runs between its spaces; a word is a *)
(* pair <<form, content>>: "raw" bytes, their "hex" or "b64" encoding, a   *)
(* character reference that XML forbids ("hexref", "decref"), or "txt";     *)
(* what was encoded and is encoded again is "twice".                       *)
(* A QVariant is a record [t, c] of its type and its content, a text.      *)
(*                                                                         *)
(* An XML element is [kind |-> "element", name, ns, attrs, content], where *)
(* the content mixes elements and runs of characters [kind |-> "text", c]. *)
(* The writer's namespacePrefixes maps namespaces to prefixes, and the     *)
(* declarations of a document map prefixes to namespaces.                  *)
(***************************************************************************)
EXTENDS Naturals, Sequences, SequencesExt

QName(ns, l) == [ns |-> ns, l |-> l]
NoName == QName("", "")
xsd(l) == QName("xsd", l)

Variant(t, c) == [t |-> t, c |-> c]
Null == Variant("null", <<>>)
String(c) == Variant("QString", c)
isNull(v) == v.t = "null"
Plain(w) == <<"txt", w>>

(***************************************************************************)
(* The value itself.                                                       *)
(***************************************************************************)
KDSoapValue(name, value, type) ==
  [name |-> name, ns |-> "", value |-> value, type |-> type, children |-> <<>>, attributes |-> <<>>,
   arrayType |-> NoName, qualified |-> FALSE, nillable |-> FALSE]
NullValue == KDSoapValue("", Null, NoName)

isNil(v) == isNull(v.value) /\ v.children = <<>> /\ v.attributes = <<>>
isNullValue(v) == v.name = "" /\ isNil(v)

(* The first child of that name, a null value when there is none. *)
child(list, name) ==
  LET hits == {i \in DOMAIN list : list[i].name = name}
  IN IF hits = {} THEN NullValue ELSE list[CHOOSE i \in hits : \A j \in hits : i <= j]

(* One value per word of the text; an empty text gives none. *)
split(v) == [i \in DOMAIN v.value.c |-> [v EXCEPT !.value = String(<<v.value.c[i]>>)]]

Encoded(form, c) == [i \in DOMAIN c |-> <<IF c[i][1] = "raw" THEN form ELSE "twice", c[i][2]>>]
Decoded(form, c) == [i \in DOMAIN c |-> IF c[i][1] = form THEN <<"raw", c[i][2]>> ELSE <<"raw", "garbled">>]

(* The only type that matters here is a byte array's: base64 by default. *)
variantToTextValue(v, type) ==
  IF v.t = "QByteArray" THEN Encoded(IF type = xsd("hexBinary") THEN "hex" ELSE "b64", v.c) ELSE v.c

variantToXMLType(v) ==
  CASE v.t \in {"QString", "QUrl"} -> xsd("string")
    [] v.t = "QByteArray" -> xsd("base64Binary")
    [] v.t \in {"int", "qint64", "unsigned int"} -> xsd("int")
    [] v.t = "quint64" -> xsd("unsignedInt")
    [] v.t = "bool" -> xsd("boolean")
    [] v.t \in {"float", "double"} -> xsd(v.t)
    [] v.t = "KDDateTime" -> xsd("dateTime")
    [] OTHER -> NoName

(***************************************************************************)
(* Writing.                                                                *)
(***************************************************************************)
Text(c) == [kind |-> "text", c |-> c]
Element(name, ns, attrs, content) ==
  [kind |-> "element", name |-> name, ns |-> ns, attrs |-> attrs, content |-> content]
Attribute(ns, name, c) == [ns |-> ns, name |-> name, c |-> c]

(* "prefix:name", with an empty prefix for a namespace that has none. *)
resolve(prefixes, q) == [p |-> IF q.ns \in DOMAIN prefixes THEN prefixes[q.ns] ELSE "", l |-> q.l]

(* In use=encoded the declared type is written, else the variant's own. *)
TypeAttribute(prefixes, v) ==
  LET own == IF v.type.l # "" THEN v.type
             ELSE IF isNull(v.value) THEN NoName ELSE variantToXMLType(v.value)
  IN IF own = NoName THEN <<>> ELSE <<Attribute("xsi", "type", resolve(prefixes, own))>>

ArrayAttribute(prefixes, v) ==
  IF v.arrayType = NoName THEN <<>>
  ELSE <<Attribute("soap-enc", "arrayType", <<resolve(prefixes, v.arrayType), Len(v.children)>>)>>

Characters(v) ==
  LET c == variantToTextValue(v.value, v.type) IN IF c = <<>> THEN <<>> ELSE <<Text(c)>>

WrittenAttributes(v, forceQualified) ==
  [i \in DOMAIN v.attributes |->
     LET a == v.attributes[i]
     IN Attribute(IF a.qualified \/ forceQualified THEN a.ns ELSE "", a.name, variantToTextValue(a.value, a.type))]

RECURSIVE writeElement(_, _, _, _, _)

ElementsOf(prefixes, v, use, messageNs, forceQualified) ==
  [i \in DOMAIN v.children |-> writeElement(prefixes, v.children[i], use, messageNs, forceQualified)]

(* writeElementContents(): nil for a nillable value without anything, the   *)
(* types, the attributes and the children, and the text last.               *)
writeElementContents(prefixes, v, use, messageNs, name, ns) ==
  Element(name, ns,
    (IF isNil(v) /\ v.nillable THEN <<Attribute("xsi", "nil", <<Plain("true")>>)>> ELSE <<>>)
      \o (IF use = "encoded" THEN TypeAttribute(prefixes, v) \o ArrayAttribute(prefixes, v) ELSE <<>>)
      \o WrittenAttributes(v, FALSE),
    ElementsOf(prefixes, v, use, messageNs, FALSE) \o Characters(v))

(* A value of another namespace than the message's is written qualified. *)
writeElement(prefixes, v, use, messageNs, forceQualified) ==
  LET foreign == v.ns # "" /\ v.ns # messageNs
      own == IF v.ns = "" THEN messageNs ELSE v.ns
  IN writeElementContents(prefixes, v, use, messageNs, v.name,
                          IF v.qualified \/ forceQualified \/ foreign THEN own ELSE "")

(***************************************************************************)
(* Reading.                                                                *)
(***************************************************************************)
namespaceForPrefix(decls, p) == IF p \in DOMAIN decls THEN decls[p] ELSE ""

(* By the local name alone, whatever the namespace. *)
xmlTypeToMetaType(l) ==
  CASE l = "string" -> "QString" [] l = "base64Binary" -> "QByteArray" [] l = "int" -> "int"
    [] l = "unsignedInt" -> "quint64" [] l = "boolean" -> "bool" [] l \in {"float", "double"} -> l
    [] l = "dateTime" -> "KDDateTime" [] OTHER -> "unknown"

(* QVariant::convert() from a text: a number loses its leading zeros, bytes *)
(* are the text's own, and text that is no number stays as it is.           *)
Numeric == [w \in {"007", "7", "42", "1", "0"} |-> IF w = "007" THEN "7" ELSE w]
IsNumber(c) == Len(c) = 1 /\ c[1][1] = "txt" /\ c[1][2] \in DOMAIN Numeric
Converted(c, t) ==
  CASE t \in {"int", "qint64", "unsigned int", "quint64"} ->
         IF IsNumber(c) THEN Variant(t, <<Plain(Numeric[c[1][2]])>>) ELSE String(c)
    [] t \in {"bool", "float", "double", "QByteArray"} -> Variant(t, c)
    [] OTHER -> String(c)

IsForbidden(w) == w[1] \in {"hexref", "decref"}
Damaged(c) == \E i \in DOMAIN c : IsForbidden(c[i])

Runs(e) == SelectSeq(e.content, LAMBDA x : x.kind = "text")
Elements(e) == SelectSeq(e.content, LAMBDA x : x.kind = "element")

AttributeValue(a) == KDSoapValue(a.name, String(a.c), NoName)

(* parseElement(): of the attributes of SOAP and of schema instances only   *)
(* the type is kept, the others by their local name; of several runs of     *)
(* characters the last one wins.                                            *)
RECURSIVE parseElement(_, _)
parseElement(decls, e) ==
  LET types == SelectSeq(e.attrs, LAMBDA a : a.ns = "xsi" /\ a.name = "type")
      type == IF types = <<>> THEN NoName
              ELSE QName(namespaceForPrefix(decls, types[1].c.p), types[1].c.l)
      others == SelectSeq(e.attrs, LAMBDA a : a.ns \notin {"xsi", "soap-enc", "soap"})
      text == IF Runs(e) = <<>> THEN <<>> ELSE Last(Runs(e)).c
  IN [KDSoapValue(e.name, IF text = <<>> THEN Null ELSE Converted(text, xmlTypeToMetaType(type.l)), type)
        EXCEPT !.ns = e.ns,
               !.attributes = [i \in DOMAIN others |-> AttributeValue(others[i])],
               !.children = [i \in DOMAIN Elements(e) |-> parseElement(decls, Elements(e)[i])]]

(***************************************************************************)
(* What may lie between the writer and the reader.                         *)
(***************************************************************************)
RECURSIVE MapRuns(_, _)
MapRuns(f(_), e) ==
  [e EXCEPT !.content = FlattenSeq([i \in DOMAIN e.content |->
     IF e.content[i].kind = "text" THEN f(e.content[i]) ELSE <<MapRuns(f, e.content[i])>>])]

(* Every word of the characters of an element, in the order of the text. *)
RECURSIVE Words(_)
Words(e) ==
  FlattenSeq([i \in DOMAIN e.content |->
    IF e.content[i].kind = "text" THEN e.content[i].c ELSE Words(e.content[i])])

ReplaceWord(c, w, by) == [i \in DOMAIN c |-> IF c[i] = w THEN by ELSE c[i]]
Substituted(e, w, by) == MapRuns(LAMBDA run : <<Text(ReplaceWord(run.c, w, by))>>, e)

(* A comment or a CDATA section ends a run: each word a run of its own. *)
Interrupted(e) == MapRuns(LAMBDA run : [i \in DOMAIN run.c |-> Text(<<run.c[i]>>)], e)
================================================================================
