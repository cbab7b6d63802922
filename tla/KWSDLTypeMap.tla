------------------------------ MODULE KWSDLTypeMap ------------------------------
(***************************************************************************)
(* TypeMap: from the types of an XML schema to C++ types, and how a value  *)
(* of a builtin type becomes a KDSoapValue and is read back.               *)
(*                                                                         *)
(* A schema is the record [prefix, simple, complex] that the XSD parser    *)
(* (libkode) delivers: sequences of named types, and the prefix of each    *)
(* namespace.  8-bit integers, dates and times, and *)
(* QNames are left out: what they do to a text is Qt's.                    *)
(***************************************************************************)
EXTENDS KDSoapValue

Strings == {"anyURI", "duration", "gYear", "ID", "IDREF", "language", "Name", "NCName", "NMTOKEN",
            "NOTATION", "normalizedString", "string", "token"}
Signed == {"integer", "long", "negativeInteger", "nonPositiveInteger"}
Unsigned == {"nonNegativeInteger", "positiveInteger", "unsignedLong"}

(* The C++ type of a builtin type: integers without bounds get 64 bits and *)
(* decimals become floats.                                                 *)
BuiltinType ==
  [l \in Strings |-> "QString"] @@ [l \in Signed |-> "qint64"] @@ [l \in Unsigned |-> "quint64"]
    @@ [l \in {"int", "short"} |-> "int"] @@ [l \in {"unsignedInt", "unsignedShort"} |-> "unsigned int"]
    @@ [l \in {"base64Binary", "hexBinary"} |-> "QByteArray"] @@ [l \in {"decimal", "float"} |-> "float"]
    @@ [l \in {"any", "anyType"} |-> "KDSoapValue"]
    @@ [double |-> "double", boolean |-> "bool", dateTime |-> "KDDateTime", anySimpleType |-> "QVariant"]

NoEntry == [builtin |-> FALSE, basic |-> FALSE, complex |-> FALSE, polymorphic |-> FALSE,
            local |-> "", base |-> NoName]

addBuiltinType(l) ==
  [NoEntry EXCEPT !.builtin = TRUE, !.local = BuiltinType[l],
                  !.basic = BuiltinType[l] \notin {"QString", "QByteArray", "QVariant", "KDSoapValue", "KDDateTime"}]

(* A generated class is named after the prefix of its namespace; a         *)
(* complex type in conflict with another one gets a suffix.                *)
ClassName(T, name) == <<T.prefix[name.ns], name.l>>
ComplexEntry(T, t) ==
  [NoEntry EXCEPT !.complex = TRUE, !.polymorphic = t.polymorphicBase,
                  !.local = ClassName(T, t.name) \o (IF ~t.conflicting THEN <<>>
                                                     ELSE IF t.anonymous THEN <<"Element">> ELSE <<"Type">>)]
SimpleEntry(T, t) == [NoEntry EXCEPT !.local = ClassName(T, t.name), !.base = t.base]

Declared(list, q) == SelectSeq(list, LAMBDA t : t.name = q)

(* typeEntry(): the builtin types first, then the schema's simple and      *)
(* complex types; an unknown type has none.                                *)
typeEntry(T, q) ==
  IF q.ns = "xsd" /\ q.l \in DOMAIN BuiltinType THEN addBuiltinType(q.l)
  ELSE IF Declared(T.simple, q) # <<>> THEN SimpleEntry(T, Declared(T.simple, q)[1])
  ELSE IF Declared(T.complex, q) # <<>> THEN ComplexEntry(T, Declared(T.complex, q)[1])
  ELSE NoEntry

isBuiltinType(T, q) == typeEntry(T, q).builtin
isComplexType(T, q) == typeEntry(T, q).complex
isPolymorphic(T, q) == typeEntry(T, q).polymorphic
localType(T, q) == typeEntry(T, q).local
isTypeAny(q) == q \in {xsd("any"), xsd("anyType")}

(***************************************************************************)
(* Values of builtin types.                                                *)
(***************************************************************************)
(* The value of a variable that was never assigned. *)
Initial(local) ==
  CASE local \in {"int", "qint64", "unsigned int", "quint64", "float", "double"} -> Variant(local, <<Plain("0")>>)
    [] local = "bool" -> Variant("bool", <<Plain("false")>>)
    [] local = "QVariant" -> Null
    [] OTHER -> Variant(local, <<>>)

(* Bytes and dates are turned into text here, the rest when it is written. *)
serializeBuiltin(q, v, name, type) ==
  KDSoapValue(name,
    CASE q.l = "hexBinary" -> String(Encoded("hex", v.c))
      [] q.l = "base64Binary" -> String(Encoded("b64", v.c))
      [] q.l = "dateTime" -> String(v.c)
      [] OTHER -> v,
    type)

(* QVariant::value<T>(): text that is no number reads as zero. *)
As(local, v) ==
  IF local \notin {"int", "qint64", "unsigned int", "quint64"} THEN Variant(local, v.c)
  ELSE IF IsNumber(v.c) THEN Variant(local, Converted(v.c, local).c) ELSE Initial(local)

deserializeBuiltin(q, v) ==
  CASE q.l = "hexBinary" -> Variant("QByteArray", Decoded("hex", v.value.c))
    [] q.l = "base64Binary" -> Variant("QByteArray", Decoded("b64", v.value.c))
    [] q.l = "dateTime" -> Variant("KDDateTime", v.value.c)
    [] q.l = "anySimpleType" -> v.value
    [] OTHER -> As(BuiltinType[q.l], v.value)
================================================================================
