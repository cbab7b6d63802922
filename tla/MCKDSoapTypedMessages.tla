------------------------- MODULE MCKDSoapTypedMessages -------------------------
(* Small schemas for TLC, one for each kind of type and each way to use a  *)
(* member, and one message with headers and addressing properties.         *)
EXTENDS KDSoapTypedMessages

t(l) == QName("t", l)
Words1(w) == <<Plain(w)>>
a == Words1("a")
ab == <<Plain("a"), Plain("b")>>
Str(c) == Variant("QString", c)
Num(w) == Variant("int", Words1(w))
Bytes == Variant("QByteArray", <<<<"raw", "data">>>>)

El(l, type, min, max) ==
  [name |-> QName("ns", l), type |-> type, min |-> min, max |-> max, choice |-> FALSE, groupMin |-> 1,
   groupMax |-> 1, nillable |-> FALSE, qualified |-> FALSE, substitutions |-> FALSE]
Att(l, type, use) == [name |-> QName("", l), type |-> type, use |-> use, default |-> <<>>, qualified |-> FALSE]
Complex(l, base, elements, attributes) ==
  [name |-> t(l), base |-> base, array |-> NoName, elements |-> elements, attributes |-> attributes,
   polymorphicBase |-> FALSE, conflicting |-> FALSE, anonymous |-> FALSE, substitution |-> NoName]
Simple(l, kind, base, values) == [name |-> t(l), kind |-> kind, base |-> base, values |-> values]
Schema(simple, complex) == [prefix |-> ("t" :> "T"), simple |-> simple, complex |-> complex]

Case(T, fields) ==
  [T |-> T, root |-> t("Root"), fields |-> fields, headers |-> {}, addressings |-> {},
   rpc |-> FALSE, use |-> "literal", version |-> "1.1", security |-> FALSE,
   faults |-> {}]

(* Required, optional, nillable and repeated members and attributes. *)
Plainly ==
  LET T == Schema(<<>>, <<
        Complex("Root", NoName,
          <<[El("s", xsd("string"), 1, 1) EXCEPT !.qualified = TRUE], El("n", xsd("int"), 0, 1),
            [El("in", t("Inner"), 0, 1) EXCEPT !.nillable = TRUE], El("many", xsd("string"), 0, 2)>>,
          <<Att("id", xsd("string"), "optional"), Att("no", xsd("int"), "required")>>),
        Complex("Inner", NoName, <<El("x", xsd("int"), 0, 1)>>, <<>>)>>)
      inner(n) == [NewObject(T, t("Inner")) EXCEPT !.fields.x = [nil |-> FALSE, v |-> Num(n)]]
  IN Case(T, [s |-> {Str(ab)}, n |-> {Num("7")}, in |-> {inner("1"), NewObject(T, t("Inner"))},
              many |-> {<<>>, <<Str(ab), Str(<<>>)>>}, id |-> {Str(a)}, no |-> {Num("42")}])

(* Derived classes, in a pointer, in a list and in a substitution group. *)
Derived ==
  LET base == [Complex("Base", NoName, <<El("b", xsd("string"), 1, 1)>>, <<>>)
                 EXCEPT !.polymorphicBase = TRUE, !.substitution = QName("ns", "head")]
      derived == [Complex("Derived", t("Base"), <<El("d", xsd("string"), 1, 1)>>, <<>>)
                    EXCEPT !.substitution = QName("ns", "other")]
      T == Schema(<<>>, <<Complex("Root", NoName,
             <<El("p", t("Base"), 1, 1), El("list", t("Base"), 0, 2),
               [El("head", t("Base"), 0, 1) EXCEPT !.substitutions = TRUE], El("self", t("Root"), 0, 1),
               El("der", t("Derived"), 0, 1)>>, <<>>),
             base, derived>>)
      b == [NewObject(T, t("Base")) EXCEPT !.fields.b = [nil |-> FALSE, v |-> Str(a)]]
      d == [NewObject(T, t("Derived")) EXCEPT !.fields.b = [nil |-> FALSE, v |-> Str(ab)],
                                              !.fields.d = [nil |-> FALSE, v |-> Str(a)]]
  IN Case(T, [p |-> {b, d}, list |-> {<<b, d>>, <<b>>}, head |-> {b, d}, der |-> {d},
              self |-> {NewObject(T, t("Root"))}])

(* A choice that repeats a name, an array of SOAP's encoding, anything. *)
Loose ==
  LET T == Schema(<<>>, <<
        Complex("Root", NoName,
          <<[El("c", xsd("string"), 1, 1) EXCEPT !.choice = TRUE], [El("c", xsd("string"), 1, 1) EXCEPT !.choice = TRUE],
            El("arr", t("Array"), 1, 1), El("rest", xsd("any"), 0, 1)>>, <<>>),
        [Complex("Array", QName("soap-enc", "Array"), <<El("entries", xsd("anyType"), 0, 2)>>, <<>>)
           EXCEPT !.array = xsd("int")]>>)
      array == [NewObject(T, t("Array")) EXCEPT !.fields.entries = [nil |-> FALSE, v |-> <<Num("1"), Num("7")>>]]
  IN [Case(T, [c |-> {Str(a)}, arr |-> {array}, rest |-> {KDSoapValue("other", Str(ab), NoName)}])
        EXCEPT !.rpc = TRUE, !.use = "encoded"]

(* Simple types of every kind, encoded, one of them named like a builtin. *)
Simply ==
  LET T == Schema(<<Simple("Color", "enum", xsd("string"), <<Words1("red"), Words1("green")>>),
                    Simple("Names", "list", xsd("string"), <<>>), Simple("Numbers", "list", xsd("int"), <<>>),
                    Simple("Code", "restriction", xsd("hexBinary"), <<>>), Simple("SubCode", "restriction", t("Code"), <<>>),
                    Simple("Any", "union", NoName, <<>>), Simple("int", "restriction", xsd("string"), <<>>)>>,
             <<Complex("Root", t("SubCode"), <<El("u", t("Any"), 0, 1), El("i", t("int"), 0, 1)>>,
                 <<Att("color", t("Color"), "optional"), Att("names", t("Names"), "optional"),
                   Att("data", xsd("base64Binary"), "optional"), Att("free", xsd("anySimpleType"), "optional")>>)>>)
      of(l, v) == [class |-> t(l), fields |-> [value |-> [nil |-> FALSE, v |-> v]]]
  IN [Case(T, [value |-> {of("SubCode", of("Code", Bytes))}, u |-> {of("Any", Str(a)), of("Any", Num("7"))},
               i |-> {of("int", Str(Words1("007"))), of("int", Str(ab))}, color |-> {of("Color", Words1("green"))},
               names |-> {of("Names", <<Str(a), Str(Words1("b"))>>), of("Names", <<Str(ab)>>)},
               data |-> {Bytes}, free |-> {Str(a)}])
        EXCEPT !.use = "encoded"]

(* One member, headers of several elements and addressing properties. *)
HeaderOf(names) ==
  [NoMessage EXCEPT !.children = [i \in DOMAIN names |-> KDSoapValue(names[i], Str(a), NoName)]]
Foreign == [HeaderOf(<<"own">>) EXCEPT !.children[1].ns = "own", !.use = "encoded"]
Parameters == <<[KDSoapValue("outer", Null, NoName) EXCEPT !.children = <<KDSoapValue("inner", Str(a), NoName)>>]>>
Full == [addRelationship(addRelationship(addRelationship(DefaultAddressing, Words1("m1"), <<>>), <<>>, a), Words1("m2"), ab)
           EXCEPT !.ns = "wsa200408", !.destination = a, !.source = a, !.reply = ab, !.fault = a, !.id = a,
                  !.parameters = Parameters, !.metadata = <<KDSoapValue("meta", Str(ab), NoName)>>]
Nobody == [DefaultAddressing EXCEPT !.destination = predefinedNone("wsa200508"), !.id = a]
WithHeaders ==
  [Case(Schema(<<>>, <<Complex("Root", NoName, <<El("s", xsd("string"), 0, 1)>>, <<>>)>>), [s |-> {Str(a)}])
     EXCEPT !.headers = {HeaderOf(<<"h1", "h2">>), Foreign}, !.addressings = {Full, Nobody}]

Harmed(c) == [c EXCEPT !.faults = {"hexref", "decref", "runs", "cut"}]
Few == [WithHeaders EXCEPT !.addressings = {Full}, !.headers = {HeaderOf(<<"h1">>)}]

MCCases == {Harmed(Plainly), [Plainly EXCEPT !.rpc = TRUE, !.use = "encoded"], Derived, Loose, Harmed(Simply),
             WithHeaders, Harmed(Few), Harmed([Few EXCEPT !.version = "1.2", !.security = TRUE, !.addressings = {}])}
MCKeyOrder == <<"k1", "k2">>
================================================================================
