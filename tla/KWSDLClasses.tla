------------------------------ MODULE KWSDLClasses ------------------------------
(***************************************************************************)
(* The C++ classes the converter generates for the types of a schema: what *)
(* their members are, and what their setters, serialize() and              *)
(* deserialize() do.                                                       *)
(*                                                                         *)
(* A complex type is [name, base, array, elements, attributes,             *)
(* polymorphicBase, conflicting, anonymous, substitution], an element      *)
(* [name, type, min, max, choice, groupMin, groupMax, nillable, qualified, *)
(* substitutions], an attribute [name, type, use, default, qualified]; a   *)
(* simple type is [name, kind, base, values], where base is also the item   *)
(* type of a list; setters check the facets of a type and only log what     *)
(* they find.  An object is [class, fields]; a field [nil, v] holds a       *)
(* value, an object or a sequence of these, and nil says that an optional  *)
(* one was not set, or that its pointer is null.                           *)
(***************************************************************************)
EXTENDS KWSDLTypeMap

ComplexType(T, q) == Declared(T.complex, q)[1]
SimpleType(T, q) == Declared(T.simple, q)[1]

(***************************************************************************)
(* Members.                                                                *)
(***************************************************************************)
isElementOptional(e) == e.min = 0 \/ e.choice \/ e.groupMin = 0
IsList(t, e) == e.max > 1 \/ e.groupMax > 1 \/ t.array # NoName
ItemType(t, e) == IF t.array # NoName THEN t.array ELSE e.type

(* An optional Foo in the class Foo would contain itself: a pointer, as for *)
(* an element that may hold an object of a derived class.                   *)
usePointerForElement(T, t, e) ==
  ~IsList(t, e) /\ (isPolymorphic(T, e.type) \/ (isElementOptional(e) /\ e.type = t.name))

Member(name, type, list, optional, pointer) ==
  [name |-> name, type |-> type, list |-> list, optional |-> optional, pointer |-> pointer]

HasBaseClass(T, t) == t.base # NoName /\ t.array = NoName /\ isComplexType(T, t.base)
HasValue(T, t) == t.base \notin {NoName, xsd("anyType")} /\ t.array = NoName /\ ~isComplexType(T, t.base)

(* Elements of the same name share one member, the first one's. *)
FirstOfName(list, i) == \A j \in 1..(i - 1) : list[j].name.l # list[i].name.l
ElementMembers(T, t) ==
  {Member(t.elements[i].name.l, ItemType(t, t.elements[i]), IsList(t, t.elements[i]),
          isElementOptional(t.elements[i]), usePointerForElement(T, t, t.elements[i])) :
     i \in {k \in DOMAIN t.elements : FirstOfName(t.elements, k)}}

(* Every attribute becomes a member, a prohibited one too. *)
AttributeMembers(T, t) ==
  {Member(a.name.l, a.type, FALSE, a.use \in {"optional", "prohibited"}, FALSE) :
     a \in {t.attributes[i] : i \in DOMAIN t.attributes}}

ValueMember(T, t) == IF HasValue(T, t) THEN {Member("value", t.base, FALSE, FALSE, FALSE)} ELSE {}

convertComplexType(T, t) == ValueMember(T, t) \cup ElementMembers(T, t) \cup AttributeMembers(T, t)

RECURSIVE Members(_, _)
Members(T, t) ==
  convertComplexType(T, t) \cup (IF HasBaseClass(T, t) THEN Members(T, ComplexType(T, t.base)) ELSE {})

(***************************************************************************)
(* Construction, setters and getters.                                      *)
(***************************************************************************)
NullPointer == [class |-> NoName, fields |-> <<>>]
Set(v) == [nil |-> FALSE, v |-> v]

RECURSIVE NewItem(_, _)
NewObject(T, q) ==
  LET ms == Members(T, ComplexType(T, q))
      fresh(m) == IF m.list THEN <<>> ELSE IF m.pointer /\ m.optional THEN NullPointer ELSE NewItem(T, m.type)
  IN [class |-> q,
      fields |-> [n \in {m.name : m \in ms} |->
                    LET m == CHOOSE x \in ms : x.name = n IN [nil |-> m.optional, v |-> fresh(m)]]]

(* An enumeration starts as its first value. *)
NewSimple(T, s) ==
  [class |-> s.name,
   fields |-> [value |-> Set(CASE s.kind = "enum" -> s.values[1]
                               [] s.kind = "list" -> <<>>
                               [] s.kind = "union" -> Null
                               [] OTHER -> NewItem(T, s.base))]]

NewItem(T, q) ==
  IF isTypeAny(q) THEN NullValue
  ELSE IF isBuiltinType(T, q) THEN Initial(localType(T, q))
  ELSE IF isComplexType(T, q) THEN NewObject(T, q) ELSE NewSimple(T, SimpleType(T, q))

setMember(obj, name, v) == [obj EXCEPT !.fields[name] = Set(v)]

(***************************************************************************)
(* serialize().                                                            *)
(***************************************************************************)
RECURSIVE SerializeItem(_, _, _, _)

serializeSimple(T, s, obj, name) ==
  LET v == obj.fields.value.v IN
  CASE s.kind = "enum" -> KDSoapValue(name, String(v), s.name)
    [] s.kind = "union" -> KDSoapValue(name, v, s.name)
    [] s.kind = "list" ->
         KDSoapValue(name, String(FlattenSeq([i \in DOMAIN v |-> SerializeItem(T, s.base, v[i], "").value.c])), s.name)
    [] OTHER -> IF isBuiltinType(T, s.base) THEN serializeBuiltin(s.base, v, name, s.name)
                ELSE [SerializeItem(T, s.base, v, name) EXCEPT !.type = s.name]

(* generateSerializationCode() for one value of an element or an attribute. *)
Serialized(T, type, v, name, qualified, nillable) ==
  IF isTypeAny(type) THEN IF isNullValue(v) THEN <<>> ELSE <<v>>
  ELSE <<[SerializeItem(T, type, v, name.l) EXCEPT !.ns = name.ns, !.qualified = @ \/ qualified,
                                                   !.nillable = nillable]>>

(* A member of a substitution group is named by the class of the object. *)
ElementName(T, t, e, v) ==
  IF t.array # NoName THEN QName(e.name.ns, "item")
  ELSE IF e.substitutions THEN ComplexType(T, v.class).substitution ELSE e.name

(* Only a single optional element is left out when it was not set. *)
SerializeElement(T, t, e, field) ==
  LET items == IF IsList(t, e) THEN field.v
               ELSE IF field.nil /\ ~isTypeAny(e.type) THEN <<>> ELSE <<field.v>>
      nillable == e.nillable /\ (IsList(t, e) => t.array # NoName)
  IN FlattenSeq([i \in DOMAIN items |->
       Serialized(T, ItemType(t, e), items[i], ElementName(T, t, e, items[i]), e.qualified, nillable)])

SerializeAttribute(T, a, field) ==
  IF field.nil THEN <<>> ELSE Serialized(T, a.type, field.v, a.name, a.qualified, FALSE)

RECURSIVE SerializeAs(_, _, _, _)

(* What a class makes of the value of its base class or base type. *)
SerializedBase(T, t, obj, name) ==
  IF HasBaseClass(T, t) THEN [SerializeAs(T, ComplexType(T, t.base), obj, name) EXCEPT !.type = t.name]
  ELSE IF ~HasValue(T, t) THEN KDSoapValue(name, Null, t.name)
  ELSE IF isBuiltinType(T, t.base) THEN serializeBuiltin(t.base, obj.fields.value.v, name, t.name)
  ELSE [SerializeItem(T, t.base, obj.fields.value.v, name) EXCEPT !.type = t.name]

(* createComplexTypeSerializer(), the code of serialize(). *)
SerializeAs(T, t, obj, name) ==
  LET base == SerializedBase(T, t, obj, name)
      all(list, f(_)) == FlattenSeq([i \in DOMAIN list |-> f(list[i])])
  IN [base EXCEPT
       !.qualified = @ \/ (t.elements # <<>> /\ t.elements[1].qualified),
       !.arrayType = IF t.array = NoName THEN @ ELSE t.array,
       !.children = @ \o all(t.elements, LAMBDA e : SerializeElement(T, t, e, obj.fields[e.name.l])),
       !.attributes = @ \o all(t.attributes, LAMBDA a : SerializeAttribute(T, a, obj.fields[a.name.l]))]

(* A virtual function where the class has derived ones: by the object's class. *)
SerializeItem(T, q, v, name) ==
  IF isBuiltinType(T, q) THEN serializeBuiltin(q, v, name, q)
  ELSE IF isComplexType(T, q) THEN SerializeAs(T, ComplexType(T, v.class), v, name)
  ELSE serializeSimple(T, SimpleType(T, q), v, name)

(***************************************************************************)
(* deserialize().                                                          *)
(***************************************************************************)
RECURSIVE DeserializeItem(_, _, _, _)

(* An unknown name leaves an enumeration as it was; a list only grows. *)
deserializeSimple(T, s, obj, val) ==
  LET v == obj.fields.value.v
      words == split(val)
  IN [obj EXCEPT !.fields.value.v =
       CASE s.kind = "enum" -> IF \E i \in DOMAIN s.values : s.values[i] = val.value.c THEN val.value.c ELSE v
         [] s.kind = "union" -> val.value
         [] s.kind = "list" -> v \o [i \in DOMAIN words |-> DeserializeItem(T, s.base, NewItem(T, s.base), words[i])]
         [] OTHER -> DeserializeItem(T, s.base, v, val)]

(* Mutant: a new item goes to the front. *)
demarshalArray_prepends(T, type, field, val) ==
  [nil |-> FALSE, v |-> <<DeserializeItem(T, type, NewItem(T, type), val)>> \o field.v]

(* demarshalArray(): a new item of the declared type, whatever was sent. *)
demarshalArray(T, type, field, val) ==
  [nil |-> FALSE, v |-> Append(field.v, DeserializeItem(T, type, NewItem(T, type), val))]

(* demarshalVariable(): into what is there, and behind a null pointer into  *)
(* a new object of the declared type.                                       *)
demarshalVariable(T, type, field, val) ==
  Set(DeserializeItem(T, type, IF field.v = NullPointer THEN NewItem(T, type) ELSE field.v, val))

(* demarshalNameTest(): xsd:any takes every name; the first element wins.   *)
Matching(list, name) ==
  LET hits == {i \in DOMAIN list : list[i].type = xsd("any") \/ list[i].name.l = name}
  IN IF hits = {} THEN 0 ELSE CHOOSE i \in hits : \A j \in hits : i <= j

DeserializeElement(T, t, obj, val) ==
  LET i == IF t.array # NoName THEN 1 ELSE Matching(t.elements, val.name) IN
  IF i = 0 THEN obj
  ELSE LET e == t.elements[i] IN
       [obj EXCEPT !.fields[e.name.l] =
          IF IsList(t, e) THEN demarshalArray(T, ItemType(t, e), @, val) ELSE demarshalVariable(T, e.type, @, val)]

DeserializeAttribute(T, t, obj, val) ==
  LET i == Matching(t.attributes, val.name) IN
  IF i = 0 THEN obj
  ELSE [obj EXCEPT !.fields[t.attributes[i].name.l] = demarshalVariable(T, t.attributes[i].type, @, val)]

RECURSIVE DeserializeAs(_, _, _, _)

(* Mutant: the base class is not read. *)
DeserializedBase_forgotten(T, t, obj, val) == obj
DeserializedBase(T, t, obj, val) ==
  IF HasBaseClass(T, t) THEN DeserializeAs(T, ComplexType(T, t.base), obj, val)
  ELSE IF HasValue(T, t) THEN [obj EXCEPT !.fields["value"] = demarshalVariable(T, t.base, @, val)]
  ELSE obj

(* createComplexTypeSerializer(), the code of deserialize(). *)
DeserializeAs(T, t, obj, val) ==
  FoldLeft(LAMBDA o, a : DeserializeAttribute(T, t, o, a),
    FoldLeft(LAMBDA o, c : DeserializeElement(T, t, o, c), DeserializedBase(T, t, obj, val), val.children),
    val.attributes)

DeserializeItem(T, q, old, val) ==
  IF isTypeAny(q) THEN val
  ELSE IF isBuiltinType(T, q) THEN deserializeBuiltin(q, val)
  ELSE IF isComplexType(T, q) THEN DeserializeAs(T, ComplexType(T, old.class), old, val)
  ELSE deserializeSimple(T, SimpleType(T, q), old, val)
================================================================================
