---------------------------- MODULE KWSDLConverter ----------------------------
(***************************************************************************)
(* Converter::setWSDL(): cleanupUnusedTypes() keeps the messages, schema   *)
(* elements and types that the services can reach.  The types are gathered *)
(* by TypeCollector in rounds over QSets, whose iteration order is left to *)
(* the hash seed: a round takes its types in any order.                    *)
(*                                                                         *)
(* A schema type is a record [name, kind, base, uses, anonymous,           *)
(* conflicting]: its qualified name, "complex" or "simple", its base type, *)
(* the types of its elements, attributes and array (for a simple type, of  *)
(* its list), whether it has no name of its own in the schema, and the     *)
(* flag set here.                                                          *)
(***************************************************************************)
EXTENDS KWSDLDefinitions, FiniteSetsExt

CONSTANTS UpperFirst,    \* each local name that starts with a lower-case letter |-> the name with an upper-case one
          Identifiers    \* each local name with characters an identifier cannot have |-> the name with _ for them

VARIABLE collector    \* the TypeCollector: [all, todo, also, complex, simple, phase]

IsLower(l) == l \in DOMAIN UpperFirst
Identifier(l) == IF l \in DOMAIN Identifiers THEN Identifiers[l] ELSE l
upperlize(l) == Identifier(IF IsLower(l) THEN UpperFirst[l] ELSE l)
lowerlize(l) ==
  LET has(k) == UpperFirst[k] = upperlize(l)
  IN IF \E k \in DOMAIN UpperFirst : has(k) THEN CHOOSE k \in DOMAIN UpperFirst : has(k) ELSE upperlize(l)

SeqRange(s) == {s[i] : i \in DOMAIN s}

(***************************************************************************)
(* MessageCollector: the messages of the operations of the port types that *)
(* the ports of the services are bound to, and those of their headers.     *)
(***************************************************************************)
OperationMessages(op) ==
  CASE op.type = "OneWayOperation" -> {op.input}
    [] op.type = "NotificationOperation" -> {op.output}
    [] OTHER -> {op.input, op.output}

HeaderMessages(binding, op) ==
  IF binding.type # "SOAPBinding" THEN {}
  ELSE LET soap == SoapOperation(binding.soapOperations, op.name)
       IN {h.message : h \in SeqRange(soap.inputHeaders) \cup SeqRange(soap.outputHeaders)}

BoundBindings(defs) ==
  {findBinding(defs, p.binding) : p \in UNION {SeqRange(s.ports) : s \in SeqRange(defs.services)}}

collectMessages(defs) ==
  LET messages(b) == UNION {OperationMessages(op) \cup HeaderMessages(b, op) :
                              op \in SeqRange(findPortType(defs, b.portType).operations)}
  IN UNION {messages(b) : b \in BoundBindings(defs)}

UsedMessages(defs) == {findMessage(defs, n) : n \in collectMessages(defs)}
UsedParts(defs) == UNION {SeqRange(m.parts) : m \in UsedMessages(defs)}

(* The element of a part without type, if it is found and has a type. *)
UsedElements(defs) ==
  {e \in {findElement(defs, p.element) : p \in {q \in UsedParts(defs) : q.type = NoName}} : e.type # NoName}

UsedTypes(defs) ==
  {p.type : p \in {q \in UsedParts(defs) : q.type # NoName}} \cup {e.type : e \in UsedElements(defs)}

(***************************************************************************)
(* TypeCollector.                                                          *)
(***************************************************************************)
IsBuiltin(name) == name.ns = "xsd"
Declared(defs, name, kind) == {t \in defs.types : t.name = name /\ t.kind = kind}

registerDerivedClasses(defs, type) ==
  {d.name : d \in {t \in defs.types : t.kind = "complex" /\ t.base = type.name}}

(* Mutant: the derived types are forgotten. *)
Dependencies_no_derived(defs, type) == {type.base} \cup type.uses

Dependencies(defs, type) ==
  IF type.kind = "complex"
  THEN {type.base} \cup registerDerivedClasses(defs, type) \cup type.uses
  ELSE {type.base} \cup type.uses

(* Mutant: only a lower-case type that comes last is marked. *)
fixupComplexType_one_way(complex, type) ==
  LET upper == QName(type.name.ns, upperlize(type.name.l)) IN
  complex \cup {[type EXCEPT !.conflicting = IsLower(type.name.l) /\ \E t \in complex : t.name = upper]}

(* A type foo and a type Foo of one namespace would generate one class:    *)
(* foo is marked, whichever of them comes first.                           *)
fixupComplexType(complex, type) ==
  LET upper == QName(type.name.ns, upperlize(type.name.l))
      lower == QName(type.name.ns, lowerlize(type.name.l))
      has(n) == \E t \in complex : t.name = n
  IN IF IsLower(type.name.l)
     THEN complex \cup {[type EXCEPT !.conflicting = @ \/ has(upper)]}
     ELSE {IF t.name = lower THEN [t EXCEPT !.conflicting = TRUE] ELSE t : t \in complex} \cup {type}

NoCollector == [all |-> {}, todo |-> {}, also |-> {}, complex |-> {}, simple |-> {}, phase |-> "idle"]

startCollecting(defs) ==
  collector' = [NoCollector EXCEPT !.all = UsedTypes(defs), !.todo = UsedTypes(defs), !.phase = "collecting"]

(* addDependency() for each type the record names. *)
WithDependencies(c, defs, type) ==
  LET new == Dependencies(defs, type) \ (c.all \cup {NoName})
  IN [c EXCEPT !.all = @ \cup new, !.also = @ \cup new]

Processed(c, defs, name) ==
  LET rest == [c EXCEPT !.todo = @ \ {name}]
      complex == Declared(defs, name, "complex")
      simple == Declared(defs, name, "simple")
      type == CHOOSE t \in (IF complex # {} THEN complex ELSE simple) : TRUE
  IN IF name = NoName \/ IsBuiltin(name) \/ complex \cup simple = {} THEN rest
     ELSE IF complex # {}
     THEN WithDependencies([rest EXCEPT !.complex = fixupComplexType(@, type)], defs, type)
     ELSE WithDependencies([rest EXCEPT !.simple = @ \cup {type}], defs, type)

collectType(defs) ==
  /\ collector.phase = "collecting"
  /\ \E name \in collector.todo : collector' = Processed(collector, defs, name)

(* Mutant: the types of the last round are not cleared. *)
nextRound_keeps_also ==
  /\ collector.phase = "collecting"
  /\ collector.todo = {} /\ collector.also # {}
  /\ collector' = [collector EXCEPT !.todo = collector.also]

nextRound ==
  /\ collector.phase = "collecting"
  /\ collector.todo = {} /\ collector.also # {}
  /\ collector' = [collector EXCEPT !.todo = collector.also, !.also = {}]

CollectingDone == collector.phase = "collecting" /\ collector.todo = {} /\ collector.also = {}

(* The end of cleanupUnusedTypes(). *)
Cleaned(defs) ==
  [defs EXCEPT !.messages = SetToSeq(UsedMessages(defs)),
               !.elements = SetToSeq(UsedElements(defs)),
               !.types = collector.complex \cup collector.simple]

(***************************************************************************)
(* TypeMap::addSchemaTypes(): the class of a type.                         *)
(***************************************************************************)
TypeClass(type) ==
  [ns |-> type.name.ns,
   name |-> upperlize(type.name.l) \o
            (IF ~type.conflicting THEN "" ELSE IF type.anonymous THEN "Element" ELSE "Type")]

(* TypeMap::localType(): whether the type of a part, or that of its         *)
(* element, is known.  An element whose type is not is left out.            *)
KnownType(defs, name) == IsBuiltin(name) \/ \E t \in defs.types : t.name = name
PartType(defs, part) == IF part.type # NoName THEN part.type ELSE findElement(defs, part.element).type
HasLocalType(defs, part) == KnownType(defs, PartType(defs, part))
================================================================================
