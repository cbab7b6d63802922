--------------------------- MODULE KWSDLDefinitions ---------------------------
(***************************************************************************)
(* Definitions::loadXML() and importDefinition(): the documents of a WSDL  *)
(* are read into one Definitions object.  loadXML() calls itself for each  *)
(* import on the same object, so the recursion is a stack of documents     *)
(* being read and one action reads one child element of the topmost.  The  *)
(* context of a document -- target namespace, name, base URL -- lives in   *)
(* the object and the parser context, is overwritten by an import and put  *)
(* back after it.                                                          *)
(*                                                                         *)
(* A URL is the sequence of its path's components.  Files maps the URLs    *)
(* that can be downloaded and parsed to their documents:                   *)
(* [root, tns, name, map, items]; items is a sequence of elements, an      *)
(* import holding a relative "location" (a sequence too, empty if absent). *)
(* The XML schema parser is external: a "types" element gives the types    *)
(* and the schema elements it declares, or fails.                          *)
(***************************************************************************)
EXTENDS KWSDLElements, FiniteSets

CONSTANTS Inputs,    \* set of [files, main, wanted, keepUnused, nameSpace, calls]: the documents, the one to
                     \* compile, the settings, and a bound on the calls made with the generated code
          MaxDepth   \* bound on the documents being read at once

(* A schema type as the schema parser gives it; see KWSDLConverter.        *)
QNames == [ns : STRING, l : STRING]
SchemaType ==
  [name : QNames, kind : {"complex", "simple"}, base : QNames, uses : SUBSET QNames,
   anonymous : BOOLEAN, conflicting : BOOLEAN]

(* The types that the documents of an input declare.                       *)
TypesOfItem(item) == IF item.tag = "types" THEN item.types ELSE {}
TypesOfDocument(doc) == UNION {TypesOfItem(doc.items[n]) : n \in 1..Len(doc.items)}
TypesOf(i) == UNION {TypesOfDocument(i.files[u]) : u \in DOMAIN i.files}

ASSUME InputsAssumption ==
  \A i \in Inputs :
    /\ TypesOf(i) \subseteq SchemaType
    /\ \A u \in DOMAIN i.files :
         u \in Seq(STRING) /\ i.files[u].tns \in STRING /\ i.files[u].name \in STRING /\ Len(i.files[u].items) \in Nat

VARIABLES input,        \* the member of Inputs of this run
          definitions,  \* the Definitions object
          baseUrl,      \* context->documentBaseUrl()
          stack,        \* the documents being read: [url, pos, tns, name, base], the saved context in the last three
          loading       \* "idle", "reading", "loaded" or "failed"

loadVars == <<input, definitions, baseUrl, stack, loading>>

NoDefinitions ==
  [tns |-> "", name |-> "", types |-> {}, elements |-> <<>>, messages |-> <<>>,
   portTypes |-> <<>>, bindings |-> <<>>, services |-> <<>>]

Dir(url) == SubSeq(url, 1, Len(url) - 1)
Frame(url, base) ==
  [url |-> url, pos |-> 1, tns |-> definitions.tns, name |-> definitions.name, base |-> base]

Top == Last(stack)
TopDocument == input.files[Top.url]
Item == TopDocument.items[Top.pos]
AtItem(tag) ==
  /\ loading = "reading"
  /\ Top.pos <= Len(TopDocument.items)
  /\ Item.tag = tag

LoadInit ==
  /\ input \in Inputs
  /\ definitions = NoDefinitions
  /\ baseUrl = <<>>
  /\ stack = <<>>
  /\ loading = "idle"

(* setTargetNamespace() and mName at the start of loadXML(). *)
Entered(defs, doc) == [defs EXCEPT !.tns = doc.tns, !.name = doc.name]

(* Compiler::parse(): the root element is not looked at. *)
startLoading ==
  /\ loading = "idle"
  /\ loading' = "reading"
  /\ definitions' = Entered(definitions, input.files[input.main])
  /\ stack' = <<Frame(input.main, baseUrl)>>
  /\ baseUrl' = Dir(input.main)
  /\ UNCHANGED input

NextItem == [stack EXCEPT ![Len(stack)].pos = @ + 1]

Load(defs) ==
  /\ definitions' = defs
  /\ stack' = NextItem
  /\ UNCHANGED <<input, baseUrl, loading>>

loadMessage ==
  /\ AtItem("message")
  /\ Load([definitions EXCEPT !.messages = Append(@, MessageOf(TopDocument.map, definitions.tns, Item))])

loadPortType ==
  /\ AtItem("portType")
  /\ Load([definitions EXCEPT !.portTypes = Append(@, PortTypeOf(TopDocument.map, definitions.tns, Item))])

loadBinding ==
  /\ AtItem("binding")
  /\ Load([definitions EXCEPT !.bindings = Append(@, BindingOf(TopDocument.map, definitions.tns, Item))])

(* A service that is not wanted is skipped with all its ports: their       *)
(* addresses are not read.                                                 *)
loadService ==
  /\ AtItem("service")
  /\ IF input.wanted \in {"", Attr(Item, "name")}
     THEN Load([definitions EXCEPT !.services = Append(@, ServiceOf(definitions.tns, Item)),
                                   !.bindings = Addressed(@, Item)])
     ELSE Load(definitions)

(* Mutant: relative to the main document. *)
urlForLocation_of_main(location) == Dir(input.main) \o location

(* urlForLocation(): relative to the base URL. *)
urlForLocation(location) == baseUrl \o location

Importable(location) ==
  /\ location # <<>>
  /\ urlForLocation(location) \in DOMAIN input.files
  /\ input.files[urlForLocation(location)].root = "definitions"

(* importDefinition() up to the call of loadXML() on the same object: no   *)
(* list of the documents already read is kept.                             *)
importDefinition ==
  /\ AtItem("import")
  /\ Importable(Item.location)
  /\ Len(stack) < MaxDepth
  /\ LET url == urlForLocation(Item.location) IN
     /\ stack' = Append(NextItem, Frame(url, baseUrl))
     /\ definitions' = Entered(definitions, input.files[url])
     /\ baseUrl' = Dir(url)
  /\ UNCHANGED <<input, loading>>

(* A missing location, file or <definitions> tag is only logged. *)
skipImport ==
  /\ AtItem("import")
  /\ ~Importable(Item.location)
  /\ Load(definitions)

(* The end of loadXML() in an import: whether it was read to the end or    *)
(* given up, importDefinition() ignores the result and its caller restores *)
(* the context.                                                            *)
LeaveImport(defs, frame) ==
  /\ stack' = Front(stack)
  /\ definitions' = [defs EXCEPT !.tns = frame.tns, !.name = frame.name]
  /\ baseUrl' = frame.base
  /\ UNCHANGED <<input, loading>>

LeaveMain(result) ==
  /\ loading' = result
  /\ UNCHANGED <<input, definitions, baseUrl, stack>>

Leave(result) ==
  IF Len(stack) > 1 THEN LeaveImport(definitions, Top) ELSE LeaveMain(result)

(* mType.loadXML(): the types of a section that does not parse are lost,   *)
(* and loadXML() returns false on the spot.                                *)
loadTypes ==
  /\ AtItem("types")
  /\ IF Item.parses
     THEN Load([definitions EXCEPT !.types = @ \cup Item.types, !.elements = @ \o Item.elements])
     ELSE Leave("failed")

(* <documentation> and unknown tags. *)
ignoreItem == AtItem("other") /\ Load(definitions)

endDocument ==
  /\ loading = "reading"
  /\ Top.pos > Len(TopDocument.items)
  /\ Leave("loaded")

LoadNext ==
  \/ loadMessage \/ loadPortType \/ loadBinding \/ loadService
  \/ loadTypes \/ importDefinition \/ skipImport \/ ignoreItem \/ endDocument

(***************************************************************************)
(* fixUpDefinitions(): a document without service gets one per binding, or *)
(* one binding and service per port type.                                  *)
(***************************************************************************)
ServiceFor(defs, name, port) ==
  [ns |-> defs.tns, name |-> name \o "Service", ports |-> <<port>>]

fixUpDefinitions(defs) ==
  IF defs.services # <<>> THEN defs
  ELSE IF defs.bindings # <<>>
  THEN [defs EXCEPT !.services = MapSeq(LAMBDA b :
          ServiceFor(defs, b.name, [name |-> b.name \o "Port", binding |-> QName(b.ns, b.name)]), defs.bindings)]
  ELSE [defs EXCEPT
          !.bindings = MapSeq(LAMBDA p :
             [NoBinding EXCEPT !.ns = defs.tns, !.name = p.name \o "Binding",
                               !.portType = QName(p.ns, p.name)], defs.portTypes),
          !.services = MapSeq(LAMBDA p :
             ServiceFor(defs, p.name, [name |-> p.name, binding |-> QName(defs.tns, p.name \o "Binding")]),
             defs.portTypes)]

(***************************************************************************)
(* Lookups of the WSDL object.                                             *)
(***************************************************************************)
findBinding(defs, name) == FindIn(defs.bindings, name, NoBinding)
findPortType(defs, name) == FindIn(defs.portTypes, name, NoPortType)
findMessage(defs, name) == FindIn(defs.messages, name, NoMessage)

NoElement == [ns |-> "", name |-> "", type |-> NoName]
findElement(defs, name) == FindIn(defs.elements, name, NoElement)

uniqueBindings(defs, service) ==
  {q \in {service.ports[i].binding : i \in DOMAIN service.ports} :
     findBinding(defs, q).type = "SOAPBinding"}
================================================================================
