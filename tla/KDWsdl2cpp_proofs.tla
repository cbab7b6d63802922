--------------------------- MODULE KDWsdl2cpp_proofs ---------------------------
(***************************************************************************)
(* Proofs about the generator and the code it writes.                      *)
(***************************************************************************)
EXTENDS KDWsdl2cpp, SequenceLemmas

(* The generated code at work does not run the generator.                  *)
LEMMA UseKeepsGenerator == ASSUME Use PROVE UNCHANGED generatorVars
<1>. USE DEF Use, generatorVars
<1>1. CASE createService \/ setEndPoint \/ setSoapVersion \/ startCall
  BY <1>1 DEF createService, setEndPoint, setSoapVersion, startCall
<1>2. ASSUME NEW c \in DOMAIN calls, doStart(c) \/ processRequest(c) \/ foreignReply(c) PROVE UNCHANGED generatorVars
  BY <1>2 DEF doStart, processRequest, foreignReply
<1>3. ASSUME NEW c \in DOMAIN calls, syncReturns(c) \/ asyncFinished(c) \/ jobFinished(c) PROVE UNCHANGED generatorVars
  BY <1>3 DEF syncReturns, asyncFinished, jobFinished, Finished
<1>. QED
  BY <1>1, <1>2, <1>3

(***************************************************************************)
(* The documents being read.                                               *)
(***************************************************************************)
(* The provers do not know the empty string for a member of STRING.        *)
Texts == STRING \cup {""}
FrameSet(i) == [url : DOMAIN i.files, pos : Nat \ {0}, tns : Texts, name : Texts, base : Seq(STRING)]

IsDefinitions(d) ==
  /\ d = [tns |-> d.tns, name |-> d.name, types |-> d.types, elements |-> d.elements, messages |-> d.messages,
          portTypes |-> d.portTypes, bindings |-> d.bindings, services |-> d.services]
  /\ d.tns \in Texts /\ d.name \in Texts

LoadTyped ==
  /\ input \in Inputs
  /\ stack \in Seq(FrameSet(input)) /\ (loading = "reading" => stack # <<>>)
  /\ baseUrl \in Seq(STRING)
  /\ IsDefinitions(definitions)

(* The directory of a file's path is a path.                               *)
LEMMA DirTyped == ASSUME NEW url \in Seq(STRING) PROVE Dir(url) \in Seq(STRING)
<1>1. CASE Len(url) = 0
  BY <1>1, SubSeqProperties DEF Dir
<1>2. CASE Len(url) # 0
  BY <1>2, SubSeqProperties DEF Dir
<1>. QED
  BY <1>1, <1>2

(* What InputsAssumption says of one file.                                 *)
LEMMA FilesTyped ==
  ASSUME NEW i \in Inputs, NEW u \in DOMAIN i.files
  PROVE  u \in Seq(STRING) /\ i.files[u].tns \in STRING /\ i.files[u].name \in STRING /\ Len(i.files[u].items) \in Nat
BY InputsAssumption

(* While documents are read there is one on top.                           *)
LEMMA TopTyped ==
  ASSUME LoadTyped, loading = "reading"
  PROVE  Top \in FrameSet(input) /\ Len(stack) \in Nat \ {0} /\ Front(stack) \in Seq(FrameSet(input))
<1>1. PICK S : S = FrameSet(input)
  OBVIOUS
<1>2. stack \in Seq(S) /\ stack # <<>>
  BY <1>1 DEF LoadTyped
<1>3. Len(stack) \in Nat \ {0} /\ Top \in S /\ Front(stack) \in Seq(S)
  BY <1>2 DEF Top, Last, Front
<1>. QED
  BY <1>1, <1>3

(* Passing to the next element moves the top frame only.                   *)
LEMMA NextItemTyped ==
  ASSUME LoadTyped, loading = "reading"
  PROVE  /\ NextItem \in Seq(FrameSet(input)) /\ Len(NextItem) = Len(stack) /\ NextItem # <<>>
         /\ \A k \in 1..Len(stack) : NextItem[k] = IF k = Len(stack) THEN [stack[k] EXCEPT !.pos = @ + 1] ELSE stack[k]
<1>1. PICK S, s, n : S = FrameSet(input) /\ s = stack /\ n = Len(stack)
  OBVIOUS
<1>2. s \in Seq(S) /\ s # <<>> /\ n \in 1..Len(s)
  BY <1>1, TopTyped DEF LoadTyped
<1>3. s[n] \in S
  BY <1>2
<1>4. PICK f : f = [s[n] EXCEPT !.pos = @ + 1]
  OBVIOUS
<1>5. f \in S
  BY <1>1, <1>3, <1>4 DEF FrameSet
<1>6. NextItem = [s EXCEPT ![n] = f]
  BY <1>1, <1>4 DEF NextItem
<1>7. /\ [s EXCEPT ![n] = f] \in Seq(S) /\ Len([s EXCEPT ![n] = f]) = Len(s)
      /\ \A k \in 1..Len(s) : [s EXCEPT ![n] = f][k] = IF k = n THEN f ELSE s[k]
  BY <1>2, <1>5
<1>. QED
  BY <1>1, <1>2, <1>4, <1>6, <1>7

(* loadXML() on the object keeps its shape.                                *)
LEMMA FieldSet ==
  ASSUME NEW d, IsDefinitions(d), NEW v
  PROVE  /\ IsDefinitions([d EXCEPT !.messages = v]) /\ [d EXCEPT !.messages = v].types = d.types
         /\ IsDefinitions([d EXCEPT !.portTypes = v]) /\ [d EXCEPT !.portTypes = v].types = d.types
         /\ IsDefinitions([d EXCEPT !.bindings = v]) /\ [d EXCEPT !.bindings = v].types = d.types
         /\ IsDefinitions([d EXCEPT !.services = v]) /\ [d EXCEPT !.services = v].types = d.types
         /\ IsDefinitions([d EXCEPT !.elements = v]) /\ [d EXCEPT !.elements = v].types = d.types
         /\ IsDefinitions([d EXCEPT !.types = v]) /\ [d EXCEPT !.types = v].types = v
<1>1. IsDefinitions([d EXCEPT !.messages = v]) /\ [d EXCEPT !.messages = v].types = d.types
  BY DEF IsDefinitions
<1>2. IsDefinitions([d EXCEPT !.portTypes = v]) /\ [d EXCEPT !.portTypes = v].types = d.types
  BY DEF IsDefinitions
<1>3. IsDefinitions([d EXCEPT !.bindings = v]) /\ [d EXCEPT !.bindings = v].types = d.types
  BY DEF IsDefinitions
<1>4. IsDefinitions([d EXCEPT !.services = v]) /\ [d EXCEPT !.services = v].types = d.types
  BY DEF IsDefinitions
<1>5. IsDefinitions([d EXCEPT !.elements = v]) /\ [d EXCEPT !.elements = v].types = d.types
  BY DEF IsDefinitions
<1>6. IsDefinitions([d EXCEPT !.types = v]) /\ [d EXCEPT !.types = v].types = v
  BY DEF IsDefinitions
<1>. QED
  BY <1>1, <1>2, <1>3, <1>4, <1>5, <1>6

(* A service element also binds its ports' bindings.                       *)
LEMMA ServicesSet ==
  ASSUME NEW d, IsDefinitions(d), NEW v, NEW w
  PROVE  IsDefinitions([d EXCEPT !.services = v, !.bindings = w]) /\ [d EXCEPT !.services = v, !.bindings = w].types = d.types
<1>1. PICK e : e = [d EXCEPT !.services = v]
  OBVIOUS
<1>2. PICK f : f = [d EXCEPT !.services = v, !.bindings = w]
  OBVIOUS
<1>3. f = [e EXCEPT !.bindings = w]
  BY <1>1, <1>2
<1>4. IsDefinitions(e) /\ e.types = d.types
  BY <1>1, FieldSet
<1>5. IsDefinitions(f) /\ f.types = e.types
  BY <1>3, <1>4, FieldSet
<1>. QED
  BY <1>2, <1>4, <1>5

(* The same, the other way round.                                          *)
LEMMA BindingsSet ==
  ASSUME NEW d, IsDefinitions(d), NEW v, NEW w
  PROVE  IsDefinitions([d EXCEPT !.bindings = w, !.services = v]) /\ [d EXCEPT !.bindings = w, !.services = v].types = d.types
<1>1. PICK e : e = [d EXCEPT !.bindings = w]
  OBVIOUS
<1>2. PICK f : f = [d EXCEPT !.bindings = w, !.services = v]
  OBVIOUS
<1>3. f = [e EXCEPT !.services = v]
  BY <1>1, <1>2
<1>4. IsDefinitions(e) /\ e.types = d.types
  BY <1>1, FieldSet
<1>5. IsDefinitions(f) /\ f.types = e.types
  BY <1>3, <1>4, FieldSet
<1>. QED
  BY <1>2, <1>4, <1>5

(* A types element sets types and elements.                                *)
LEMMA TypesSet ==
  ASSUME NEW d, IsDefinitions(d), NEW v, NEW w
  PROVE  IsDefinitions([d EXCEPT !.types = v, !.elements = w]) /\ [d EXCEPT !.types = v, !.elements = w].types = v
<1>1. PICK e : e = [d EXCEPT !.types = v]
  OBVIOUS
<1>2. PICK f : f = [d EXCEPT !.types = v, !.elements = w]
  OBVIOUS
<1>3. f = [e EXCEPT !.elements = w]
  BY <1>1, <1>2
<1>4. IsDefinitions(e) /\ e.types = v
  BY <1>1, FieldSet
<1>5. IsDefinitions(f) /\ f.types = e.types
  BY <1>3, <1>4, FieldSet
<1>. QED
  BY <1>2, <1>4, <1>5

(* The end of an import restores name and namespace.                       *)
LEMMA ContextSet ==
  ASSUME NEW d, IsDefinitions(d), NEW x \in Texts, NEW y \in Texts
  PROVE  IsDefinitions([d EXCEPT !.tns = x, !.name = y]) /\ [d EXCEPT !.tns = x, !.name = y].types = d.types
<1>1. ASSUME NEW e, IsDefinitions(e), NEW z \in Texts
      PROVE  /\ IsDefinitions([e EXCEPT !.tns = z]) /\ [e EXCEPT !.tns = z].types = e.types
             /\ IsDefinitions([e EXCEPT !.name = z]) /\ [e EXCEPT !.name = z].types = e.types
  <2>1. IsDefinitions([e EXCEPT !.tns = z]) /\ [e EXCEPT !.tns = z].types = e.types
    BY <1>1 DEF IsDefinitions
  <2>2. IsDefinitions([e EXCEPT !.name = z]) /\ [e EXCEPT !.name = z].types = e.types
    BY <1>1 DEF IsDefinitions
  <2>. QED
    BY <2>1, <2>2
<1>2. IsDefinitions([d EXCEPT !.tns = x, !.name = y]) /\ [d EXCEPT !.tns = x, !.name = y].types = d.types
  <2>1. PICK e : e = [d EXCEPT !.tns = x]
    OBVIOUS
  <2>2. PICK f : f = [d EXCEPT !.tns = x, !.name = y]
    OBVIOUS
  <2>3. f = [e EXCEPT !.name = y]
    BY <2>1, <2>2
  <2>4. IsDefinitions(e) /\ e.types = d.types
    BY <2>1, <1>1
  <2>5. IsDefinitions(f) /\ f.types = e.types
    BY <2>3, <2>4, <1>1
  <2>. QED
    BY <2>2, <2>4, <2>5
<1>. QED
  BY <1>2

(* fixUpDefinitions() keeps shape and types.                               *)
LEMMA FixedUp ==
  ASSUME NEW d, IsDefinitions(d)
  PROVE  IsDefinitions(fixUpDefinitions(d)) /\ fixUpDefinitions(d).types = d.types
<1>1. PICK f : f = fixUpDefinitions(d)
  OBVIOUS
<1>2. \E v, w : f = d \/ f = [d EXCEPT !.services = v] \/ f = [d EXCEPT !.bindings = w, !.services = v]
  BY <1>1 DEF fixUpDefinitions
<1>3. PICK v, w : f = d \/ f = [d EXCEPT !.services = v] \/ f = [d EXCEPT !.bindings = w, !.services = v]
  BY <1>2
<1>4. IsDefinitions(f) /\ f.types = d.types
  <2>1. CASE f = d
    BY <2>1
  <2>2. CASE f = [d EXCEPT !.services = v]
    BY <2>2, FieldSet
  <2>3. CASE f = [d EXCEPT !.bindings = w, !.services = v]
    BY <2>3, BindingsSet
  <2>. QED
    BY <1>3, <2>1, <2>2, <2>3
<1>. QED
  BY <1>1, <1>4

(* A step of loadXML() to the next element.                                *)
LEMMA LoadKept ==
  ASSUME LoadTyped, loading = "reading", NEW defs, IsDefinitions(defs), Load(defs)
  PROVE  LoadTyped'
BY NextItemTyped DEF Load, LoadTyped

(* The element that is read next is one of the input's documents.          *)
LEMMA ItemFacts ==
  ASSUME LoadTyped, loading = "reading", Top.pos <= Len(TopDocument.items)
  PROVE  /\ Top.url \in DOMAIN input.files /\ Top.pos \in 1..Len(TopDocument.items)
         /\ TypesOfItem(Item) \subseteq TypesOf(input)
<1>1. Top.url \in DOMAIN input.files /\ Top.pos \in Nat \ {0} /\ input \in Inputs
  BY TopTyped DEF FrameSet, LoadTyped
<1>2. Top.pos \in 1..Len(TopDocument.items)
  BY <1>1, FilesTyped DEF TopDocument
<1>3. TypesOfItem(Item) \subseteq TypesOfDocument(TopDocument)
  BY <1>2 DEF TypesOfDocument, Item
<1>4. TypesOfDocument(TopDocument) \subseteq TypesOf(input)
  BY <1>1 DEF TypesOf, TopDocument
<1>. QED
  BY <1>1, <1>2, <1>3, <1>4

(* At the end of a document the frame below goes on.                       *)
LEMMA LeaveKept ==
  ASSUME LoadTyped, loading = "reading", NEW result \in {"loaded", "failed"}, Leave(result)
  PROVE  LoadTyped' /\ definitions'.types = definitions.types
<1>1. CASE Len(stack) > 1
  <2>1. Top \in FrameSet(input) /\ Front(stack) \in Seq(FrameSet(input)) /\ Len(stack) \in Nat /\ stack \in Seq(FrameSet(input))
    BY TopTyped DEF LoadTyped
  <2>2. Front(stack) # <<>>
    <3>1. Len(Front(stack)) = Len(stack) - 1
      BY <1>1, <2>1 DEF Front
    <3>. QED
      BY <1>1, <2>1, <3>1
  <2>3. Top.tns \in Texts /\ Top.name \in Texts /\ Top.base \in Seq(STRING)
    BY <2>1 DEF FrameSet
  <2>4. definitions' = [definitions EXCEPT !.tns = Top.tns, !.name = Top.name] /\ stack' = Front(stack) /\ baseUrl' = Top.base
        /\ input' = input /\ loading' = loading
    BY <1>1 DEF Leave, LeaveImport
  <2>5. IsDefinitions(definitions') /\ definitions'.types = definitions.types
    <3>1. PICK x, y, d, e : x = Top.tns /\ y = Top.name /\ d = definitions /\ e = definitions'
      OBVIOUS
    <3>2. IsDefinitions(d) /\ x \in Texts /\ y \in Texts /\ e = [d EXCEPT !.tns = x, !.name = y]
      BY <2>3, <2>4, <3>1 DEF LoadTyped
    <3>3. IsDefinitions(e) /\ e.types = d.types
      BY <3>2, ContextSet
    <3>. QED
      BY <3>1, <3>3
  <2>. QED
    BY <2>1, <2>2, <2>3, <2>4, <2>5 DEF LoadTyped
<1>2. CASE ~ Len(stack) > 1
  BY <1>2 DEF Leave, LeaveMain, LoadTyped
<1>. QED
  BY <1>1, <1>2

(* importDefinition() pushes a frame of the input, or fails.               *)
LEMMA ImportKept ==
  ASSUME LoadTyped, importDefinition
  PROVE  LoadTyped' /\ definitions'.types = definitions.types
<1>1. PICK url, frame, d, e :
          /\ url = urlForLocation(Item.location) /\ frame = Frame(url, baseUrl)
          /\ d = definitions /\ e = definitions'
  OBVIOUS
<1>2. /\ loading = "reading" /\ url \in DOMAIN input.files
      /\ stack' = Append(NextItem, frame) /\ e = [d EXCEPT !.tns = input.files[url].tns, !.name = input.files[url].name]
      /\ baseUrl' = Dir(url) /\ input' = input /\ loading' = loading
  BY <1>1 DEF importDefinition, Importable, AtItem, Entered
<1>3. url \in Seq(STRING) /\ input.files[url].tns \in Texts /\ input.files[url].name \in Texts
  BY <1>2, FilesTyped DEF LoadTyped, Texts
<1>4. IsDefinitions(e) /\ e.types = d.types
  <2>1. PICK x, y : x = input.files[url].tns /\ y = input.files[url].name
    OBVIOUS
  <2>2. IsDefinitions(d) /\ x \in Texts /\ y \in Texts /\ e = [d EXCEPT !.tns = x, !.name = y]
    BY <1>1, <1>2, <1>3, <2>1 DEF LoadTyped
  <2>. QED
    BY <2>2, ContextSet
<1>5. frame \in FrameSet(input)
  BY <1>1, <1>2 DEF Frame, FrameSet, LoadTyped, IsDefinitions
<1>6. stack' \in Seq(FrameSet(input)) /\ stack' # <<>>
  BY <1>2, <1>5, NextItemTyped
<1>7. baseUrl' \in Seq(STRING)
  BY <1>2, <1>3, DirTyped
<1>. QED
  BY <1>1, <1>2, <1>4, <1>6, <1>7 DEF LoadTyped

(* Every step of loadXML() keeps LoadTyped and adds only declared types.   *)
LEMMA LoadSteps ==
  ASSUME LoadTyped, definitions.types \subseteq TypesOf(input), LoadNext
  PROVE  LoadTyped' /\ definitions'.types \subseteq TypesOf(input')
<1>1. ASSUME loading = "reading", NEW defs, IsDefinitions(defs), defs.types \subseteq TypesOf(input), Load(defs)
      PROVE  LoadTyped' /\ definitions'.types \subseteq TypesOf(input')
  BY <1>1, LoadKept DEF Load
<1>2. PICK d : d = definitions
  OBVIOUS
<1>3. IsDefinitions(d) /\ d.types \subseteq TypesOf(input)
  BY <1>2 DEF LoadTyped
<1>4. ASSUME NEW result \in {"loaded", "failed"}, loading = "reading", Leave(result)
      PROVE  LoadTyped' /\ definitions'.types \subseteq TypesOf(input')
  <2>1. input' = input
    BY <1>4 DEF Leave, LeaveImport, LeaveMain
  <2>. QED
    BY <1>4, <2>1, LeaveKept
<1>5. CASE loadMessage \/ loadPortType \/ loadBinding
  <2>1. loading = "reading" /\ \E v : \/ Load([d EXCEPT !.messages = v])
                                      \/ Load([d EXCEPT !.portTypes = v])
                                      \/ Load([d EXCEPT !.bindings = v])
    BY <1>2, <1>5 DEF loadMessage, loadPortType, loadBinding, AtItem
  <2>2. PICK v : \/ Load([d EXCEPT !.messages = v])
                 \/ Load([d EXCEPT !.portTypes = v])
                 \/ Load([d EXCEPT !.bindings = v])
    BY <2>1
  <2>3. CASE Load([d EXCEPT !.messages = v])
    BY <1>1, <1>3, <2>1, <2>3, FieldSet
  <2>4. CASE Load([d EXCEPT !.portTypes = v])
    BY <1>1, <1>3, <2>1, <2>4, FieldSet
  <2>5. CASE Load([d EXCEPT !.bindings = v])
    BY <1>1, <1>3, <2>1, <2>5, FieldSet
  <2>. QED
    BY <2>2, <2>3, <2>4, <2>5
<1>6. CASE loadService
  <2>1. loading = "reading" /\ \E v, w : Load(d) \/ Load([d EXCEPT !.services = v, !.bindings = w])
    BY <1>2, <1>6 DEF loadService, AtItem
  <2>2. PICK v, w : Load(d) \/ Load([d EXCEPT !.services = v, !.bindings = w])
    BY <2>1
  <2>3. CASE Load(d)
    BY <1>1, <1>3, <2>1, <2>3
  <2>4. CASE Load([d EXCEPT !.services = v, !.bindings = w])
    <3>1. PICK e : e = [d EXCEPT !.services = v, !.bindings = w]
      OBVIOUS
    <3>2. IsDefinitions(e) /\ e.types = d.types
      BY <1>3, <3>1, ServicesSet
    <3>. QED
      BY <1>1, <1>3, <2>1, <2>4, <3>1, <3>2
  <2>. QED
    BY <2>2, <2>3, <2>4
<1>7. CASE loadTypes
  <2>1. loading = "reading" /\ Top.pos <= Len(TopDocument.items) /\ Item.tag = "types"
    BY <1>7 DEF loadTypes, AtItem
  <2>2. CASE Item.parses
    <3>1. PICK v, w : v = d.types \cup Item.types /\ Load([d EXCEPT !.types = v, !.elements = w])
      BY <1>2, <1>7, <2>2 DEF loadTypes
    <3>2. v \subseteq TypesOf(input)
      BY <1>3, <2>1, <3>1, ItemFacts DEF TypesOfItem
    <3>3. PICK e : e = [d EXCEPT !.types = v, !.elements = w]
      OBVIOUS
    <3>4. IsDefinitions(e) /\ e.types = v
      BY <1>3, <3>3, TypesSet
    <3>. QED
      BY <1>1, <2>1, <3>1, <3>2, <3>3, <3>4
  <2>3. CASE ~ Item.parses
    BY <1>4, <1>7, <2>1, <2>3 DEF loadTypes
  <2>. QED
    BY <2>2, <2>3
<1>8. CASE importDefinition
  <2>1. input' = input
    BY <1>8 DEF importDefinition
  <2>. QED
    BY <1>8, <2>1, ImportKept
<1>9. CASE skipImport \/ ignoreItem
  BY <1>1, <1>2, <1>3, <1>9 DEF skipImport, ignoreItem, AtItem
<1>10. CASE endDocument
  BY <1>4, <1>10 DEF endDocument
<1>. QED
  BY <1>5, <1>6, <1>7, <1>8, <1>9, <1>10 DEF LoadNext

(***************************************************************************)
(* The types that are collected.                                           *)
(***************************************************************************)
IsCollector(c) ==
  /\ c = [all |-> c.all, todo |-> c.todo, also |-> c.also, complex |-> c.complex, simple |-> c.simple, phase |-> c.phase]
  /\ c.complex \subseteq SchemaType /\ c.simple \subseteq SchemaType

NamesOf(types) == {t.name : t \in types}
Kept(c) == NamesOf(c.complex \cup c.simple)
Waiting(c) == c.todo \cup c.also

(* A set of names that holds what the messages use and all it leads to.    *)
Closed(d, s) == UsedTypes(d) \cap SchemaNames(d) \subseteq s /\ DependencyClosed(d, s)

(* Between two types: the kept names are those met and no longer waiting,   *)
(* what they depend on has been met, and nothing has been met that a closed *)
(* set can do without.                                                      *)
CollectInv(d, c) ==
  /\ IsCollector(c)
  /\ Waiting(c) \subseteq c.all /\ c.todo \cap c.also = {} /\ UsedTypes(d) \subseteq c.all
  /\ Kept(c) = SchemaNames(d) \cap (c.all \ Waiting(c))
  /\ \A t \in d.types : t.name \in Kept(c) => Dependencies(d, t) \subseteq c.all \cup {NoName}
  /\ \A s : Closed(d, s) => SchemaNames(d) \cap c.all \subseteq s

(* No two types of an input share a name, which XML Schema demands of the   *)
(* named types of a namespace.                                              *)
DeclaredOnce == \A i \in Inputs : \A s, t \in TypesOf(i) : s.name = t.name => s = t

(* Marking a type as conflicting keeps its name.                           *)
LEMMA MarkedTyped ==
  ASSUME NEW t \in SchemaType, NEW b \in BOOLEAN
  PROVE  [t EXCEPT !.conflicting = b] \in SchemaType /\ [t EXCEPT !.conflicting = b].name = t.name
         /\ t.conflicting \in BOOLEAN
BY DEF SchemaType

(* fixupComplexType() keeps the names of the complex types and adds one.   *)
LEMMA FixedNames ==
  ASSUME NEW complex \in SUBSET SchemaType, NEW type \in SchemaType
  PROVE  /\ fixupComplexType(complex, type) \subseteq SchemaType
         /\ NamesOf(fixupComplexType(complex, type)) = NamesOf(complex) \cup {type.name}
<1>1. CASE IsLower(type.name.l)
  <2>1. PICK b \in BOOLEAN : fixupComplexType(complex, type) = complex \cup {[type EXCEPT !.conflicting = b]}
    <3>1. \E b \in BOOLEAN : fixupComplexType(complex, type) = complex \cup {[type EXCEPT !.conflicting = type.conflicting \/ b]}
      BY <1>1 DEF fixupComplexType
    <3>2. PICK b \in BOOLEAN : fixupComplexType(complex, type) = complex \cup {[type EXCEPT !.conflicting = type.conflicting \/ b]}
      BY <3>1
    <3>3. (type.conflicting \/ b) \in BOOLEAN
      OBVIOUS
    <3>. QED
      BY <3>2, <3>3
  <2>2. PICK m : m = [type EXCEPT !.conflicting = b]
    OBVIOUS
  <2>3. m \in SchemaType /\ m.name = type.name
    BY <2>2, MarkedTyped
  <2>4. fixupComplexType(complex, type) = complex \cup {m}
    BY <2>1, <2>2
  <2>. QED
    BY <2>3, <2>4 DEF NamesOf
<1>2. CASE ~ IsLower(type.name.l)
  <2>1. PICK lower : lower = QName(type.name.ns, lowerlize(type.name.l))
    OBVIOUS
  <2>. DEFINE marked(t) == IF t.name = lower THEN [t EXCEPT !.conflicting = TRUE] ELSE t
  <2>2. fixupComplexType(complex, type) = {marked(t) : t \in complex} \cup {type}
    BY <1>2, <2>1 DEF fixupComplexType
  <2>3. ASSUME NEW t \in complex PROVE marked(t) \in SchemaType /\ marked(t).name = t.name
    <3>1. CASE t.name = lower
      BY <3>1, MarkedTyped
    <3>2. CASE t.name # lower
      BY <3>2
    <3>. QED
      BY <3>1, <3>2
  <2>. HIDE DEF marked
  <2>4. NamesOf({marked(t) : t \in complex} \cup {type}) = NamesOf(complex) \cup {type.name}
    <3>1. ASSUME NEW x PROVE x \in NamesOf({marked(t) : t \in complex} \cup {type}) <=> x \in NamesOf(complex) \cup {type.name}
      BY <2>3 DEF NamesOf
    <3>. QED
      BY <3>1
  <2>. QED
    BY <2>2, <2>3, <2>4
<1>. QED
  BY <1>1, <1>2

(* What processing a name does.                                            *)
LEMMA ProcessedUndeclared ==
  ASSUME NEW d, d.types \subseteq SchemaType, NEW c, IsCollector(c), NEW name, name \notin SchemaNames(d)
  PROVE  LET p == Processed(c, d, name) IN
         /\ IsCollector(p) /\ p.phase = c.phase /\ p.all = c.all /\ p.also = c.also /\ p.todo = c.todo \ {name}
         /\ Kept(p) = Kept(c)
<1>1. name = NoName \/ IsBuiltin(name) \/ Declared(d, name, "complex") \cup Declared(d, name, "simple") = {}
  BY DEF SchemaNames, Declared
<1>2. PICK p : p = Processed(c, d, name)
  OBVIOUS
<1>3. p = [c EXCEPT !.todo = @ \ {name}]
  BY <1>1, <1>2 DEF Processed
<1>4. IsCollector(p) /\ p.phase = c.phase /\ p.all = c.all /\ p.also = c.also /\ p.todo = c.todo \ {name}
      /\ p.complex = c.complex /\ p.simple = c.simple
  BY <1>3 DEF IsCollector
<1>. QED
  BY <1>2, <1>4 DEF Kept

(* A declared one is kept, and its dependencies not met before will wait.  *)
LEMMA ProcessedDeclared ==
  ASSUME NEW d, d.types \subseteq SchemaType, NEW c, IsCollector(c), NEW name \in SchemaNames(d)
  PROVE  \E type \in d.types :
           LET p == Processed(c, d, name)
               new == Dependencies(d, type) \ (c.all \cup {NoName})
           IN /\ type.name = name
              /\ IsCollector(p) /\ p.phase = c.phase
              /\ p.all = c.all \cup new /\ p.also = c.also \cup new /\ p.todo = c.todo \ {name}
              /\ Kept(p) = Kept(c) \cup {name}
<1>1. PICK complex, simple : complex = Declared(d, name, "complex") /\ simple = Declared(d, name, "simple")
  OBVIOUS
<1>2. name # NoName /\ ~ IsBuiltin(name) /\ complex \cup simple # {}
  <2>1. PICK t \in d.types : t.name = name
    BY DEF SchemaNames
  <2>2. t.kind \in {"complex", "simple"}
    BY DEF SchemaType
  <2>. QED
    BY <1>1, <2>1, <2>2 DEF SchemaNames, Declared
<1>3. PICK type : type = CHOOSE t \in (IF complex # {} THEN complex ELSE simple) : TRUE
  OBVIOUS
<1>4. type \in (IF complex # {} THEN complex ELSE simple)
  BY <1>2, <1>3
<1>5. type \in d.types /\ type.name = name /\ type \in SchemaType
  BY <1>1, <1>4 DEF Declared
<1>6. PICK p, new, rest : /\ p = Processed(c, d, name) /\ new = Dependencies(d, type) \ (c.all \cup {NoName})
                          /\ rest = [c EXCEPT !.todo = @ \ {name}]
  OBVIOUS
<1>7. rest.all = c.all
  BY <1>6 DEF IsCollector
<1>8. ASSUME NEW e, e.all = c.all
      PROVE  WithDependencies(e, d, type) = [e EXCEPT !.all = @ \cup new, !.also = @ \cup new]
  BY <1>6, <1>8 DEF WithDependencies
<1>9. CASE complex # {}
  <2>1. PICK x, e : x = fixupComplexType(c.complex, type) /\ e = [rest EXCEPT !.complex = x]
    OBVIOUS
  <2>2. p = WithDependencies([rest EXCEPT !.complex = fixupComplexType(@, type)], d, type)
    BY <1>1, <1>2, <1>3, <1>6, <1>9 DEF Processed
  <2>3. e = [rest EXCEPT !.complex = fixupComplexType(@, type)] /\ e.all = c.all
    BY <1>6, <2>1 DEF IsCollector
  <2>4. p = [e EXCEPT !.all = @ \cup new, !.also = @ \cup new]
    BY <1>8, <2>2, <2>3
  <2>5. /\ p.all = c.all \cup new /\ p.also = c.also \cup new /\ p.todo = c.todo \ {name}
        /\ p.complex = x /\ p.simple = c.simple /\ p.phase = c.phase
        /\ p = [all |-> p.all, todo |-> p.todo, also |-> p.also, complex |-> p.complex, simple |-> p.simple, phase |-> p.phase]
    BY <1>6, <2>1, <2>4 DEF IsCollector
  <2>6. x \subseteq SchemaType /\ NamesOf(x) = NamesOf(c.complex) \cup {name}
    BY <1>5, <2>1, FixedNames DEF IsCollector
  <2>7. IsCollector(p) /\ Kept(p) = Kept(c) \cup {name}
    BY <2>5, <2>6 DEF IsCollector, Kept, NamesOf
  <2>. QED
    BY <1>5, <1>6, <2>5, <2>7
<1>10. CASE complex = {}
  <2>1. PICK e : e = [rest EXCEPT !.simple = c.simple \cup {type}]
    OBVIOUS
  <2>2. p = WithDependencies([rest EXCEPT !.simple = @ \cup {type}], d, type)
    BY <1>1, <1>2, <1>3, <1>6, <1>10 DEF Processed
  <2>3. e = [rest EXCEPT !.simple = @ \cup {type}] /\ e.all = c.all
    BY <1>6, <2>1 DEF IsCollector
  <2>4. p = [e EXCEPT !.all = @ \cup new, !.also = @ \cup new]
    BY <1>8, <2>2, <2>3
  <2>5. /\ p.all = c.all \cup new /\ p.also = c.also \cup new /\ p.todo = c.todo \ {name}
        /\ p.complex = c.complex /\ p.simple = c.simple \cup {type} /\ p.phase = c.phase
        /\ p = [all |-> p.all, todo |-> p.todo, also |-> p.also, complex |-> p.complex, simple |-> p.simple, phase |-> p.phase]
    BY <1>6, <2>1, <2>4 DEF IsCollector
  <2>7. IsCollector(p) /\ Kept(p) = Kept(c) \cup {name}
    BY <1>5, <2>5 DEF IsCollector, Kept, NamesOf
  <2>. QED
    BY <1>5, <1>6, <2>5, <2>7
<1>. QED
  BY <1>9, <1>10

(* A closed set holds what its members depend on.                          *)
LEMMA DependenciesClosed ==
  ASSUME NEW d, d.types \subseteq SchemaType, NEW s, Closed(d, s), NEW t \in d.types, t.name \in s
  PROVE  Dependencies(d, t) \cap SchemaNames(d) \subseteq s
BY DEF Closed, DependencyClosed, Dependencies, registerDerivedClasses

(* Processing a waiting name keeps CollectInv.                             *)
LEMMA CollectStep ==
  ASSUME NEW d, d.types \subseteq SchemaType, \A s, t \in d.types : s.name = t.name => s = t,
         NEW c, CollectInv(d, c), NEW name \in c.todo, NEW p, p = Processed(c, d, name)
  PROVE  CollectInv(d, p)
<1>1. /\ IsCollector(c) /\ Waiting(c) \subseteq c.all /\ c.todo \cap c.also = {} /\ UsedTypes(d) \subseteq c.all
      /\ Kept(c) = SchemaNames(d) \cap (c.all \ Waiting(c))
      /\ \A t \in d.types : t.name \in Kept(c) => Dependencies(d, t) \subseteq c.all \cup {NoName}
      /\ \A s : Closed(d, s) => SchemaNames(d) \cap c.all \subseteq s
  BY DEF CollectInv
<1>2. CASE name \notin SchemaNames(d)
  <2>1. /\ IsCollector(p) /\ p.phase = c.phase /\ p.all = c.all /\ p.also = c.also /\ p.todo = c.todo \ {name}
        /\ Kept(p) = Kept(c)
    BY <1>1, <1>2, ProcessedUndeclared
  <2>. QED
    BY <1>1, <1>2, <2>1 DEF CollectInv, Waiting
<1>3. CASE name \in SchemaNames(d)
  <2>1. PICK type \in d.types :
           LET new == Dependencies(d, type) \ (c.all \cup {NoName})
           IN /\ type.name = name
              /\ IsCollector(p) /\ p.phase = c.phase
              /\ p.all = c.all \cup new /\ p.also = c.also \cup new /\ p.todo = c.todo \ {name}
              /\ Kept(p) = Kept(c) \cup {name}
    BY <1>1, <1>3, ProcessedDeclared
  <2>2. PICK deps, new : deps = Dependencies(d, type) /\ new = deps \ (c.all \cup {NoName})
    OBVIOUS
  <2>3. /\ type.name = name
        /\ IsCollector(p) /\ p.all = c.all \cup new /\ p.also = c.also \cup new /\ p.todo = c.todo \ {name}
        /\ Kept(p) = Kept(c) \cup {name}
    BY <2>1, <2>2
  <2>4. /\ Waiting(p) \subseteq p.all /\ p.todo \cap p.also = {} /\ UsedTypes(d) \subseteq p.all
    BY <1>1, <2>2, <2>3 DEF Waiting
  <2>5. Kept(p) = SchemaNames(d) \cap (p.all \ Waiting(p))
    BY <1>1, <1>3, <2>2, <2>3 DEF Waiting
  <2>6. ASSUME NEW t \in d.types, t.name \in Kept(p) PROVE Dependencies(d, t) \subseteq p.all \cup {NoName}
    <3>1. CASE t.name = name
      <4>1. t = type
        BY <2>3, <3>1
      <4>. QED
        BY <2>2, <2>3, <4>1
    <3>2. CASE t.name # name
      BY <1>1, <2>3, <2>6, <3>2
    <3>. QED
      BY <3>1, <3>2
  <2>7. ASSUME NEW s, Closed(d, s) PROVE SchemaNames(d) \cap p.all \subseteq s
    <3>1. SchemaNames(d) \cap c.all \subseteq s
      BY <1>1, <2>7
    <3>2. type.name \in s
      BY <1>1, <1>3, <2>3, <3>1 DEF Waiting
    <3>3. deps \cap SchemaNames(d) \subseteq s
      BY <2>2, <2>7, <3>2, DependenciesClosed
    <3>. QED
      BY <2>2, <2>3, <3>1, <3>3
  <2>. QED
    BY <2>3, <2>4, <2>5, <2>6, <2>7 DEF CollectInv
<1>. QED
  BY <1>2, <1>3

(* So does swapping the two sets between rounds.                           *)
LEMMA RoundStep ==
  ASSUME NEW d, NEW c, CollectInv(d, c), c.todo = {}, NEW p, p = [c EXCEPT !.todo = c.also, !.also = {}]
  PROVE  CollectInv(d, p)
<1>1. p.all = c.all /\ p.complex = c.complex /\ p.simple = c.simple /\ p.todo = c.also /\ p.also = {} /\ p.phase = c.phase
      /\ IsCollector(p)
  BY DEF CollectInv, IsCollector
<1>2. Waiting(p) = Waiting(c) /\ Kept(p) = Kept(c)
  BY <1>1 DEF Waiting, Kept
<1>. QED
  BY <1>1, <1>2 DEF CollectInv

(* CollectInv holds when the collecting starts.                            *)
LEMMA FirstRound ==
  ASSUME NEW d, NEW c, c = [NoCollector EXCEPT !.all = UsedTypes(d), !.todo = UsedTypes(d), !.phase = "collecting"]
  PROVE  CollectInv(d, c)
<1>1. /\ c.all = UsedTypes(d) /\ c.todo = UsedTypes(d) /\ c.also = {} /\ c.complex = {} /\ c.simple = {}
      /\ IsCollector(c)
  BY DEF NoCollector, IsCollector
<1>2. Kept(c) = {} /\ Waiting(c) = c.all
  BY <1>1 DEF Kept, NamesOf, Waiting
<1>. QED
  BY <1>1, <1>2 DEF CollectInv, Closed

(* When nothing waits, the kept names are the least closed set.            *)
LEMMA LastRound ==
  ASSUME NEW d, d.types \subseteq SchemaType, NEW c, CollectInv(d, c), c.todo = {}, c.also = {}
  PROVE  Kept(c) = Needed(d)
<1>1. Kept(c) = SchemaNames(d) \cap c.all /\ UsedTypes(d) \subseteq c.all
      /\ \A t \in d.types : t.name \in Kept(c) => Dependencies(d, t) \subseteq c.all \cup {NoName}
  BY DEF CollectInv, Waiting
<1>2. NoName \notin SchemaNames(d)
  BY DEF SchemaNames
<1>3. DependencyClosed(d, Kept(c))
  <2>. SUFFICES ASSUME NEW t \in d.types, t.name \in Kept(c)
                PROVE  /\ ({t.base} \cup t.uses) \cap SchemaNames(d) \subseteq Kept(c)
                       /\ t.kind = "complex" =>
                            \A u \in d.types : u.kind = "complex" /\ u.base = t.name /\ u.name \in SchemaNames(d)
                                                 => u.name \in Kept(c)
    BY DEF DependencyClosed
  <2>1. Dependencies(d, t) \cap SchemaNames(d) \subseteq Kept(c)
    BY <1>1, <1>2
  <2>. QED
    BY <2>1 DEF Dependencies, registerDerivedClasses
<1>4. Kept(c) \in SUBSET SchemaNames(d) /\ UsedTypes(d) \cap SchemaNames(d) \subseteq Kept(c)
  BY <1>1
<1>5. Needed(d) \subseteq Kept(c)
  BY <1>3, <1>4 DEF Needed
<1>6. ASSUME NEW n \in Kept(c) PROVE n \in Needed(d)
  <2>1. \A s : Closed(d, s) => SchemaNames(d) \cap c.all \subseteq s
    BY DEF CollectInv
  <2>. QED
    BY <1>1, <1>6, <2>1 DEF Needed, Closed
<1>. QED
  BY <1>5, <1>6

(***************************************************************************)
(* The inductive invariant: what has been read until the types are being   *)
(* collected, and the collector while they are.                            *)
(***************************************************************************)
Reading == generator \in {"download", "load", "fixup", "collect", "types"}
TypesInv ==
  /\ Reading => LoadTyped /\ definitions.types \subseteq TypesOf(input)
  /\ generator = "types" => CollectInv(definitions, collector)

(* TypesInv holds before the generator starts.                             *)
LEMMA TypesInitially == Init => TypesInv
<1>. SUFFICES ASSUME Init PROVE TypesInv
  OBVIOUS
<1>1. IsDefinitions(definitions) /\ definitions.types = {}
  BY DEF Init, LoadInit, NoDefinitions, IsDefinitions, Texts
<1>2. input \in Inputs /\ stack = <<>> /\ baseUrl = <<>> /\ loading = "idle" /\ generator = "download"
  BY DEF Init, LoadInit
<1>. QED
  BY <1>1, <1>2 DEF TypesInv, LoadTyped

(* Opening the main document keeps LoadTyped.                              *)
LEMMA StartKept ==
  ASSUME LoadTyped, input.main \in DOMAIN input.files, startLoading
  PROVE  LoadTyped' /\ definitions'.types = definitions.types /\ input' = input
<1>1. PICK url, frame, d, e : url = input.main /\ frame = Frame(url, baseUrl) /\ d = definitions /\ e = definitions'
  OBVIOUS
<1>2. /\ stack' = <<frame>> /\ e = [d EXCEPT !.tns = input.files[url].tns, !.name = input.files[url].name]
      /\ baseUrl' = Dir(url) /\ input' = input
  BY <1>1 DEF startLoading, Entered
<1>3. url \in Seq(STRING) /\ input.files[url].tns \in Texts /\ input.files[url].name \in Texts
  BY <1>1, FilesTyped DEF LoadTyped, Texts
<1>4. IsDefinitions(e) /\ e.types = d.types
  <2>1. PICK x, y : x = input.files[url].tns /\ y = input.files[url].name
    OBVIOUS
  <2>2. IsDefinitions(d) /\ x \in Texts /\ y \in Texts /\ e = [d EXCEPT !.tns = x, !.name = y]
    BY <1>1, <1>2, <1>3, <2>1 DEF LoadTyped
  <2>. QED
    BY <2>2, ContextSet
<1>5. frame \in FrameSet(input)
  BY <1>1 DEF Frame, FrameSet, LoadTyped, IsDefinitions
<1>6. stack' \in Seq(FrameSet(input)) /\ stack' # <<>>
  BY <1>2, <1>5
<1>7. baseUrl' \in Seq(STRING)
  BY <1>2, <1>3, DirTyped
<1>. QED
  BY <1>1, <1>2, <1>4, <1>6, <1>7 DEF LoadTyped

(* Every step keeps TypesInv.                                              *)
LEMMA TypesStep ==
  ASSUME DeclaredOnce, TypesInv, [Next]_vars
  PROVE  TypesInv'
<1>. USE DEF Reading
<1>1. Reading => \A s, t \in definitions.types : s.name = t.name => s = t
  BY DEF TypesInv, DeclaredOnce, LoadTyped
<1>2. Reading => definitions.types \subseteq SchemaType
  BY InputsAssumption DEF TypesInv, LoadTyped
<1>3. ASSUME UNCHANGED <<loadVars, collector, generator>> PROVE TypesInv'
  <2>1. Reading => LoadTyped'
    BY <1>3 DEF TypesInv, LoadTyped, loadVars
  <2>. QED
    BY <1>3, <2>1 DEF TypesInv, loadVars
<1>4. CASE download
  <2>1. CASE startLoading /\ generator' = "load"
    <3>1. generator = "download" /\ input.main \in DOMAIN input.files
      BY <1>4, <2>1 DEF download, Exit
    <3>. QED
      BY <2>1, <3>1, StartKept DEF TypesInv
  <2>2. CASE generator' = "exit"
    BY <2>2 DEF TypesInv
  <2>. QED
    BY <1>4, <2>1, <2>2 DEF download, Exit
<1>5. CASE load
  <2>1. LoadTyped' /\ definitions'.types \subseteq TypesOf(input')
    BY <1>5, LoadSteps DEF load, TypesInv
  <2>2. generator' # "types"
    BY <1>5 DEF load, Exit
  <2>. QED
    BY <2>1, <2>2 DEF TypesInv
<1>6. CASE fixup
  <2>1. generator' = "collect" /\ definitions' = fixUpDefinitions(definitions) /\ UNCHANGED <<input, baseUrl, stack, loading>>
        /\ LoadTyped /\ definitions.types \subseteq TypesOf(input)
    BY <1>6 DEF fixup, TypesInv
  <2>2. IsDefinitions(definitions') /\ definitions'.types = definitions.types
    BY <2>1, FixedUp DEF LoadTyped
  <2>3. LoadTyped'
    BY <2>1, <2>2 DEF LoadTyped
  <2>. QED
    BY <2>1, <2>2, <2>3 DEF TypesInv
<1>7. CASE cleanupUnusedTypes
  <2>1. /\ generator = "collect" /\ generator' = "types" /\ UNCHANGED loadVars
        /\ collector' = [NoCollector EXCEPT !.all = UsedTypes(definitions), !.todo = UsedTypes(definitions),
                                            !.phase = "collecting"]
    BY <1>7 DEF cleanupUnusedTypes, startCollecting
  <2>2. CollectInv(definitions, collector')
    BY <2>1, FirstRound
  <2>3. LoadTyped' /\ definitions'.types \subseteq TypesOf(input')
    BY <2>1 DEF TypesInv, LoadTyped, loadVars
  <2>. QED
    BY <2>1, <2>2, <2>3 DEF TypesInv, loadVars
<1>8. CASE collect
  <2>1. generator = "types" /\ generator' = "types" /\ UNCHANGED loadVars /\ CollectInv(definitions, collector)
    BY <1>8 DEF collect, TypesInv
  <2>2. CollectInv(definitions, collector')
    <3>1. CASE collectType(definitions)
      <4>1. PICK name \in collector.todo : collector' = Processed(collector, definitions, name)
        BY <3>1 DEF collectType
      <4>. QED
        BY <1>1, <1>2, <2>1, <4>1, CollectStep
    <3>2. CASE nextRound
      BY <2>1, <3>2, RoundStep DEF nextRound
    <3>. QED
      BY <1>8, <3>1, <3>2 DEF collect
  <2>3. LoadTyped' /\ definitions'.types \subseteq TypesOf(input')
    BY <2>1 DEF TypesInv, LoadTyped, loadVars
  <2>. QED
    BY <2>1, <2>2, <2>3 DEF TypesInv, loadVars
<1>9. CASE startConverting \/ convertServerService \/ convertClientService \/ nextService
  <2>1. ~ Reading'
    BY <1>9 DEF startConverting, convertServerService, convertClientService, nextService, Exit
  <2>. QED
    BY <2>1 DEF TypesInv
<1>10. CASE Use
  BY <1>3, <1>10, UseKeepsGenerator DEF generatorVars
<1>11. CASE UNCHANGED vars
  BY <1>3, <1>11 DEF vars
<1>. QED
  BY <1>4, <1>5, <1>6, <1>7, <1>8, <1>9, <1>10, <1>11 DEF Next, Generate

(* Whatever the documents import and in whatever order the sets are walked,  *)
(* the types kept are exactly those the messages need, when no two types of  *)
(* an input share a name: TypeCollector in KWSDLConverter.                   *)
THEOREM KeptAreNeeded == ASSUME DeclaredOnce PROVE Spec => []KeptTypesAreNeeded
<1>1. TypesInv => KeptTypesAreNeeded
  <2>. SUFFICES ASSUME TypesInv, generator = "types", CollectingDone
                PROVE  Kept(collector) = Needed(definitions)
    BY DEF KeptTypesAreNeeded, Kept, NamesOf
  <2>1. LoadTyped /\ definitions.types \subseteq TypesOf(input) /\ CollectInv(definitions, collector)
        /\ collector.todo = {} /\ collector.also = {}
    BY DEF TypesInv, Reading, CollectingDone
  <2>2. definitions.types \subseteq SchemaType
    BY <2>1, InputsAssumption DEF LoadTyped
  <2>. QED
    BY <2>1, <2>2, LastRound
<1>. QED
  BY <1>1, TypesInitially, TypesStep, PTL DEF Spec

(***************************************************************************)
(* A call and its result between a generated client and a generated server, *)
(* and what a binding must be like for them to agree.                       *)
(***************************************************************************)
OperationsOf(d, b) == findPortType(d, b.portType).operations
CallableOf(d, b) == {op \in SeqRange(OperationsOf(d, b)) : op.type # "NotificationOperation"}

(* The name of the element an operation's request is sent as.              *)
RequestName(d, b, op) ==
  IF soapStyle(b) = "rpc" THEN op.name
  ELSE IF InputParts(d, b, op) = <<>> THEN "" ELSE elementNameForPart(d, Last(InputParts(d, b, op)))

(* A request has the name or the action of its own operation and of no other; *)
(* the operations are a sequence.                                             *)
ActionOf(b, op) == SoapOp(b, op).soapAction
Claims(d, b, other, op) ==
  RequestName(d, b, op) = other.name \/ (ActionOf(b, other) # "" /\ ActionOf(b, op) = ActionOf(b, other))
ToldApart(d, b) ==
  LET ops == OperationsOf(d, b) IN
  /\ DOMAIN ops \subseteq Nat
  /\ \A i, j \in DOMAIN ops :
       ops[i].name # "" /\ (ops[i] \in CallableOf(d, b) => (Claims(d, b, ops[j], ops[i]) <=> i = j))

(* The parts have names of their own, none is left out by a <soap:body>, and *)
(* in document style there is at most one.                                   *)
PartsNamed(parts) == \A i, j \in DOMAIN parts : parts[i].name = parts[j].name => i = j
ArgumentsFit(d, b) ==
  \A op \in CallableOf(d, b) :
    LET parts == findMessage(d, op.input).parts IN
    /\ InputParts(d, b, op) = parts
    /\ PartsNamed(parts)
    /\ soapStyle(b) # "rpc" => parts = <<>> \/ \E p \in SeqRange(parts) : parts = <<p>>

Servable(d, b) == ToldApart(d, b) /\ ArgumentsFit(d, b)

(* At most one result, which is not left out, and in RPC style one that is   *)
(* sent under its own name.                                                  *)
Returnable(d, b) ==
  /\ soapStyle(b) \in {"rpc", "document"}
  /\ \A op \in CallableOf(d, b) :
       LET parts == OutputMessage(d, op).parts IN
       /\ OutputParts(d, b, op) = parts
       /\ \/ parts = <<>>
          \/ \E p \in SeqRange(parts) : parts = <<p>> /\ (soapStyle(b) = "rpc" => elementNameForPart(d, p) = p.name)

(* The action arrives with either version of SOAP.                         *)
LEMMA ActionArrives == ASSUME NEW v, NEW action PROVE SoapActionOf(prepareRequest(v, action)) = action
<1>1. Last(<<action>>) = action /\ Last(<<"quoted", action>>) = action
  BY DEF Last
<1>2. <<action>> # <<>> /\ <<"quoted", action>> # <<>>
  OBVIOUS
<1>3. CASE v = "1.1"
  BY <1>1, <1>2, <1>3 DEF SoapActionOf, prepareRequest, NoHttp, Quoted, stripQuotes
<1>4. CASE v # "1.1"
  BY <1>1, <1>2, <1>4 DEF SoapActionOf, prepareRequest, NoHttp, stripQuotes
<1>. QED
  BY <1>3, <1>4

(* The server finds the operation of the request.                          *)
LEMMA OperationFound ==
  ASSUME NEW d, NEW b, Servable(d, b), NEW op \in CallableOf(d, b), NEW args, NEW v
  PROVE  MatchedOperation(d, b, clientGenerateMessage(d, b, op, args),
                          SoapActionOf(prepareRequest(v, SoapOp(b, op).soapAction))) = op
<1>1. PICK ops, r, a : /\ ops = OperationsOf(d, b) /\ r = clientGenerateMessage(d, b, op, args)
                       /\ a = SoapOp(b, op).soapAction
  OBVIOUS
<1>2. SoapActionOf(prepareRequest(v, a)) = a
  BY ActionArrives
<1>3. PICK i \in DOMAIN ops : op = ops[i]
  BY <1>1 DEF CallableOf, SeqRange
<1>4. r.name = RequestName(d, b, op)
  BY <1>1 DEF clientGenerateMessage, RequestName, addMessageArgument, Argument, NoMessageSent
<1>5. ASSUME NEW j \in DOMAIN ops PROVE Matches(b, ops[j], r, a) <=> j = i
  <2>1. Claims(d, b, ops[j], ops[i]) <=> i = j
    BY <1>1, <1>3 DEF Servable, ToldApart
  <2>2. Matches(b, ops[j], r, a) <=> Claims(d, b, ops[j], ops[i])
    BY <1>1, <1>3, <1>4 DEF Matches, Claims, ActionOf
  <2>. QED
    BY <2>1, <2>2
<1>6. {j \in DOMAIN ops : Matches(b, ops[j], r, a)} = {i}
  BY <1>5
<1>7. (CHOOSE k \in {i} : \A j \in {i} : k <= j) = i
  <2>1. i \in Nat
    BY <1>1 DEF Servable, ToldApart
  <2>. QED
    BY <2>1
<1>8. PICK hits : hits = {j \in DOMAIN ops : Matches(b, ops[j], r, a)}
  OBVIOUS
<1>9. MatchedOperation(d, b, r, a) = IF hits = {} THEN NoOp ELSE ops[CHOOSE k \in hits : \A j \in hits : k <= j]
  BY <1>1, <1>8 DEF MatchedOperation, OperationsOf
<1>10. hits = {i}
  BY <1>6, <1>8
<1>11. MatchedOperation(d, b, r, a) = op
  BY <1>3, <1>7, <1>9, <1>10
<1>. QED
  BY <1>1, <1>2, <1>11

(* The server reads the arguments the client was given.                    *)
LEMMA ArgumentsRead ==
  ASSUME NEW d, NEW b, Servable(d, b), NEW op \in CallableOf(d, b),
         NEW V, NEW args \in [{p.name : p \in SeqRange(InputParts(d, b, op))} -> V]
  PROVE  ServerArguments(d, b, op, clientGenerateMessage(d, b, op, args)) = args
<1>1. PICK parts, r : parts = findMessage(d, op.input).parts /\ r = clientGenerateMessage(d, b, op, args)
  OBVIOUS
<1>2. /\ InputParts(d, b, op) = parts /\ PartsNamed(parts)
      /\ soapStyle(b) # "rpc" => parts = <<>> \/ \E p \in SeqRange(parts) : parts = <<p>>
  BY <1>1 DEF Servable, ArgumentsFit
<1>3. PICK names : names = {p.name : p \in SeqRange(parts)}
  OBVIOUS
<1>4. args \in [names -> V]
  BY <1>2, <1>3
<1>5. ASSUME NEW i \in DOMAIN parts
      PROVE  (IF soapStyle(b) = "rpc" THEN r.children[i].value ELSE r.value)
               = [type |-> PartType(d, parts[i]), v |-> args[parts[i].name]]
  <2>1. CASE soapStyle(b) = "rpc"
    <3>1. r.children = [j \in DOMAIN parts |-> Argument(d, parts[j], args[parts[j].name])]
      BY <1>1, <1>2, <2>1 DEF clientGenerateMessage, NoMessageSent
    <3>2. r.children[i] = Argument(d, parts[i], args[parts[i].name])
      BY <3>1
    <3>. QED
      BY <2>1, <3>2 DEF Argument
  <2>2. CASE soapStyle(b) # "rpc"
    <3>1. PICK p : parts = <<p>>
      BY <1>2, <1>5, <2>2
    <3>2. i = 1 /\ parts[i] = p /\ Last(parts) = p /\ parts # <<>>
      BY <3>1 DEF Last
    <3>3. r = addMessageArgument(d, "document", NoMessageSent, p, args[p.name])
      BY <1>1, <1>2, <2>2, <3>2 DEF clientGenerateMessage
    <3>4. r.value = Argument(d, p, args[p.name]).value
      BY <3>3 DEF addMessageArgument, NoMessageSent
    <3>. QED
      BY <2>2, <3>2, <3>4 DEF Argument
  <2>. QED
    BY <2>1, <2>2
<1>6. ASSUME NEW i \in DOMAIN parts
      PROVE  ReadAs(d, parts[i], IF soapStyle(b) = "rpc" THEN r.children[i].value ELSE r.value) = args[parts[i].name]
  <2>1. PICK value, v : /\ value = IF soapStyle(b) = "rpc" THEN r.children[i].value ELSE r.value
                        /\ v = args[parts[i].name]
    OBVIOUS
  <2>2. value = [type |-> PartType(d, parts[i]), v |-> v]
    BY <1>5, <2>1
  <2>3. ReadAs(d, parts[i], value) = v
    BY <2>2 DEF ReadAs
  <2>. QED
    BY <2>1, <2>3
<1>. DEFINE at(n) == CHOOSE j \in DOMAIN parts : parts[j].name = n
<1>7. ASSUME NEW n \in names PROVE at(n) \in DOMAIN parts /\ parts[at(n)].name = n
  <2>1. \E j \in DOMAIN parts : parts[j].name = n
    BY <1>3 DEF SeqRange
  <2>. QED
    BY <2>1
<1>8. ServerArguments(d, b, op, r)
        = [n \in names |-> ReadAs(d, parts[at(n)], IF soapStyle(b) = "rpc" THEN r.children[at(n)].value ELSE r.value)]
  BY <1>1, <1>3 DEF ServerArguments
<1>. HIDE DEF at
<1>9. ASSUME NEW n \in names
      PROVE  ReadAs(d, parts[at(n)], IF soapStyle(b) = "rpc" THEN r.children[at(n)].value ELSE r.value) = args[n]
  <2>1. PICK i : i = at(n)
    OBVIOUS
  <2>. QED
    BY <1>6, <1>7, <2>1
<1>10. ServerArguments(d, b, op, r) = [n \in names |-> args[n]]
  BY <1>8, <1>9
<1>. QED
  BY <1>1, <1>4, <1>10

Returned(d, op, result) ==
  Outcome(FALSE, [n \in {p.name : p \in SeqRange(OutputMessage(d, op).parts)} |-> result])

(* The three interfaces of the client read the result the method returned. *)
LEMMA ResultRead ==
  ASSUME NEW d, NEW b, Returnable(d, b), NEW op \in CallableOf(d, b), NEW result, NEW reply,
         reply = ServerReply(d, b, op, result), NEW returned, returned = Returned(d, op, result)
  PROVE  /\ syncOutcome(d, b, op, reply) = returned
         /\ asyncOutcome(d, b, op, reply) = returned
         /\ ~ JobReturnsEarly(d, b, op, reply)
<1>1. PICK parts, f : /\ parts = OutputMessage(d, op).parts
                      /\ f = [n \in {p.name : p \in SeqRange(parts)} |-> result]
                      /\ returned = Outcome(FALSE, f)
  BY DEF Returned
<1>2. /\ OutputParts(d, b, op) = parts /\ soapStyle(b) \in {"rpc", "document"}
      /\ \/ parts = <<>>
         \/ \E p : parts = <<p>> /\ (soapStyle(b) = "rpc" => elementNameForPart(d, p) = p.name)
  BY <1>1 DEF Returnable
<1>3. CASE parts = <<>>
  <2>1. Len(parts) # 1 /\ SeqRange(parts) = {}
    BY <1>3 DEF SeqRange
  <2>2. f = [n \in {} |-> result] /\ {p.name : p \in SeqRange(parts)} = {}
    BY <1>1, <2>1
  <2>3. ASSUME NEW value PROVE ReadAll(d, parts, value) = f
    BY <2>1, <2>2 DEF ReadAll
  <2>4. syncOutcome(d, b, op, reply) = Outcome(FALSE, f)
    BY <1>2, <2>1, <2>3 DEF syncOutcome
  <2>5. asyncOutcome(d, b, op, reply) = Outcome(FALSE, f)
    BY <1>2, <2>2, <2>3 DEF asyncOutcome
  <2>6. ~ JobReturnsEarly(d, b, op, reply)
    BY <1>2, <1>3 DEF JobReturnsEarly
  <2>. QED
    BY <1>1, <2>4, <2>5, <2>6
<1>4. CASE parts # <<>>
  <2>1. PICK p : parts = <<p>> /\ (soapStyle(b) = "rpc" => elementNameForPart(d, p) = p.name)
    BY <1>2, <1>4
  <2>2. Len(parts) = 1 /\ parts[1] = p /\ SeqRange(parts) = {p} /\ {q.name : q \in SeqRange(parts)} = {p.name}
    BY <2>1 DEF SeqRange
  <2>3. PICK argument : argument = Argument(d, p, result)
    OBVIOUS
  <2>4. /\ argument.name = elementNameForPart(d, p) /\ ReadAs(d, p, argument.value) = result
    BY <2>3 DEF Argument, ReadAs
  <2>5. f = [n \in {p.name} |-> result]
    BY <1>1, <2>2
  <2>6. (CHOOSE q \in SeqRange(parts) : q.name = p.name) = p
    BY <2>2
  <2>7. ReadAll(d, parts, argument.value) = f
    <3>1. ReadAll(d, parts, argument.value)
            = [n \in {p.name} |-> ReadAs(d, CHOOSE q \in SeqRange(parts) : q.name = n, argument.value)]
      BY <2>2 DEF ReadAll
    <3>2. ASSUME NEW n \in {p.name} PROVE ReadAs(d, CHOOSE q \in SeqRange(parts) : q.name = n, argument.value) = result
      BY <2>4, <2>6
    <3>. QED
      BY <2>5, <3>1, <3>2
  <2>8. CASE soapStyle(b) = "document"
    <3>1. reply.value = argument.value
      BY <1>1, <2>2, <2>3, <2>8 DEF ServerReply, addMessageArgument, NoMessageSent
    <3>. QED
      BY <1>1, <1>2, <2>7, <2>8, <3>1 DEF syncOutcome, asyncOutcome, JobReturnsEarly
  <2>9. CASE soapStyle(b) = "rpc"
    <3>1. reply.children = Append(<<>>, argument)
      BY <1>1, <2>2, <2>3, <2>9 DEF ServerReply, addMessageArgument, NoMessageSent
    <3>2. reply.children = <<argument>> /\ reply.children # <<>> /\ reply.children[1] = argument
          /\ SeqRange(reply.children) = {argument}
      BY <3>1 DEF SeqRange
    <3>3. argument.name = p.name
      BY <2>1, <2>4, <2>9
    <3>4. ChildValue(reply, p.name) = argument.value
      <4>1. {c \in SeqRange(reply.children) : c.name = p.name} = {argument}
        BY <3>2, <3>3
      <4>2. (CHOOSE c \in {argument} : TRUE) = argument
        OBVIOUS
      <4>. QED
        BY <4>1, <4>2 DEF ChildValue
    <3>5. syncOutcome(d, b, op, reply) = Outcome(FALSE, f)
      BY <1>2, <2>2, <2>7, <2>9, <3>2 DEF syncOutcome
    <3>6. asyncOutcome(d, b, op, reply) = Outcome(FALSE, f)
      <4>. DEFINE read(n) == ReadAs(d, CHOOSE q \in SeqRange(parts) : q.name = n, ChildValue(reply, n))
      <4>1. asyncOutcome(d, b, op, reply) = Outcome(FALSE, [n \in {q.name : q \in SeqRange(parts)} |-> read(n)])
        BY <1>2, <2>9 DEF asyncOutcome
      <4>2. read(p.name) = result
        BY <2>4, <2>6, <3>4
      <4>. HIDE DEF read
      <4>3. [n \in {p.name} |-> read(n)] = f
        BY <2>5, <4>2
      <4>. QED
        BY <2>2, <4>1, <4>3
    <3>. QED
      BY <1>1, <3>2, <3>5, <3>6 DEF JobReturnsEarly
  <2>. QED
    BY <1>2, <2>8, <2>9
<1>. QED
  BY <1>3, <1>4

(***************************************************************************)
(* The application's object and its calls.                                 *)
(***************************************************************************)
IsService(s) ==
  s = [binding |-> s.binding, endPoint |-> s.endPoint, interface |-> s.interface, version |-> s.version,
       lastReply |-> s.lastReply, lastFault |-> s.lastFault]
IsCall(k) ==
  DOMAIN k = {"api", "op", "args", "to", "state", "served", "foreign", "got", "result", "fault", "request", "http",
              "reply", "outcome", "emitted"}

(* A call was made for an operation, was sent as the stub writes it,        *)
(* answered as the generated server does, and ended as its interface reads. *)
Asked(d, b, k) ==
  /\ k.op \in CallableOf(d, b)
  /\ k.args \in [{p.name : p \in SeqRange(InputParts(d, b, k.op))} -> Values]
Left(d, b, k) ==
  /\ k.request = clientGenerateMessage(d, b, k.op, k.args)
  /\ \E v : k.http = prepareRequest(v, SoapOp(b, k.op).soapAction)
Answered(d, b, k) ==
  /\ k.served = MatchedOperation(d, b, k.request, SoapActionOf(k.http))
  /\ k.served # NoOp => k.got = ServerArguments(d, b, k.served, k.request)
  /\ k.served # NoOp /\ ~ k.fault => k.reply = ServerReply(d, b, k.served, k.result)
Ended(d, b, k) ==
  \/ k.fault /\ k.outcome = Faulty
  \/ ~ k.fault /\ JobReturnsEarly(d, b, k.op, k.reply)
  \/ ~ k.fault /\ k.outcome \in {syncOutcome(d, b, k.op, k.reply), asyncOutcome(d, b, k.op, k.reply)}

CallOk(d, b, k) ==
  /\ IsCall(k) /\ Asked(d, b, k)
  /\ k.state # "started" => Left(d, b, k)
  /\ k.state \in {"served", "done"} /\ ~ k.foreign => Answered(d, b, k)
  /\ k.state = "done" /\ ~ k.foreign => Ended(d, b, k)

UseInv ==
  /\ exit # "none" => generator = "exit"
  /\ service # NoService => generator = "exit" /\ service.binding # NoName
  /\ IsService(service) /\ EndPointHonoured
  /\ \E S : calls \in Seq(S)
  /\ calls # <<>> => service # NoService
  /\ \A c \in DOMAIN calls : CallOk(definitions, ServiceBinding, calls[c])

(* UseInv holds before there is an object.                                 *)
LEMMA UseInitially == Init => UseInv
<1>. SUFFICES ASSUME Init PROVE UseInv
  OBVIOUS
<1>1. service = NoService /\ calls = <<>> /\ exit = "none"
  BY DEF Init
<1>2. IsService(service) /\ service.interface = "none"
  BY <1>1 DEF IsService, NoService
<1>3. calls \in Seq({}) /\ DOMAIN calls = {}
  BY <1>1
<1>. QED
  BY <1>1, <1>2, <1>3 DEF UseInv, EndPointHonoured

(* What the object's own functions do to it.                               *)
LEMMA InterfaceIs ==
  ASSUME NEW s, IsService(s), NEW t, t = Interface(s)
  PROVE  /\ IsService(t) /\ t.binding = s.binding /\ t.endPoint = s.endPoint
         /\ t.interface = IF s.interface # "none" THEN s.interface
                          ELSE IF s.endPoint # "" THEN s.endPoint ELSE findBinding(definitions, s.binding).address
<1>1. CASE s.interface # "none"
  BY <1>1 DEF Interface
<1>2. CASE s.interface = "none"
  <2>1. PICK i, v : i = (IF s.endPoint # "" THEN s.endPoint ELSE findBinding(definitions, s.binding).address)
                    /\ v = findBinding(definitions, s.binding).version
    OBVIOUS
  <2>2. t = [s EXCEPT !.interface = i, !.version = v]
    BY <1>2, <2>1 DEF Interface
  <2>3. PICK u : u = [s EXCEPT !.interface = i]
    OBVIOUS
  <2>4. IsService(u) /\ u.binding = s.binding /\ u.endPoint = s.endPoint /\ u.interface = i
    BY <2>3 DEF IsService
  <2>5. t = [u EXCEPT !.version = v]
    BY <2>2, <2>3
  <2>6. IsService(t) /\ t.binding = u.binding /\ t.endPoint = u.endPoint /\ t.interface = u.interface
    BY <2>4, <2>5 DEF IsService
  <2>. QED
    BY <1>2, <2>1, <2>4, <2>6
<1>. QED
  BY <1>1, <1>2

(* The object keeps its binding, and what was honoured stays so.           *)
ObjectKept ==
  /\ service' # NoService /\ service'.binding = service.binding
  /\ IsService(service') /\ EndPointHonoured'

(* A step that leaves the object its binding leaves all it is read from.   *)
LEMMA BindingKept ==
  ASSUME UseInv, service # NoService, UNCHANGED generatorVars, service'.binding = service.binding
  PROVE  /\ definitions' = definitions /\ ServiceBinding' = ServiceBinding /\ service' # NoService
         /\ exit' = exit /\ generator' = generator
<1>1. NoService.binding = NoName
  BY DEF NoService
<1>2. definitions' = definitions /\ exit' = exit /\ generator' = generator
  BY DEF generatorVars, loadVars
<1>. QED
  BY <1>1, <1>2 DEF UseInv, ServiceBinding

(* The interface that is made has the end point that is set.               *)
LEMMA InterfaceKept ==
  ASSUME UseInv, service # NoService, UNCHANGED generatorVars, service' = Interface(service)
  PROVE  ObjectKept
<1>1. PICK s, t : s = service /\ t = Interface(s)
  OBVIOUS
<1>2. IsService(s)
  BY <1>1 DEF UseInv
<1>3. /\ IsService(t) /\ t.binding = s.binding /\ t.endPoint = s.endPoint
      /\ t.interface = IF s.interface # "none" THEN s.interface
                       ELSE IF s.endPoint # "" THEN s.endPoint ELSE findBinding(definitions, s.binding).address
  BY <1>1, <1>2, InterfaceIs
<1>4. ServiceBinding' = ServiceBinding /\ service' # NoService
  BY <1>1, <1>3, BindingKept
<1>. QED
  BY <1>1, <1>3, <1>4 DEF ObjectKept, UseInv, EndPointHonoured, ServiceBinding

(* setEndPoint() changes the interface with the object.                    *)
LEMMA SetEndPointKept == ASSUME UseInv, setEndPoint PROVE ObjectKept
<1>1. PICK e \in EndPoints :
        service' = [service EXCEPT !.endPoint = e, !.interface = IF @ # "none" THEN e ELSE @]
  BY DEF setEndPoint
<1>2. PICK s, i : s = service /\ i = IF s.interface # "none" THEN e ELSE s.interface
  OBVIOUS
<1>3. PICK t : t = [s EXCEPT !.endPoint = e]
  OBVIOUS
<1>4. IsService(s) /\ service # NoService /\ UNCHANGED generatorVars
  BY <1>2 DEF UseInv, setEndPoint
<1>5. IsService(t) /\ t.binding = s.binding /\ t.endPoint = e /\ t.interface = s.interface
  BY <1>3, <1>4 DEF IsService
<1>6. service' = [t EXCEPT !.interface = i]
  BY <1>1, <1>2, <1>3, <1>4 DEF IsService
<1>7. IsService(service') /\ service'.binding = s.binding /\ service'.endPoint = e /\ service'.interface = i
  BY <1>5, <1>6 DEF IsService
<1>8. ServiceBinding' = ServiceBinding /\ service' # NoService
  BY <1>2, <1>4, <1>7, BindingKept
<1>9. e # ""
  BY EndPointsAssumption
<1>. QED
  BY <1>2, <1>7, <1>8, <1>9 DEF ObjectKept, EndPointHonoured

(* setSoapVersion() leaves the end point alone.                            *)
LEMMA SetVersionKept == ASSUME UseInv, setSoapVersion PROVE ObjectKept
<1>1. PICK v \in Versions : service' = [Interface(service) EXCEPT !.version = v]
  BY DEF setSoapVersion
<1>2. PICK s, t : s = service /\ t = Interface(s)
  OBVIOUS
<1>3. IsService(s) /\ service # NoService /\ UNCHANGED generatorVars
  BY <1>2 DEF UseInv, setSoapVersion
<1>4. /\ IsService(t) /\ t.binding = s.binding /\ t.endPoint = s.endPoint
      /\ t.interface = IF s.interface # "none" THEN s.interface
                       ELSE IF s.endPoint # "" THEN s.endPoint ELSE findBinding(definitions, s.binding).address
  BY <1>2, <1>3, InterfaceIs
<1>5. /\ IsService(service') /\ service'.binding = t.binding /\ service'.endPoint = t.endPoint
      /\ service'.interface = t.interface
  BY <1>1, <1>2, <1>4 DEF IsService
<1>6. ServiceBinding' = ServiceBinding /\ service' # NoService
  BY <1>2, <1>3, <1>4, <1>5, BindingKept
<1>. QED
  BY <1>2, <1>4, <1>5, <1>6 DEF ObjectKept, UseInv, EndPointHonoured, ServiceBinding

(* UseInv follows from the call that changed.                              *)
LEMMA CallChanged ==
  ASSUME UseInv, UNCHANGED generatorVars, ObjectKept, NEW c \in DOMAIN calls,
         NEW k, CallOk(definitions, ServiceBinding, k), calls' = [calls EXCEPT ![c] = k]
  PROVE  UseInv'
<1>1. PICK S : calls \in Seq(S)
  BY DEF UseInv
<1>2. calls # <<>> /\ service # NoService
  BY <1>1 DEF UseInv
<1>3. /\ definitions' = definitions /\ ServiceBinding' = ServiceBinding /\ service' # NoService
      /\ exit' = exit /\ generator' = generator
  BY <1>2, BindingKept DEF ObjectKept
<1>4. calls \in Seq(S \cup {k})
  BY <1>1
<1>5. calls' \in Seq(S \cup {k}) /\ DOMAIN calls' = DOMAIN calls
      /\ \A b \in DOMAIN calls : calls'[b] = IF b = c THEN k ELSE calls[b]
  BY <1>4
<1>6. ASSUME NEW b \in DOMAIN calls' PROVE CallOk(definitions, ServiceBinding, calls'[b])
  BY <1>5 DEF UseInv
<1>. QED
  BY <1>2, <1>3, <1>5, <1>6 DEF UseInv, ObjectKept

(* UseInv follows from the call that was added.                            *)
LEMMA CallAdded ==
  ASSUME UseInv, UNCHANGED generatorVars, ObjectKept, service # NoService,
         NEW k, CallOk(definitions, ServiceBinding, k), calls' = Append(calls, k)
  PROVE  UseInv'
<1>1. PICK S : calls \in Seq(S)
  BY DEF UseInv
<1>3. /\ definitions' = definitions /\ ServiceBinding' = ServiceBinding /\ service' # NoService
      /\ exit' = exit /\ generator' = generator
  BY BindingKept DEF ObjectKept
<1>4. calls \in Seq(S \cup {k})
  BY <1>1
<1>5. calls' \in Seq(S \cup {k}) /\ Len(calls') = Len(calls) + 1 /\ Len(calls) \in Nat
      /\ \A b \in 1..Len(calls') : calls'[b] = IF b = Len(calls) + 1 THEN k ELSE calls[b]
  BY <1>4
<1>6. ASSUME NEW b \in DOMAIN calls' PROVE CallOk(definitions, ServiceBinding, calls'[b])
  <2>1. b \in 1..Len(calls') /\ DOMAIN calls = 1..Len(calls)
    BY <1>4, <1>5
  <2>2. CASE b = Len(calls) + 1
    BY <1>5, <2>1, <2>2
  <2>3. CASE b # Len(calls) + 1
    <3>1. b \in DOMAIN calls
      BY <1>5, <2>1, <2>3
    <3>. QED
      BY <1>5, <2>1, <2>3, <3>1 DEF UseInv
  <2>. QED
    BY <2>2, <2>3
<1>. QED
  BY <1>3, <1>5, <1>6 DEF UseInv, ObjectKept

(* A call that is sent carries the message of its stub.                    *)
LEMMA SentOk ==
  ASSUME NEW call, IsCall(call), Asked(definitions, ServiceBinding, call), NEW from
  PROVE  CallOk(definitions, ServiceBinding, Sent(call, from))
<1>1. PICK k : k = Sent(call, from)
  OBVIOUS
<1>2. PICK to, request, http, v, a :
         /\ to = from.interface /\ request = clientGenerateMessage(definitions, ServiceBinding, call.op, call.args)
         /\ v = from.version /\ a = SoapOp(ServiceBinding, call.op).soapAction /\ http = prepareRequest(v, a)
  OBVIOUS
<1>3. k = [call EXCEPT !.to = to, !.request = request, !.http = http, !.state = "sent"]
  BY <1>1, <1>2 DEF Sent
<1>4. IsCall(k) /\ k.op = call.op /\ k.args = call.args /\ k.request = request /\ k.http = http /\ k.state = "sent"
  BY <1>3 DEF IsCall
<1>. QED
  BY <1>1, <1>2, <1>4 DEF CallOk, Asked, Left

(* Starting a call keeps UseInv.                                           *)
LEMMA StartStep == ASSUME UseInv, startCall PROVE UseInv'
<1>1. service # NoService /\ UNCHANGED generatorVars
  BY DEF startCall
<1>2. PICK op \in SeqRange(findPortType(definitions, ServiceBinding.portType).operations) :
      \E api \in Apis(op) :
      \E args \in [{p.name : p \in SeqRange(InputParts(definitions, ServiceBinding, op))} -> Values] :
        LET call == [NoCall EXCEPT !.api = api, !.op = op, !.args = args, !.state = "started"] IN
        /\ op.type # "NotificationOperation"
        /\ IF api = "job" THEN UNCHANGED service /\ calls' = Append(calls, call)
           ELSE service' = Interface(service) /\ calls' = Append(calls, Sent(call, Interface(service)))
  BY DEF startCall
<1>3. PICK api, args, call :
        /\ args \in [{p.name : p \in SeqRange(InputParts(definitions, ServiceBinding, op))} -> Values]
        /\ call = [NoCall EXCEPT !.api = api, !.op = op, !.args = args, !.state = "started"]
        /\ op.type # "NotificationOperation"
        /\ IF api = "job" THEN UNCHANGED service /\ calls' = Append(calls, call)
           ELSE service' = Interface(service) /\ calls' = Append(calls, Sent(call, Interface(service)))
  BY <1>2
<1>4. IsCall(call) /\ call.op = op /\ call.args = args /\ call.state = "started"
  BY <1>3 DEF IsCall, NoCall
<1>5. Asked(definitions, ServiceBinding, call)
  BY <1>3, <1>4 DEF Asked, CallableOf, OperationsOf
<1>6. CASE api = "job"
  <2>1. CallOk(definitions, ServiceBinding, call)
    BY <1>4, <1>5 DEF CallOk
  <2>2. service' = service /\ calls' = Append(calls, call)
    BY <1>3, <1>6
  <2>3. ObjectKept
    <3>1. ServiceBinding' = ServiceBinding
      BY <1>1, <2>2, BindingKept
    <3>. QED
      BY <1>1, <2>2, <3>1 DEF ObjectKept, UseInv, EndPointHonoured
  <2>. QED
    BY <1>1, <2>1, <2>2, <2>3, CallAdded
<1>7. CASE api # "job"
  <2>1. service' = Interface(service) /\ calls' = Append(calls, Sent(call, Interface(service)))
    BY <1>3, <1>7
  <2>2. PICK k : k = Sent(call, Interface(service))
    OBVIOUS
  <2>3. CallOk(definitions, ServiceBinding, k)
    BY <1>4, <1>5, <2>2, SentOk
  <2>4. ObjectKept
    BY <1>1, <2>1, InterfaceKept
  <2>. QED
    BY <1>1, <2>1, <2>2, <2>3, <2>4, CallAdded
<1>. QED
  BY <1>6, <1>7

(* Where there is a call there is an object.                               *)
LEMMA CallsObject ==
  ASSUME UseInv, NEW c \in DOMAIN calls, UNCHANGED generatorVars
  PROVE  /\ service # NoService /\ CallOk(definitions, ServiceBinding, calls[c])
         /\ service' = service => ObjectKept
<1>1. service # NoService /\ CallOk(definitions, ServiceBinding, calls[c])
  <2>1. PICK S : calls \in Seq(S)
    BY DEF UseInv
  <2>. QED
    BY <2>1 DEF UseInv
<1>2. ASSUME service' = service PROVE ObjectKept
  <2>1. ServiceBinding' = ServiceBinding
    BY <1>1, <1>2, BindingKept
  <2>. QED
    BY <1>1, <1>2, <2>1 DEF ObjectKept, UseInv, EndPointHonoured
<1>. QED
  BY <1>1, <1>2

(* A job that sends its request keeps UseInv.                              *)
LEMMA DoStartStep == ASSUME UseInv, NEW c \in DOMAIN calls, doStart(c) PROVE UseInv'
<1>1. UNCHANGED generatorVars /\ service' = Interface(service)
      /\ calls' = [calls EXCEPT ![c] = Sent(calls[c], Interface(service))]
  BY DEF doStart
<1>2. service # NoService /\ CallOk(definitions, ServiceBinding, calls[c])
  BY <1>1, CallsObject
<1>3. PICK k : k = Sent(calls[c], Interface(service))
  OBVIOUS
<1>4. CallOk(definitions, ServiceBinding, k)
  BY <1>2, <1>3, SentOk DEF CallOk
<1>5. ObjectKept
  BY <1>1, <1>2, InterfaceKept
<1>. QED
  BY <1>1, <1>3, <1>4, <1>5, CallChanged

(* The generated server's answer keeps UseInv.                             *)
LEMMA ProcessStep == ASSUME UseInv, NEW c \in DOMAIN calls, processRequest(c) PROVE UseInv'
<1>1. UNCHANGED generatorVars /\ service' = service /\ calls[c].state = "sent"
  BY DEF processRequest
<1>2. ObjectKept /\ CallOk(definitions, ServiceBinding, calls[c])
  BY <1>1, CallsObject
<1>3. PICK x, d, b, op : /\ x = calls[c] /\ d = definitions /\ b = ServiceBinding
                         /\ op = MatchedOperation(definitions, ServiceBinding, calls[c].request, SoapActionOf(calls[c].http))
  OBVIOUS
<1>4. PICK result, got, fault, reply, k :
         /\ op # NoOp => got = ServerArguments(d, b, op, x.request)
         /\ op # NoOp /\ ~ fault => reply = ServerReply(d, b, op, result)
         /\ k = [x EXCEPT !.state = "served", !.served = op, !.result = result, !.got = got, !.fault = fault, !.reply = reply]
         /\ calls' = [calls EXCEPT ![c] = k]
  <2>1. PICK result \in Values \cup {"fault"} :
          LET fault == op = NoOp \/ (MethodCalled(d, op) /\ result = "fault") IN
          calls' = [calls EXCEPT ![c] = [@ EXCEPT !.state = "served", !.served = op, !.result = result,
            !.got = IF op = NoOp THEN <<>> ELSE ServerArguments(d, b, op, x.request),
            !.fault = fault,
            !.reply = IF fault \/ op = NoOp THEN NoMessageSent ELSE ServerReply(d, b, op, result)]]
    BY <1>3 DEF processRequest
  <2>2. PICK fault, got, reply :
          /\ fault = (op = NoOp \/ (MethodCalled(d, op) /\ result = "fault"))
          /\ got = IF op = NoOp THEN <<>> ELSE ServerArguments(d, b, op, x.request)
          /\ reply = IF fault \/ op = NoOp THEN NoMessageSent ELSE ServerReply(d, b, op, result)
    OBVIOUS
  <2>3. PICK k : k = [x EXCEPT !.state = "served", !.served = op, !.result = result, !.got = got, !.fault = fault,
                               !.reply = reply]
    OBVIOUS
  <2>4. calls' = [calls EXCEPT ![c] = k]
    BY <1>3, <2>1, <2>2, <2>3
  <2>. QED
    BY <2>2, <2>3, <2>4
<1>5. IsCall(x) /\ Asked(d, b, x) /\ Left(d, b, x)
  BY <1>1, <1>2, <1>3 DEF CallOk
<1>6. /\ IsCall(k) /\ k.op = x.op /\ k.args = x.args /\ k.request = x.request /\ k.http = x.http
      /\ k.state = "served" /\ k.served = op /\ k.result = result /\ k.got = got /\ k.fault = fault /\ k.reply = reply
  BY <1>4, <1>5 DEF IsCall
<1>7. CallOk(d, b, k)
  BY <1>3, <1>4, <1>5, <1>6 DEF CallOk, Asked, Left, Answered
<1>. QED
  BY <1>1, <1>2, <1>3, <1>4, <1>7, CallChanged

(* A foreign server's answer keeps UseInv.                                 *)
LEMMA ForeignStep == ASSUME UseInv, NEW c \in DOMAIN calls, foreignReply(c) PROVE UseInv'
<1>1. /\ UNCHANGED generatorVars /\ service' = service /\ calls[c].state = "sent"
      /\ calls' = [calls EXCEPT ![c] = [calls[c] EXCEPT !.state = "served", !.foreign = TRUE]]
  BY DEF foreignReply
<1>2. ObjectKept /\ CallOk(definitions, ServiceBinding, calls[c])
  BY <1>1, CallsObject
<1>3. PICK x, k : x = calls[c] /\ k = [x EXCEPT !.state = "served", !.foreign = TRUE]
  OBVIOUS
<1>4. /\ DOMAIN k = DOMAIN x /\ k.op = x.op /\ k.args = x.args /\ k.request = x.request /\ k.http = x.http
      /\ k.state = "served" /\ k.foreign
  BY <1>2, <1>3 DEF CallOk, IsCall
<1>5. CallOk(definitions, ServiceBinding, k)
  BY <1>1, <1>2, <1>3, <1>4 DEF CallOk, IsCall, Asked, Left
<1>. QED
  BY <1>1, <1>2, <1>3, <1>5, CallChanged

(* A call that ends with the outcome of its interface.                     *)
LEMMA FinishedOk ==
  ASSUME NEW d, NEW b, NEW x, CallOk(d, b, x), x.state = "served", NEW outcome, NEW emitted, NEW k,
         k = [x EXCEPT !.state = "done", !.outcome = outcome, !.emitted = emitted],
         \/ x.fault /\ outcome = Faulty
         \/ ~ x.fault /\ JobReturnsEarly(d, b, x.op, x.reply)
         \/ ~ x.fault /\ outcome \in {syncOutcome(d, b, x.op, x.reply), asyncOutcome(d, b, x.op, x.reply)}
  PROVE  CallOk(d, b, k)
<1>1. /\ IsCall(k) /\ k.op = x.op /\ k.args = x.args /\ k.request = x.request /\ k.http = x.http
      /\ k.served = x.served /\ k.result = x.result /\ k.got = x.got /\ k.fault = x.fault /\ k.reply = x.reply
      /\ k.foreign = x.foreign /\ k.state = "done" /\ k.outcome = outcome
  BY DEF CallOk, IsCall
<1>. QED
  BY <1>1 DEF CallOk, Asked, Left, Answered, Ended

(* The three interfaces end a call with an outcome of theirs.              *)
LEMMA FinishStep ==
  ASSUME UseInv, NEW c \in DOMAIN calls, syncReturns(c) \/ asyncFinished(c) \/ jobFinished(c)
  PROVE  UseInv'
<1>1. UNCHANGED generatorVars /\ calls[c].state = "served"
  BY DEF syncReturns, asyncFinished, jobFinished, Finished
<1>2. CallOk(definitions, ServiceBinding, calls[c]) /\ service # NoService /\ (service' = service => ObjectKept)
  BY <1>1, CallsObject
<1>3. PICK x, d, b : x = calls[c] /\ d = definitions /\ b = ServiceBinding
  OBVIOUS
<1>4. ASSUME NEW outcome, NEW emitted, Finished(c, outcome, emitted), ObjectKept,
             \/ x.fault /\ outcome = Faulty
             \/ ~ x.fault /\ JobReturnsEarly(d, b, x.op, x.reply)
             \/ ~ x.fault /\ outcome \in {syncOutcome(d, b, x.op, x.reply), asyncOutcome(d, b, x.op, x.reply)}
      PROVE  UseInv'
  <2>1. PICK k : k = [x EXCEPT !.state = "done", !.outcome = outcome, !.emitted = emitted]
    OBVIOUS
  <2>2. calls' = [calls EXCEPT ![c] = k]
    BY <1>3, <1>4, <2>1 DEF Finished
  <2>3. CallOk(d, b, k)
    BY <1>1, <1>2, <1>3, <1>4, <2>1, FinishedOk
  <2>. QED
    BY <1>1, <1>3, <1>4, <2>2, <2>3, CallChanged
<1>5. CASE syncReturns(c)
  <2>1. PICK outcome : outcome = IF x.fault THEN Faulty ELSE syncOutcome(d, b, x.op, x.reply)
    OBVIOUS
  <2>2. Finished(c, outcome, TRUE) /\ service' = [service EXCEPT !.lastReply = x.reply, !.lastFault = outcome.fault]
    BY <1>3, <1>5, <2>1 DEF syncReturns
  <2>3. ObjectKept
    <3>1. PICK s, t, r, f : s = service /\ r = x.reply /\ f = outcome.fault /\ t = [s EXCEPT !.lastReply = r]
      OBVIOUS
    <3>2. IsService(s)
      BY <3>1 DEF UseInv
    <3>3. IsService(t) /\ t.binding = s.binding /\ t.endPoint = s.endPoint /\ t.interface = s.interface
      BY <3>1, <3>2 DEF IsService
    <3>4. service' = [t EXCEPT !.lastFault = f]
      BY <2>2, <3>1
    <3>5. IsService(service') /\ service'.binding = s.binding /\ service'.endPoint = s.endPoint
          /\ service'.interface = s.interface
      BY <3>3, <3>4 DEF IsService
    <3>6. ServiceBinding' = ServiceBinding /\ service' # NoService
      BY <1>1, <1>2, <3>1, <3>5, BindingKept
    <3>. QED
      BY <3>1, <3>5, <3>6 DEF ObjectKept, UseInv, EndPointHonoured
  <2>. QED
    BY <1>4, <2>1, <2>2, <2>3
<1>6. CASE asyncFinished(c)
  <2>1. PICK outcome : outcome = IF x.fault THEN Faulty ELSE asyncOutcome(d, b, x.op, x.reply)
    OBVIOUS
  <2>2. Finished(c, outcome, TRUE) /\ service' = service
    BY <1>3, <1>6, <2>1 DEF asyncFinished
  <2>. QED
    BY <1>2, <1>4, <2>1, <2>2
<1>7. CASE jobFinished(c)
  <2>1. service' = service
    BY <1>7 DEF jobFinished
  <2>2. CASE x.fault
    <3>1. Finished(c, Faulty, TRUE)
      BY <1>3, <1>7, <2>2 DEF jobFinished
    <3>. QED
      BY <1>2, <1>4, <2>1, <2>2, <3>1
  <2>3. CASE ~ x.fault /\ JobReturnsEarly(d, b, x.op, x.reply)
    <3>1. Finished(c, Faulty, FALSE)
      BY <1>3, <1>7, <2>3 DEF jobFinished
    <3>. QED
      BY <1>2, <1>4, <2>1, <2>3, <3>1
  <2>4. CASE ~ x.fault /\ ~ JobReturnsEarly(d, b, x.op, x.reply)
    <3>1. PICK outcome : outcome = syncOutcome(d, b, x.op, x.reply)
      OBVIOUS
    <3>2. Finished(c, outcome, TRUE)
      BY <1>3, <1>7, <2>4, <3>1 DEF jobFinished
    <3>. QED
      BY <1>2, <1>4, <2>1, <2>4, <3>1, <3>2
  <2>. QED
    BY <2>2, <2>3, <2>4
<1>. QED
  BY <1>5, <1>6, <1>7

(* The generator has exited before there is an object to use.              *)
LEMMA GenerateStep == ASSUME UseInv, Generate PROVE UseInv'
<1>. USE DEF Generate, Exit
<1>1. generator # "exit" /\ service' = service /\ calls' = calls /\ (exit' = exit \/ generator' = "exit")
  <2>1. CASE download \/ load \/ fixup \/ cleanupUnusedTypes
    BY <2>1 DEF download, load, fixup, cleanupUnusedTypes
  <2>2. CASE collect \/ startConverting \/ convertServerService
    BY <2>2 DEF collect, startConverting, convertServerService
  <2>3. CASE convertClientService \/ nextService
    BY <2>3 DEF convertClientService, nextService
  <2>. QED
    BY <2>1, <2>2, <2>3
<1>2. service = NoService /\ calls = <<>> /\ exit = "none"
  BY <1>1 DEF UseInv
<1>3. IsService(service') /\ service'.interface = "none" /\ service' = NoService
  BY <1>1, <1>2 DEF IsService, NoService
<1>4. calls' \in Seq({}) /\ DOMAIN calls' = {}
  BY <1>1, <1>2
<1>. QED
  BY <1>1, <1>2, <1>3, <1>4 DEF UseInv, EndPointHonoured

(* Creating the object keeps UseInv.                                       *)
LEMMA CreateStep == ASSUME UseInv, createService PROVE UseInv'
<1>1. PICK name : service' = [NoService EXCEPT !.binding = name]
  BY DEF createService
<1>2. /\ exit = "0" /\ service = NoService /\ calls' = calls /\ exit' = exit /\ generator' = generator
  BY DEF createService, generatorVars
<1>3. generator = "exit" /\ calls = <<>>
  BY <1>2 DEF UseInv
<1>4. IsService(service') /\ service'.interface = "none" /\ service'.binding = name
  BY <1>1 DEF IsService, NoService
<1>5. name = NoName => service' = NoService
  BY <1>1 DEF NoService
<1>6. calls' \in Seq({}) /\ DOMAIN calls' = {}
  BY <1>2, <1>3
<1>. QED
  BY <1>2, <1>3, <1>4, <1>5, <1>6 DEF UseInv, EndPointHonoured

(* Configuring the object keeps UseInv.                                    *)
LEMMA ObjectStep == ASSUME UseInv, setEndPoint \/ setSoapVersion PROVE UseInv'
<1>1. UNCHANGED <<generatorVars, calls>> /\ service # NoService
  BY DEF setEndPoint, setSoapVersion
<1>2. ObjectKept
  BY SetEndPointKept, SetVersionKept
<1>3. /\ definitions' = definitions /\ ServiceBinding' = ServiceBinding /\ service' # NoService
      /\ exit' = exit /\ generator' = generator
  BY <1>1, <1>2, BindingKept DEF ObjectKept
<1>4. \A c \in DOMAIN calls : CallOk(definitions, ServiceBinding, calls[c])
  BY DEF UseInv
<1>. QED
  BY <1>1, <1>2, <1>3, <1>4 DEF UseInv, ObjectKept

(* Every step keeps UseInv.                                                *)
LEMMA UseStep == UseInv /\ [Next]_vars => UseInv'
<1>. SUFFICES ASSUME UseInv, [Next]_vars PROVE UseInv'
  OBVIOUS
<1>1. CASE Generate
  BY <1>1, GenerateStep
<1>2. CASE createService
  BY <1>2, CreateStep
<1>3. CASE setEndPoint \/ setSoapVersion
  BY <1>3, ObjectStep
<1>4. CASE startCall
  BY <1>4, StartStep
<1>5. ASSUME NEW c \in DOMAIN calls, doStart(c) \/ processRequest(c) \/ foreignReply(c) PROVE UseInv'
  BY <1>5, DoStartStep, ProcessStep, ForeignStep
<1>6. ASSUME NEW c \in DOMAIN calls, syncReturns(c) \/ asyncFinished(c) \/ jobFinished(c) PROVE UseInv'
  BY <1>6, FinishStep
<1>7. CASE UNCHANGED vars
  <2>1. /\ UNCHANGED <<exit, generator, service, calls>> /\ definitions' = definitions
    BY <1>7 DEF vars, loadVars
  <2>2. ServiceBinding' = ServiceBinding
    BY <2>1 DEF ServiceBinding
  <2>. QED
    BY <2>1, <2>2 DEF UseInv, EndPointHonoured
<1>. QED
  BY <1>1, <1>2, <1>3, <1>4, <1>5, <1>6, <1>7 DEF Next, Use

(* In every reachable state each call is as its state says, and the object *)
(* sends to the end point that is set.                                     *)
THEOREM UseInvariant == Spec => []UseInv
BY UseInitially, UseStep, PTL DEF Spec

(* An answered call of a servable binding was its own method's.            *)
LEMMA ServedOk ==
  ASSUME NEW d, NEW b, Servable(d, b), NEW k, Asked(d, b, k), Left(d, b, k), Answered(d, b, k)
  PROVE  /\ k.served = k.op /\ k.got = k.args /\ k.op \in CallableOf(d, b)
         /\ ~ k.fault => k.reply = ServerReply(d, b, k.op, k.result)
<1>1. /\ k.op \in CallableOf(d, b) /\ k.args \in [{p.name : p \in SeqRange(InputParts(d, b, k.op))} -> Values]
      /\ k.request = clientGenerateMessage(d, b, k.op, k.args)
  BY DEF Asked, Left
<1>2. PICK v : k.http = prepareRequest(v, SoapOp(b, k.op).soapAction)
  BY DEF Left
<1>3. k.served = k.op
  BY <1>1, <1>2, OperationFound DEF Answered
<1>4. ServerArguments(d, b, k.op, k.request) = k.args
  BY <1>1, ArgumentsRead
<1>5. k.op # NoOp
  <2>1. PICK i \in DOMAIN OperationsOf(d, b) : k.op = OperationsOf(d, b)[i]
    BY <1>1 DEF CallableOf, SeqRange
  <2>2. k.op.name # ""
    BY <2>1 DEF Servable, ToldApart
  <2>3. NoOp.name = ""
    BY DEF NoOp
  <2>. QED
    BY <2>2, <2>3
<1>. QED
  BY <1>1, <1>3, <1>4, <1>5 DEF Answered

(* Requests go to the end point that is set, in every order of using and    *)
(* setting it: clientInterface(), setEndPoint() and setSoapVersion() of a   *)
(* generated client class.                                                  *)
THEOREM EndPointIsHonoured == Spec => []EndPointHonoured
<1>1. UseInv => EndPointHonoured
  BY DEF UseInv
<1>. QED
  BY <1>1, UseInvariant, PTL

(* Any number of calls in flight through a client of a binding whose        *)
(* operations can be told apart are each served by their own method with    *)
(* their own arguments: clientGenerateMessage() against processRequest().   *)
THEOREM CallsAreServed == Spec => [](Servable(definitions, ServiceBinding) => CallsReachTheirMethod)
<1>1. ASSUME UseInv, Servable(definitions, ServiceBinding) PROVE CallsReachTheirMethod
  <2>1. ASSUME NEW c \in DOMAIN calls, calls[c].state \in {"served", "done"}, ~ calls[c].foreign
        PROVE  calls[c].served = calls[c].op /\ calls[c].got = calls[c].args
    <3>1. PICK k, d, b : k = calls[c] /\ d = definitions /\ b = ServiceBinding
      OBVIOUS
    <3>2. CallOk(d, b, k) /\ Servable(d, b) /\ k.state # "started" /\ Answered(d, b, k)
      BY <1>1, <2>1, <3>1 DEF UseInv, CallOk
    <3>3. Asked(d, b, k) /\ Left(d, b, k) /\ Answered(d, b, k)
      BY <3>2 DEF CallOk
    <3>4. k.served = k.op /\ k.got = k.args
      BY <3>2, <3>3, ServedOk
    <3>. QED
      BY <3>1, <3>4
  <2>. QED
    BY <1>1, <2>1 DEF UseInv, CallsReachTheirMethod
<1>2. UseInv => (Servable(definitions, ServiceBinding) => CallsReachTheirMethod)
  BY <1>1
<1>. QED
  BY <1>2, UseInvariant, PTL

(* Then each of the client's three interfaces also gives what the method    *)
(* returned, and a fault as a fault, in whatever order the answers come.    *)
THEOREM ResultsAreReturned ==
  Spec => [](Servable(definitions, ServiceBinding) /\ Returnable(definitions, ServiceBinding) => ResultsComeBack)
<1>1. ASSUME UseInv, Servable(definitions, ServiceBinding), Returnable(definitions, ServiceBinding)
      PROVE  ResultsComeBack
  <2>1. ASSUME NEW c \in DOMAIN calls, calls[c].state = "done", ~ calls[c].foreign
        PROVE  calls[c].outcome =
                 IF calls[c].fault THEN Faulty
                 ELSE Outcome(FALSE, [n \in {p.name : p \in SeqRange(OutputMessage(definitions, calls[c].op).parts)} |->
                                        calls[c].result])
    <3>1. PICK k, d, b : k = calls[c] /\ d = definitions /\ b = ServiceBinding
      OBVIOUS
    <3>2. CallOk(d, b, k) /\ Servable(d, b) /\ Returnable(d, b) /\ k.state = "done" /\ ~ k.foreign
      BY <1>1, <2>1, <3>1 DEF UseInv
    <3>3. Asked(d, b, k) /\ Left(d, b, k) /\ Answered(d, b, k) /\ Ended(d, b, k)
      BY <3>2 DEF CallOk
    <3>4. k.op \in CallableOf(d, b) /\ (~ k.fault => k.reply = ServerReply(d, b, k.op, k.result))
      BY <3>2, <3>3, ServedOk
    <3>5. PICK returned : returned = Returned(d, k.op, k.result)
      OBVIOUS
    <3>6. CASE ~ k.fault
      <4>1. /\ syncOutcome(d, b, k.op, k.reply) = returned
            /\ asyncOutcome(d, b, k.op, k.reply) = returned
            /\ ~ JobReturnsEarly(d, b, k.op, k.reply)
        <5>1. PICK op, result, reply : op = k.op /\ result = k.result /\ reply = k.reply
          OBVIOUS
        <5>2. Returnable(d, b) /\ op \in CallableOf(d, b) /\ reply = ServerReply(d, b, op, result)
          BY <3>2, <3>4, <3>6, <5>1
        <5>3. returned = Returned(d, op, result)
          BY <3>5, <5>1
        <5>4. /\ syncOutcome(d, b, op, reply) = returned /\ asyncOutcome(d, b, op, reply) = returned
              /\ ~ JobReturnsEarly(d, b, op, reply)
          BY ONLY <5>2, <5>3, ResultRead
        <5>. QED
          BY <5>1, <5>4
      <4>2. k.outcome = returned
        BY <3>3, <3>6, <4>1 DEF Ended
      <4>. QED
        BY <3>1, <3>5, <3>6, <4>2 DEF Returned
    <3>7. CASE k.fault
      <4>1. k.outcome = Faulty
        BY <3>3, <3>7 DEF Ended
      <4>. QED
        BY <3>1, <3>7, <4>1
    <3>. QED
      BY <3>6, <3>7
  <2>. QED
    BY <2>1 DEF ResultsComeBack
<1>2. UseInv => (Servable(definitions, ServiceBinding) /\ Returnable(definitions, ServiceBinding) => ResultsComeBack)
  BY <1>1
<1>. QED
  BY <1>2, UseInvariant, PTL

(***************************************************************************)
(* The documents that import each other.                                   *)
(***************************************************************************)
Tags == {"message", "portType", "binding"}
NamesOfFiles(files) == {QName(files[u].tns, Attr(files[u].items[n], "name")) : u \in DOMAIN files, n \in Nat}
NameLists(files) == Seq(NamesOfFiles(files))

(* What the elements of a document add.                                    *)
Parts(files, tag, g, u) == [i \in 1..Len(files[u].items) |-> NamesAt(files, tag, g, u, i)]
Flattened(files, tag, g) == g = [u \in DOMAIN files |-> FlattenSeq(Parts(files, tag, g, u))]

(* A document is not imported by what it imports, directly or not: each    *)
(* one imports only documents of a lower rank.                             *)
Descends(files, rank) ==
  \A u \in DOMAIN files : \A i \in 1..Len(files[u].items) :
    ImportedAt(files, u, files[u].items[i]) => rank[Target(u, files[u].items[i])] < rank[u]
ImportsDescend == \A i \in Inputs : \E k \in Nat : \E rank \in [DOMAIN i.files -> 0..k] : Descends(i.files, rank)

(* What an element adds is a list of names.                                *)
LEMMA PartTyped ==
  ASSUME NEW files, NEW tag, NEW g \in [DOMAIN files -> NameLists(files)], NEW u \in DOMAIN files, NEW i \in Nat
  PROVE  NamesAt(files, tag, g, u, i) \in NameLists(files)
<1>1. <<>> \in NameLists(files)
  BY DEF NameLists
<1>2. <<QName(files[u].tns, Attr(files[u].items[i], "name"))>> \in NameLists(files)
  <2>1. PICK x : x = QName(files[u].tns, Attr(files[u].items[i], "name"))
    OBVIOUS
  <2>2. x \in NamesOfFiles(files)
    BY <2>1 DEF NamesOfFiles
  <2>. QED
    BY <2>1, <2>2 DEF NameLists
<1>3. ImportedAt(files, u, files[u].items[i]) => g[Target(u, files[u].items[i])] \in NameLists(files)
  BY DEF ImportedAt
<1>. QED
  BY <1>1, <1>2, <1>3 DEF NamesAt

(* So is what a document adds.                                             *)
LEMMA PartsTyped ==
  ASSUME NEW files, NEW tag, NEW g \in [DOMAIN files -> NameLists(files)], NEW u \in DOMAIN files,
         Len(files[u].items) \in Nat, NEW s, s = Parts(files, tag, g, u)
  PROVE  /\ s \in Seq(NameLists(files)) /\ Len(s) = Len(files[u].items)
         /\ \A i \in 1..Len(files[u].items) : s[i] = NamesAt(files, tag, g, u, i)
         /\ FlattenSeq(s) \in NameLists(files)
<1>1. \A i \in 1..Len(files[u].items) : NamesAt(files, tag, g, u, i) \in NameLists(files)
  BY PartTyped
<1>2. s \in Seq(NameLists(files)) /\ Len(s) = Len(files[u].items)
  BY <1>1 DEF Parts
<1>3. FlattenSeq(s) \in NameLists(files)
  BY <1>2, UptoIs DEF NameLists
<1>. QED
  BY <1>2, <1>3 DEF Parts

(* It depends on the documents it imports alone.                           *)
LEMMA PartsAgree ==
  ASSUME NEW files, NEW tag, NEW g, NEW h, NEW u \in DOMAIN files,
         \A i \in 1..Len(files[u].items) :
           ImportedAt(files, u, files[u].items[i]) => g[Target(u, files[u].items[i])] = h[Target(u, files[u].items[i])]
  PROVE  Parts(files, tag, g, u) = Parts(files, tag, h, u)
<1>1. ASSUME NEW i \in 1..Len(files[u].items) PROVE NamesAt(files, tag, g, u, i) = NamesAt(files, tag, h, u, i)
  BY DEF NamesAt
<1>. QED
  BY <1>1 DEF Parts

(* With such ranks the names of all documents are well defined: the        *)
(* recursion has a solution for the documents below each rank.             *)
LEMMA FlattenedExists ==
  ASSUME NEW files, NEW tag, NEW k \in Nat, NEW rank \in [DOMAIN files -> 0..k], Descends(files, rank),
         \A u \in DOMAIN files : Len(files[u].items) \in Nat
  PROVE  \E g \in [DOMAIN files -> NameLists(files)] : Flattened(files, tag, g)
<1>. DEFINE Solves(g, n) == \A u \in DOMAIN files : rank[u] < n => g[u] = FlattenSeq(Parts(files, tag, g, u))
            Bad == {n \in Nat : ~ \E g \in [DOMAIN files -> NameLists(files)] : Solves(g, n)}
<1>1. Bad = {}
  <2>. SUFFICES ASSUME Bad # {} PROVE FALSE
    OBVIOUS
  <2>0. Bad \in SUBSET Nat
    OBVIOUS
  <2>1. PICK n \in Bad : \A m \in Bad : n <= m
    <3>. HIDE DEF Bad
    <3>. QED
      BY <2>0, Least
  <2>2. n # 0
    <3>1. PICK g : g = [u \in DOMAIN files |-> <<>>]
      OBVIOUS
    <3>2. g \in [DOMAIN files -> NameLists(files)]
      BY <3>1 DEF NameLists
    <3>3. Solves(g, 0)
      OBVIOUS
    <3>. QED
      BY <3>2, <3>3
  <2>3. n - 1 \in Nat /\ n - 1 \notin Bad
    <3>1. n \in Nat
      BY <2>0, <2>1
    <3>. HIDE DEF Bad
    <3>2. PICK b : b = n - 1
      OBVIOUS
    <3>3. b \in Nat /\ ~ n <= b
      BY <2>2, <3>1, <3>2
    <3>4. b \notin Bad
      BY <2>1, <3>3
    <3>. QED
      BY <3>2, <3>3, <3>4
  <2>4. PICK g \in [DOMAIN files -> NameLists(files)] : Solves(g, n - 1)
    BY <2>3
  <2>5. PICK h : h = [u \in DOMAIN files |-> IF rank[u] < n - 1 THEN g[u] ELSE FlattenSeq(Parts(files, tag, g, u))]
    OBVIOUS
  <2>6. ASSUME NEW u \in DOMAIN files PROVE FlattenSeq(Parts(files, tag, g, u)) \in NameLists(files)
    BY PartsTyped
  <2>7. h \in [DOMAIN files -> NameLists(files)]
    BY <2>5, <2>6
  <2>8. ASSUME NEW u \in DOMAIN files, rank[u] < n PROVE h[u] = FlattenSeq(Parts(files, tag, h, u))
    <3>1. ASSUME NEW i \in 1..Len(files[u].items), ImportedAt(files, u, files[u].items[i])
          PROVE  g[Target(u, files[u].items[i])] = h[Target(u, files[u].items[i])]
      <4>1. PICK t : t = Target(u, files[u].items[i])
        OBVIOUS
      <4>2. t \in DOMAIN files /\ rank[t] < rank[u]
        BY <3>1, <4>1 DEF ImportedAt, Descends
      <4>3. rank[t] \in 0..k /\ rank[u] \in 0..k
        BY <4>2
      <4>4. rank[t] < n - 1
        BY <2>8, <4>2, <4>3
      <4>. QED
        BY <2>5, <4>1, <4>2, <4>4
    <3>2. Parts(files, tag, g, u) = Parts(files, tag, h, u)
      BY <3>1, PartsAgree
    <3>3. rank[u] < n - 1 => g[u] = FlattenSeq(Parts(files, tag, g, u))
      BY <2>4
    <3>. QED
      BY <2>5, <3>2, <3>3
  <2>9. Solves(h, n)
    BY <2>8
  <2>. QED
    BY <2>1, <2>7, <2>9
<1>2. k + 1 \in Nat /\ k + 1 \notin Bad
  <2>. HIDE DEF Bad
  <2>. QED
    BY <1>1
<1>3. PICK g \in [DOMAIN files -> NameLists(files)] : Solves(g, k + 1)
  BY <1>2
<1>4. ASSUME NEW u \in DOMAIN files PROVE g[u] = FlattenSeq(Parts(files, tag, g, u))
  BY <1>3
<1>5. g = [u \in DOMAIN files |-> FlattenSeq(Parts(files, tag, g, u))]
  BY <1>4
<1>. QED
  BY <1>5 DEF Flattened

(* And no other one.                                                       *)
LEMMA FlattenedOnce ==
  ASSUME NEW files, NEW tag, NEW k \in Nat, NEW rank \in [DOMAIN files -> 0..k], Descends(files, rank),
         NEW g, NEW h, Flattened(files, tag, g), Flattened(files, tag, h)
  PROVE  g = h
<1>. DEFINE Bad == {n \in 0..k : \E u \in DOMAIN files : rank[u] = n /\ g[u] # h[u]}
<1>1. Bad = {}
  <2>. SUFFICES ASSUME Bad # {} PROVE FALSE
    OBVIOUS
  <2>0. Bad \in SUBSET Nat
    OBVIOUS
  <2>1. PICK n \in Bad : \A m \in Bad : n <= m
    <3>. HIDE DEF Bad
    <3>. QED
      BY <2>0, Least
  <2>2. PICK u \in DOMAIN files : rank[u] = n /\ g[u] # h[u]
    OBVIOUS
  <2>3. ASSUME NEW i \in 1..Len(files[u].items), ImportedAt(files, u, files[u].items[i])
        PROVE  g[Target(u, files[u].items[i])] = h[Target(u, files[u].items[i])]
    <3>1. PICK t : t = Target(u, files[u].items[i])
      OBVIOUS
    <3>2. t \in DOMAIN files /\ rank[t] < n /\ rank[t] \in 0..k
      BY <2>2, <2>3, <3>1 DEF ImportedAt, Descends
    <3>3. rank[t] \notin Bad
      BY <2>1, <3>2
    <3>. QED
      BY <3>1, <3>2, <3>3
  <2>4. Parts(files, tag, g, u) = Parts(files, tag, h, u)
    BY <2>3, PartsAgree
  <2>5. g[u] = FlattenSeq(Parts(files, tag, g, u)) /\ h[u] = FlattenSeq(Parts(files, tag, h, u))
    <3>1. g = [v \in DOMAIN files |-> FlattenSeq(Parts(files, tag, g, v))]
      BY DEF Flattened
    <3>2. h = [v \in DOMAIN files |-> FlattenSeq(Parts(files, tag, h, v))]
      BY DEF Flattened
    <3>. HIDE DEF Bad
    <3>3. g[u] = FlattenSeq(Parts(files, tag, g, u))
      BY <3>1, Zenon
    <3>4. h[u] = FlattenSeq(Parts(files, tag, h, u))
      BY <3>2, Zenon
    <3>. QED
      BY <3>3, <3>4
  <2>. QED
    BY <2>2, <2>4, <2>5
<1>2. \A u \in DOMAIN files : g[u] = h[u]
  BY <1>1
<1>3. g = [u \in DOMAIN files |-> g[u]] /\ h = [u \in DOMAIN files |-> h[u]]
  <2>1. g = [v \in DOMAIN files |-> FlattenSeq(Parts(files, tag, g, v))]
    BY DEF Flattened
  <2>2. h = [v \in DOMAIN files |-> FlattenSeq(Parts(files, tag, h, v))]
    BY DEF Flattened
  <2>. QED
    BY <2>1, <2>2, SMTT(30)
<1>. QED
  BY <1>2, <1>3

(* The names of the main document are those of the solution.               *)
LEMMA NamesInIs ==
  ASSUME NEW files, NEW tag, NEW k \in Nat, NEW rank \in [DOMAIN files -> 0..k], Descends(files, rank),
         NEW main \in DOMAIN files, NEW g, Flattened(files, tag, g)
  PROVE  NamesIn(files, main, tag) = g[main]
<1>. DEFINE f == CHOOSE h : h = [url \in DOMAIN files |->
                    FlattenSeq([i \in 1..Len(files[url].items) |-> NamesAt(files, tag, h, url, i)])]
<1>1. \E h : h = [url \in DOMAIN files |->
                    FlattenSeq([i \in 1..Len(files[url].items) |-> NamesAt(files, tag, h, url, i)])]
  BY Zenon DEF Flattened, Parts
<1>2. f = [url \in DOMAIN files |->
             FlattenSeq([i \in 1..Len(files[url].items) |-> NamesAt(files, tag, f, url, i)])]
  BY <1>1, Zenon
<1>3. NamesIn(files, main, tag) = f[main]
  BY Zenon DEF NamesIn
<1>4. Flattened(files, tag, f)
  <2>. HIDE DEF f
  <2>. QED
    BY <1>2, Zenon DEF Flattened, Parts
<1>5. f = g
  <2>. HIDE DEF f
  <2>. QED
    BY <1>4, FlattenedOnce
<1>. QED
  BY <1>3, <1>5

(***************************************************************************)
(* What the documents being read have given so far.                        *)
(***************************************************************************)
Chunk(files, tag, g, frame, n) == Upto(Parts(files, tag, g, frame.url), n)

(* An import counts when it has been left: the frames below the top are     *)
(* one element behind.                                                      *)
Below(files, tag, g, stk, n) == [k \in 1..n |-> Chunk(files, tag, g, stk[k], stk[k].pos - 2)]
Given(files, tag, g, stk) ==
  FlattenSeq(Below(files, tag, g, stk, Len(stk) - 1)) \o Chunk(files, tag, g, stk[Len(stk)], stk[Len(stk)].pos - 1)

(* The next element of a frame's document is read, and is an import of what *)
(* a new frame is opened for.                                               *)
Readable(files, frame) == frame.pos <= Len(files[frame.url].items) /\ ReadAt(files[frame.url], frame.pos)
Opens(files, frame, above) ==
  LET e == files[frame.url].items[frame.pos] IN
  /\ ImportedAt(files, frame.url, e) /\ Target(frame.url, e) = above.url
  /\ above.pos = 1 /\ above.tns = files[frame.url].tns /\ above.base = Dir(frame.url)

(* The frame on top goes on to its next element.                            *)
Passed(stk, next) ==
  /\ Len(next) = Len(stk)
  /\ \A k \in 1..Len(stk) : next[k] = IF k = Len(stk) THEN [stk[k] EXCEPT !.pos = @ + 1] ELSE stk[k]

(* A frame is at one of its document's elements or behind the last one and  *)
(* has met no section of types that does not parse.                         *)
FrameOk(files, frame) == frame.pos - 1 <= Len(files[frame.url].items) /\ ReadAt(files[frame.url], frame.pos - 1)

(* A frame that waits has passed the import of the one above it, which will *)
(* restore its context.                                                     *)
Waits(files, frame, above) ==
  LET e == files[frame.url].items[frame.pos - 1] IN
  /\ frame.pos >= 2
  /\ ImportedAt(files, frame.url, e) /\ Target(frame.url, e) = above.url
  /\ above.tns = files[frame.url].tns /\ above.base = Dir(frame.url)

StackOk(files, main, stk) ==
  /\ stk[1].url = main
  /\ \A k \in 1..Len(stk) : FrameOk(files, stk[k])
  /\ \A k \in 1..Len(stk) - 1 : Waits(files, stk[k], stk[k + 1])

Frames(files) == [url : DOMAIN files, pos : Nat \ {0}, tns : Texts, name : Texts, base : Seq(STRING)]

Solution(files, tag, g) ==
  /\ g \in [DOMAIN files -> NameLists(files)] /\ Flattened(files, tag, g)
  /\ \A u \in DOMAIN files : Len(files[u].items) \in Nat

(* The parts of a document in the solution.                                *)
LEMMA PartsSolved ==
  ASSUME NEW files, NEW tag, NEW g, Solution(files, tag, g), NEW u \in DOMAIN files, NEW s, s = Parts(files, tag, g, u)
  PROVE  /\ s \in Seq(Seq(NamesOfFiles(files))) /\ Len(s) = Len(files[u].items)
         /\ \A i \in 1..Len(files[u].items) : s[i] = NamesAt(files, tag, g, u, i)
<1>1. g \in [DOMAIN files -> NameLists(files)] /\ Len(files[u].items) \in Nat
  BY DEF Solution
<1>2. /\ s \in Seq(NameLists(files)) /\ Len(s) = Len(files[u].items)
      /\ \A i \in 1..Len(files[u].items) : s[i] = NamesAt(files, tag, g, u, i)
  BY <1>1, PartsTyped
<1>. QED
  BY <1>2 DEF NameLists

(* What a frame has given is a list of names.                              *)
LEMMA ChunkTyped ==
  ASSUME NEW files, NEW tag, NEW g, Solution(files, tag, g), NEW frame \in Frames(files),
         NEW n \in 0..Len(files[frame.url].items)
  PROVE  Chunk(files, tag, g, frame, n) \in NameLists(files)
<1>1. PICK s, u : s = Parts(files, tag, g, frame.url) /\ u = frame.url
  OBVIOUS
<1>2. u \in DOMAIN files /\ Len(files[u].items) \in Nat
  BY <1>1 DEF Frames, Solution
<1>3. s \in Seq(Seq(NamesOfFiles(files))) /\ Len(s) = Len(files[u].items)
  BY <1>1, <1>2, PartsSolved
<1>4. Upto(s, n) \in Seq(NamesOfFiles(files))
  BY <1>1, <1>3, UptoIs
<1>. QED
  BY <1>1, <1>4 DEF Chunk, NameLists

(* With its next element it gives what that adds.                          *)
LEMMA ChunkNext ==
  ASSUME NEW files, NEW tag, NEW g, Solution(files, tag, g), NEW frame \in Frames(files),
         NEW p \in 1..Len(files[frame.url].items), NEW n, n = p - 1
  PROVE  Chunk(files, tag, g, frame, p) = Chunk(files, tag, g, frame, n) \o NamesAt(files, tag, g, frame.url, p)
<1>1. PICK s, u : s = Parts(files, tag, g, frame.url) /\ u = frame.url
  OBVIOUS
<1>2. u \in DOMAIN files /\ Len(files[u].items) \in Nat
  BY <1>1 DEF Frames, Solution
<1>3. s \in Seq(Seq(NamesOfFiles(files))) /\ Len(s) = Len(files[u].items)
      /\ \A i \in 1..Len(files[u].items) : s[i] = NamesAt(files, tag, g, u, i)
  BY <1>1, <1>2, PartsSolved
<1>4. n \in 0..(Len(s) - 1) /\ n + 1 = p
  BY <1>1, <1>2, <1>3
<1>5. Upto(s, n + 1) = Upto(s, n) \o s[n + 1]
  BY <1>3, <1>4, UptoIs
<1>. QED
  BY <1>1, <1>3, <1>4, <1>5 DEF Chunk

(* In the end it has given all names of its document.                      *)
LEMMA ChunkAll ==
  ASSUME NEW files, NEW tag, NEW g, Solution(files, tag, g), NEW frame \in Frames(files),
         NEW n, n = Len(files[frame.url].items)
  PROVE  Chunk(files, tag, g, frame, n) = g[frame.url]
<1>1. PICK s, u : s = Parts(files, tag, g, frame.url) /\ u = frame.url
  OBVIOUS
<1>2. u \in DOMAIN files /\ Len(files[u].items) \in Nat
  BY <1>1 DEF Frames, Solution
<1>3. s \in Seq(Seq(NamesOfFiles(files))) /\ Len(s) = Len(files[u].items)
  BY <1>1, <1>2, PartsSolved
<1>4. Upto(s, n) = FlattenSeq(s)
  BY <1>1, <1>3, UptoIs
<1>5. g[u] = FlattenSeq(Parts(files, tag, g, u))
  <2>1. g = [v \in DOMAIN files |-> FlattenSeq(Parts(files, tag, g, v))]
    BY DEF Solution, Flattened
  <2>. QED
    BY <1>2, <2>1, Zenon
<1>. QED
  BY <1>1, <1>4, <1>5 DEF Chunk

(* So it has where a section of types does not parse: the rest adds none.   *)
LEMMA ChunkBroken ==
  ASSUME NEW files, NEW tag, NEW g, Solution(files, tag, g), NEW frame \in Frames(files),
         NEW c \in 0..(Len(files[frame.url].items) - 1), ~ ReadAt(files[frame.url], c + 1)
  PROVE  Chunk(files, tag, g, frame, c) = g[frame.url]
<1>1. PICK len, u, x : len = Len(files[frame.url].items) /\ u = frame.url /\ x = Chunk(files, tag, g, frame, c)
  OBVIOUS
<1>2. u \in DOMAIN files /\ len \in Nat /\ x \in NameLists(files)
  BY <1>1, ChunkTyped DEF Frames, Solution
<1>3. x \o <<>> = x
  BY <1>2 DEF NameLists
<1>. DEFINE Bad == {d \in c..len : Chunk(files, tag, g, frame, d) # x}
<1>4. Bad = {}
  <2>. SUFFICES ASSUME Bad # {} PROVE FALSE
    OBVIOUS
  <2>0. Bad \in SUBSET Nat
    BY <1>2
  <2>1. PICK d \in Bad : \A m \in Bad : d <= m
    <3>. HIDE DEF Bad
    <3>. QED
      BY <2>0, Least
  <2>2. d \in c..len /\ Chunk(files, tag, g, frame, d) # x /\ d # c
    BY <1>1
  <2>3. PICK b : b = d - 1
    OBVIOUS
  <2>4. b \in 0..(len - 1) /\ d = b + 1 /\ b \in c..len /\ ~ d <= b
    BY <1>1, <1>2, <2>2, <2>3
  <2>5. Chunk(files, tag, g, frame, b) = x
    BY <2>1, <2>4
  <2>6. Chunk(files, tag, g, frame, d) = Chunk(files, tag, g, frame, b) \o NamesAt(files, tag, g, frame.url, d)
    <3>1. d \in 1..Len(files[frame.url].items)
      BY <1>1, <1>2, <2>4
    <3>. QED
      BY <2>3, <3>1, ChunkNext
  <2>7. ~ ReadAt(files[u], d)
    <3>1. PICK i \in 1..(c + 1) : ~ (files[u].items[i].tag = "types" => files[u].items[i].parses)
      BY <1>1 DEF ReadAt
    <3>2. i \in 1..d
      BY <2>4, <3>1
    <3>. QED
      BY <3>1, <3>2 DEF ReadAt
  <2>8. NamesAt(files, tag, g, frame.url, d) = <<>>
    BY <1>1, <2>7 DEF NamesAt
  <2>. QED
    BY <1>3, <2>2, <2>4, <2>5, <2>6, <2>8
<1>5. Chunk(files, tag, g, frame, len) = x
  <2>1. len \in c..len
    BY <1>1, <1>2
  <2>. QED
    BY <1>4, <2>1
<1>. QED
  BY <1>1, <1>5, ChunkAll

(* The frames below the top have given lists of names.                     *)
LEMMA BelowTyped ==
  ASSUME NEW files, NEW tag, NEW g, Solution(files, tag, g), NEW main,
         NEW stk \in Seq(Frames(files)), StackOk(files, main, stk), NEW n \in 0..(Len(stk) - 1)
  PROVE  /\ Below(files, tag, g, stk, n) \in Seq(Seq(NamesOfFiles(files)))
         /\ FlattenSeq(Below(files, tag, g, stk, n)) \in Seq(NamesOfFiles(files))
<1>1. ASSUME NEW k \in 1..n PROVE Chunk(files, tag, g, stk[k], stk[k].pos - 2) \in Seq(NamesOfFiles(files))
  <2>1. k \in 1..Len(stk) /\ k \in 1..Len(stk) - 1
    OBVIOUS
  <2>2. stk[k] \in Frames(files) /\ stk[k].pos \in Nat /\ stk[k].pos >= 2 /\ stk[k].url \in DOMAIN files
    <3>1. stk[k] \in Frames(files)
      BY <2>1
    <3>2. Waits(files, stk[k], stk[k + 1])
      BY <2>1 DEF StackOk
    <3>. QED
      BY <3>1, <3>2 DEF Waits, Frames
  <2>3. stk[k].pos - 1 <= Len(files[stk[k].url].items) /\ Len(files[stk[k].url].items) \in Nat
    BY <2>1, <2>2 DEF StackOk, FrameOk, Solution
  <2>4. stk[k].pos - 2 \in 0..Len(files[stk[k].url].items)
    BY <2>2, <2>3
  <2>. QED
    BY <2>2, <2>4, ChunkTyped DEF NameLists
<1>2. Below(files, tag, g, stk, n) \in Seq(Seq(NamesOfFiles(files)))
  BY <1>1 DEF Below
<1>. QED
  BY <1>2, <<>> \in Seq(NamesOfFiles(files)), FlattenSeqMore

(* One frame more.                                                         *)
LEMMA BelowNext ==
  ASSUME NEW files, NEW tag, NEW g, Solution(files, tag, g), NEW main,
         NEW stk \in Seq(Frames(files)), StackOk(files, main, stk), NEW n \in 1..(Len(stk) - 1)
  PROVE  FlattenSeq(Below(files, tag, g, stk, n)) =
           FlattenSeq(Below(files, tag, g, stk, n - 1)) \o Chunk(files, tag, g, stk[n], stk[n].pos - 2)
<1>1. PICK s, x, m, r : /\ m = n - 1 /\ s = Below(files, tag, g, stk, m)
                        /\ x = Chunk(files, tag, g, stk[n], stk[n].pos - 2) /\ r = Below(files, tag, g, stk, n)
  OBVIOUS
<1>2. m \in 0..(Len(stk) - 1) /\ n \in 0..(Len(stk) - 1) /\ m + 1 = n
  BY <1>1
<1>3. s \in Seq(Seq(NamesOfFiles(files))) /\ r \in Seq(Seq(NamesOfFiles(files)))
  BY <1>1, <1>2, BelowTyped
<1>4. Len(s) = m /\ Len(r) = n /\ r[n] = x /\ \A k \in 1..m : r[k] = s[k]
  BY <1>1, <1>2 DEF Below
<1>5. x \in Seq(NamesOfFiles(files))
  BY <1>2, <1>3, <1>4
<1>6. r = Append(s, x)
  BY <1>2, <1>3, <1>4, <1>5
<1>. QED
  BY <1>1, <1>3, <1>5, <1>6, FlattenSeqMore

(* The frame on top.                                                       *)
LEMMA TopFacts ==
  ASSUME NEW files, NEW tag, NEW g, Solution(files, tag, g), NEW main,
         NEW stk \in Seq(Frames(files)), stk # <<>>, StackOk(files, main, stk)
  PROVE  /\ Len(stk) \in Nat \ {0} /\ stk[Len(stk)] \in Frames(files)
         /\ stk[Len(stk)].pos \in Nat \ {0} /\ stk[Len(stk)].url \in DOMAIN files
         /\ Len(files[stk[Len(stk)].url].items) \in Nat
         /\ stk[Len(stk)].pos - 1 \in 0..Len(files[stk[Len(stk)].url].items)
         /\ FlattenSeq(Below(files, tag, g, stk, Len(stk) - 1)) \in Seq(NamesOfFiles(files))
         /\ Chunk(files, tag, g, stk[Len(stk)], stk[Len(stk)].pos - 1) \in Seq(NamesOfFiles(files))
         /\ Given(files, tag, g, stk) \in Seq(NamesOfFiles(files))
<1>1. PICK n, f : n = Len(stk) /\ f = stk[n]
  OBVIOUS
<1>2. n \in Nat \ {0} /\ f \in Frames(files) /\ FrameOk(files, f)
  BY <1>1 DEF StackOk
<1>3. f.pos \in Nat \ {0} /\ f.url \in DOMAIN files /\ Len(files[f.url].items) \in Nat
  BY <1>2 DEF Frames, Solution
<1>4. f.pos - 1 \in 0..Len(files[f.url].items)
  BY <1>2, <1>3 DEF FrameOk
<1>5. Chunk(files, tag, g, f, f.pos - 1) \in Seq(NamesOfFiles(files))
  BY <1>2, <1>4, ChunkTyped DEF NameLists
<1>6. n - 1 \in 0..(Len(stk) - 1)
  BY <1>1, <1>2
<1>7. FlattenSeq(Below(files, tag, g, stk, n - 1)) \in Seq(NamesOfFiles(files))
  BY <1>6, BelowTyped
<1>8. Given(files, tag, g, stk) \in Seq(NamesOfFiles(files))
  BY <1>1, <1>5, <1>7, ConcatProperties DEF Given
<1>. QED
  BY <1>1, <1>2, <1>3, <1>4, <1>5, <1>7, <1>8

(* One element passed.                                                     *)
LEMMA PassGives ==
  ASSUME NEW files, NEW tag, NEW g, Solution(files, tag, g), NEW main,
         NEW stk \in Seq(Frames(files)), stk # <<>>, StackOk(files, main, stk),
         Readable(files, stk[Len(stk)]),
         NEW next \in Seq(Frames(files)), Passed(stk, next)
  PROVE  /\ StackOk(files, main, next)
         /\ Given(files, tag, g, next) =
              Given(files, tag, g, stk) \o NamesAt(files, tag, g, stk[Len(stk)].url, stk[Len(stk)].pos)
<1>1. PICK n, f, h, m : n = Len(stk) /\ f = stk[n] /\ h = next[n] /\ m = f.pos - 1
  OBVIOUS
<1>2. /\ n \in Nat \ {0} /\ f \in Frames(files) /\ f.pos \in Nat \ {0} /\ f.url \in DOMAIN files
      /\ Len(files[f.url].items) \in Nat /\ m \in 0..Len(files[f.url].items)
      /\ FlattenSeq(Below(files, tag, g, stk, n - 1)) \in Seq(NamesOfFiles(files))
      /\ Chunk(files, tag, g, f, m) \in Seq(NamesOfFiles(files))
  BY <1>1, TopFacts
<1>0. f.pos <= Len(files[f.url].items) /\ ReadAt(files[f.url], f.pos)
  BY <1>1 DEF Readable
<1>3. h = [f EXCEPT !.pos = @ + 1] /\ Len(next) = n
  BY <1>1, <1>2 DEF Passed
<1>4. h.url = f.url /\ h.pos = f.pos + 1 /\ h.tns = f.tns /\ h.base = f.base
  BY <1>2, <1>3 DEF Frames
<1>5. ASSUME NEW k \in 1..(n - 1) PROVE next[k] = stk[k]
  <2>1. k \in 1..Len(stk) /\ k # Len(stk)
    BY <1>1, <1>2
  <2>. QED
    BY <2>1 DEF Passed
<1>6. StackOk(files, main, next)
  <2>1. \A k \in 1..n : next[k].url = stk[k].url /\ next[k].tns = stk[k].tns /\ next[k].base = stk[k].base
    <3>1. ASSUME NEW k \in 1..n, k # n PROVE k \in 1..(n - 1)
      BY <1>2, <3>1
    <3>2. next[n].url = stk[n].url /\ next[n].tns = stk[n].tns /\ next[n].base = stk[n].base
      BY <1>1, <1>4
    <3>. QED
      BY <1>5, <3>1, <3>2
  <2>2. next[1].url = main
    <3>1. 1 \in 1..n
      BY <1>2
    <3>. QED
      BY <2>1, <3>1 DEF StackOk
  <2>3. FrameOk(files, h)
    <3>1. h.pos - 1 = f.pos
      BY <1>2, <1>4
    <3>. QED
      BY <1>0, <1>1, <1>4, <3>1 DEF FrameOk
  <2>4. ASSUME NEW k \in 1..n PROVE FrameOk(files, next[k])
    <3>1. CASE k = n
      BY <1>1, <2>3, <3>1
    <3>2. CASE k # n
      <4>1. k \in 1..(n - 1) /\ k \in 1..Len(stk)
        BY <1>1, <1>2, <3>2
      <4>2. FrameOk(files, stk[k])
        BY <4>1 DEF StackOk
      <4>. QED
        BY <1>5, <4>1, <4>2
    <3>. QED
      BY <3>1, <3>2
  <2>5. ASSUME NEW k \in 1..n - 1 PROVE Waits(files, next[k], next[k + 1])
    <3>1. Waits(files, stk[k], stk[k + 1])
      BY <1>1 DEF StackOk
    <3>2. k \in 1..(n - 1) /\ k + 1 \in 1..n
      BY <1>2
    <3>3. PICK j : j = k + 1
      OBVIOUS
    <3>4. next[j].url = stk[j].url /\ next[j].tns = stk[j].tns /\ next[j].base = stk[j].base
      BY <2>1, <3>2, <3>3
    <3>5. next[k] = stk[k]
      BY <1>5, <3>2
    <3>. QED
      BY <3>1, <3>3, <3>4, <3>5 DEF Waits
  <2>. QED
    BY <1>3, <2>2, <2>4, <2>5 DEF StackOk
<1>7. Below(files, tag, g, next, n - 1) = Below(files, tag, g, stk, n - 1)
  BY <1>5 DEF Below
<1>8. Chunk(files, tag, g, h, f.pos) = Chunk(files, tag, g, f, m) \o NamesAt(files, tag, g, f.url, f.pos)
  <2>1. f.pos \in 1..Len(files[f.url].items)
    BY <1>0, <1>2
  <2>2. Chunk(files, tag, g, f, f.pos) = Chunk(files, tag, g, f, m) \o NamesAt(files, tag, g, f.url, f.pos)
    <3>1. Solution(files, tag, g) /\ f \in Frames(files) /\ m = f.pos - 1
      BY <1>1, <1>2
    <3>. QED
      BY ONLY <2>1, <3>1, ChunkNext
  <2>. QED
    BY <1>4, <2>2 DEF Chunk
<1>9. f.pos = h.pos - 1
  BY <1>2, <1>4
<1>10. NamesAt(files, tag, g, f.url, f.pos) \in Seq(NamesOfFiles(files))
  BY <1>2, PartTyped DEF Solution, NameLists
<1>11. PICK a, b, c : /\ a = FlattenSeq(Below(files, tag, g, stk, n - 1)) /\ b = Chunk(files, tag, g, f, m)
                      /\ c = NamesAt(files, tag, g, f.url, f.pos)
  OBVIOUS
<1>12. a \o (b \o c) = (a \o b) \o c
  <2>1. a \in Seq(NamesOfFiles(files)) /\ b \in Seq(NamesOfFiles(files)) /\ c \in Seq(NamesOfFiles(files))
    BY <1>2, <1>10, <1>11
  <2>. QED
    BY ONLY SMTT(30), <2>1, ConcatAssociative
<1>13. Given(files, tag, g, next) = a \o (b \o c)
  BY <1>1, <1>3, <1>7, <1>8, <1>9, <1>11 DEF Given
<1>14. Given(files, tag, g, stk) = a \o b
  BY <1>1, <1>11 DEF Given
<1>. QED
  BY <1>1, <1>6, <1>11, <1>12, <1>13, <1>14

(* An import opened gives nothing yet.                                     *)
LEMMA PushGives ==
  ASSUME NEW files, NEW tag, NEW g, Solution(files, tag, g), NEW main,
         NEW stk \in Seq(Frames(files)), stk # <<>>, StackOk(files, main, stk),
         Readable(files, stk[Len(stk)]),
         NEW next \in Seq(Frames(files)), Passed(stk, next),
         StackOk(files, main, next),
         NEW above \in Frames(files), Opens(files, stk[Len(stk)], above)
  PROVE  /\ StackOk(files, main, Append(next, above))
         /\ Given(files, tag, g, Append(next, above)) = Given(files, tag, g, stk)
<1>1. PICK n, f, h, p, new, l : /\ n = Len(stk) /\ f = stk[n] /\ h = next[n] /\ p = f.pos
                                /\ new = Append(next, above) /\ l = n + 1
  OBVIOUS
<1>2. /\ n \in Nat \ {0} /\ f \in Frames(files) /\ p \in Nat \ {0} /\ f.url \in DOMAIN files
      /\ Given(files, tag, g, stk) \in Seq(NamesOfFiles(files))
  BY <1>1, TopFacts
<1>0. above.pos = 1
  BY DEF Opens
<1>3. h = [f EXCEPT !.pos = @ + 1]
  <2>1. n \in 1..Len(stk) /\ n = Len(stk) /\ f = stk[n] /\ h = next[n]
    BY <1>1, <1>2
  <2>2. \A k \in 1..Len(stk) : next[k] = IF k = Len(stk) THEN [stk[k] EXCEPT !.pos = @ + 1] ELSE stk[k]
    BY DEF Passed
  <2>. QED
    BY ONLY <2>1, <2>2
<1>4. h.url = f.url /\ h.pos = p + 1
  BY <1>1, <1>2, <1>3 DEF Frames
<1>5. /\ new \in Seq(Frames(files)) /\ Len(new) = l /\ new[l] = above /\ l \in Nat /\ l - 1 = n
      /\ \A k \in 1..n : new[k] = next[k]
  <2>1. Len(next) = n
    BY <1>1 DEF Passed
  <2>. QED
    BY <1>1, <1>2, <2>1
<1>6. ASSUME NEW k \in 1..(n - 1) PROVE next[k] = stk[k] /\ new[k] = stk[k]
  <2>1. k \in 1..Len(stk) /\ k # Len(stk) /\ k \in 1..n
    BY <1>1, <1>2
  <2>. QED
    BY <1>5, <2>1 DEF Passed
<1>7. StackOk(files, main, new)
  <2>1. new[1].url = main
    <3>1. 1 \in 1..n
      BY <1>2
    <3>. QED
      BY <1>5, <3>1 DEF StackOk
  <2>2. FrameOk(files, above)
    <3>1. above.url \in DOMAIN files
      BY DEF Frames
    <3>2. Len(files[above.url].items) \in Nat /\ above.pos - 1 = 0
      BY <1>0, <3>1 DEF Solution
    <3>3. above.pos - 1 <= Len(files[above.url].items) /\ 1..above.pos - 1 = {}
      BY <3>2
    <3>. QED
      BY ONLY <3>3 DEF FrameOk, ReadAt
  <2>3. ASSUME NEW k \in 1..l PROVE FrameOk(files, new[k])
    <3>1. CASE k = l
      BY <1>5, <2>2, <3>1
    <3>2. CASE k # l
      <4>1. k \in 1..n /\ k \in 1..Len(next)
        BY <1>1, <1>2, <3>2 DEF Passed
      <4>2. FrameOk(files, next[k])
        BY <4>1 DEF StackOk
      <4>. QED
        BY <1>5, <4>1, <4>2
    <3>. QED
      BY <3>1, <3>2
  <2>4. Waits(files, h, above)
    <3>1. h.pos >= 2 /\ h.pos - 1 = p /\ h.url = f.url
      BY ONLY <1>2, <1>4
    <3>. QED
      BY <1>1, <3>1 DEF Waits, Opens
  <2>5. ASSUME NEW k \in 1..l - 1 PROVE Waits(files, new[k], new[k + 1])
    <3>1. CASE k = n
      BY <1>1, <1>2, <1>5, <2>4, <3>1
    <3>2. CASE k # n
      <4>1. PICK j : j = k + 1
        OBVIOUS
      <4>2. k \in 1..Len(next) - 1 /\ k \in 1..n /\ j \in 1..n
        BY <1>1, <1>2, <1>5, <3>2, <4>1 DEF Passed
      <4>3. Waits(files, next[k], next[j])
        BY <4>1, <4>2 DEF StackOk
      <4>. QED
        BY <1>5, <4>1, <4>2, <4>3
    <3>. QED
      BY <3>1, <3>2
  <2>. QED
    BY <1>5, <2>1, <2>3, <2>5 DEF StackOk
<1>8. Chunk(files, tag, g, above, 0) = <<>>
  <2>1. above.url \in DOMAIN files
    BY DEF Frames
  <2>2. PICK s : s = Parts(files, tag, g, above.url)
    OBVIOUS
  <2>3. s \in Seq(Seq(NamesOfFiles(files)))
    BY <2>1, <2>2, PartsSolved
  <2>4. Upto(s, 0) = <<>>
    BY <2>3, UptoIs
  <2>. QED
    BY <2>2, <2>4 DEF Chunk
<1>9. FlattenSeq(Below(files, tag, g, new, n)) =
        FlattenSeq(Below(files, tag, g, new, n - 1)) \o Chunk(files, tag, g, new[n], new[n].pos - 2)
  <2>1. n \in 1..(Len(new) - 1)
    BY <1>2, <1>5
  <2>2. Solution(files, tag, g) /\ new \in Seq(Frames(files))
    BY <1>5
  <2>. QED
    BY ONLY <1>7, <2>1, <2>2, BelowNext
<1>10. Below(files, tag, g, new, n - 1) = Below(files, tag, g, stk, n - 1)
  BY <1>6 DEF Below
<1>11. Chunk(files, tag, g, new[n], new[n].pos - 2) = Chunk(files, tag, g, f, f.pos - 1)
  <2>1. new[n] = h
    BY <1>1, <1>2, <1>5
  <2>2. h.pos - 2 = f.pos - 1
    BY <1>1, <1>2, <1>4
  <2>. QED
    BY <1>4, <2>1, <2>2 DEF Chunk
<1>12. FlattenSeq(Below(files, tag, g, new, n)) = Given(files, tag, g, stk)
  BY <1>1, <1>9, <1>10, <1>11 DEF Given
<1>13. Given(files, tag, g, new) = FlattenSeq(Below(files, tag, g, new, n)) \o <<>>
  <2>1. new[l].pos - 1 = 0
    BY <1>0, <1>5
  <2>. QED
    BY <1>5, <1>8, <2>1 DEF Given
<1>. QED
  BY <1>1, <1>2, <1>7, <1>12, <1>13

(* An import left gives what it has read at its place in the document below. *)
LEMMA PopGives ==
  ASSUME NEW files, NEW tag \in Tags, NEW g, Solution(files, tag, g), NEW main,
         NEW stk \in Seq(Frames(files)), Len(stk) > 1, StackOk(files, main, stk),
         Chunk(files, tag, g, stk[Len(stk)], stk[Len(stk)].pos - 1) = g[stk[Len(stk)].url],
         NEW rest \in Seq(Frames(files)), Len(rest) = Len(stk) - 1, \A k \in 1..Len(stk) - 1 : rest[k] = stk[k]
  PROVE  /\ StackOk(files, main, rest)
         /\ Given(files, tag, g, rest) = Given(files, tag, g, stk)
         /\ stk[Len(stk)].tns = files[rest[Len(rest)].url].tns
         /\ stk[Len(stk)].base = Dir(rest[Len(rest)].url)
<1>1. PICK n, m, f, h, p : n = Len(stk) /\ m = n - 1 /\ f = stk[m] /\ h = stk[n] /\ p = f.pos - 1
  OBVIOUS
<1>2. n \in Nat /\ m \in 1..(Len(stk) - 1) /\ m \in 1..Len(stk) /\ n > 1 /\ m + 1 = n /\ Len(rest) = m
  BY <1>1
<1>3. f \in Frames(files) /\ FrameOk(files, f) /\ Waits(files, f, h) /\ rest[m] = f
  BY <1>1, <1>2 DEF StackOk
<1>4. f.pos \in Nat /\ f.pos >= 2 /\ f.url \in DOMAIN files /\ Len(files[f.url].items) \in Nat
  BY <1>3 DEF Frames, Waits, Solution
<1>5. p \in 1..Len(files[f.url].items)
  BY <1>1, <1>3, <1>4 DEF FrameOk
<1>6. StackOk(files, main, rest)
  <2>1. rest[1].url = main
    <3>1. 1 \in 1..Len(stk) - 1
      BY <1>2
    <3>. QED
      BY <3>1 DEF StackOk
  <2>2. ASSUME NEW k \in 1..m PROVE FrameOk(files, rest[k])
    BY <1>1, <1>2 DEF StackOk
  <2>3. ASSUME NEW k \in 1..m - 1 PROVE Waits(files, rest[k], rest[k + 1])
    <3>1. PICK j : j = k + 1
      OBVIOUS
    <3>2. k \in 1..Len(stk) - 1 /\ j \in 1..Len(stk) - 1
      BY <1>1, <1>2, <3>1
    <3>3. Waits(files, stk[k], stk[j])
      BY <3>1, <3>2 DEF StackOk
    <3>. QED
      BY <3>1, <3>2, <3>3
  <2>. QED
    BY <1>2, <2>1, <2>2, <2>3 DEF StackOk
<1>7. NamesAt(files, tag, g, f.url, p) = g[h.url]
  <2>1. PICK e : e = files[f.url].items[p]
    OBVIOUS
  <2>2. ReadAt(files[f.url], p) /\ ImportedAt(files, f.url, e) /\ Target(f.url, e) = h.url
    BY <1>1, <1>3, <2>1 DEF FrameOk, Waits
  <2>3. e.tag # tag
    BY <2>2 DEF ImportedAt, Tags
  <2>. QED
    BY <2>1, <2>2, <2>3 DEF NamesAt
<1>8. Chunk(files, tag, g, f, p) = Chunk(files, tag, g, f, p - 1) \o g[h.url]
  <2>1. Solution(files, tag, g) /\ f \in Frames(files) /\ p - 1 = p - 1
    BY <1>3
  <2>2. Chunk(files, tag, g, f, p) = Chunk(files, tag, g, f, p - 1) \o NamesAt(files, tag, g, f.url, p)
    BY ONLY <1>5, <2>1, ChunkNext
  <2>. QED
    BY <1>7, <2>2
<1>9. p - 1 = f.pos - 2
  BY <1>1, <1>4
<1>10. FlattenSeq(Below(files, tag, g, stk, m)) =
         FlattenSeq(Below(files, tag, g, stk, m - 1)) \o Chunk(files, tag, g, f, p - 1)
  <2>1. Solution(files, tag, g) /\ stk \in Seq(Frames(files)) /\ StackOk(files, main, stk)
    OBVIOUS
  <2>2. FlattenSeq(Below(files, tag, g, stk, m)) =
          FlattenSeq(Below(files, tag, g, stk, m - 1)) \o Chunk(files, tag, g, stk[m], stk[m].pos - 2)
    BY ONLY <1>2, <2>1, BelowNext
  <2>. QED
    BY <1>1, <1>9, <2>2
<1>11. Below(files, tag, g, rest, m - 1) = Below(files, tag, g, stk, m - 1)
  <2>1. ASSUME NEW k \in 1..(m - 1) PROVE rest[k] = stk[k]
    <3>1. k \in 1..Len(stk) - 1
      BY <1>1, <1>2
    <3>. QED
      BY <3>1
  <2>. QED
    BY <2>1 DEF Below
<1>12. PICK a, b, c : /\ a = FlattenSeq(Below(files, tag, g, stk, m - 1)) /\ b = Chunk(files, tag, g, f, p - 1) /\ c = g[h.url]
  OBVIOUS
<1>13. a \in Seq(NamesOfFiles(files)) /\ b \in Seq(NamesOfFiles(files)) /\ c \in Seq(NamesOfFiles(files))
  <2>1. m - 1 \in 0..(Len(stk) - 1)
    BY <1>2
  <2>2. a \in Seq(NamesOfFiles(files))
    BY <1>12, <2>1, BelowTyped
  <2>3. p - 1 \in 0..Len(files[f.url].items)
    BY <1>4, <1>5
  <2>4. b \in Seq(NamesOfFiles(files))
    BY <1>3, <1>12, <2>3, ChunkTyped DEF NameLists
  <2>5. h.url \in DOMAIN files
    <3>1. h \in Frames(files)
      BY <1>1, <1>2
    <3>. QED
      BY <3>1 DEF Frames
  <2>6. c \in Seq(NamesOfFiles(files))
    BY <1>12, <2>5 DEF Solution, NameLists
  <2>. QED
    BY <2>2, <2>4, <2>6
<1>14. Given(files, tag, g, rest) = a \o (b \o c)
  BY <1>1, <1>2, <1>3, <1>8, <1>11, <1>12 DEF Given
<1>15. Given(files, tag, g, stk) = (a \o b) \o c
  BY <1>1, <1>2, <1>10, <1>12 DEF Given
<1>16. a \o (b \o c) = (a \o b) \o c
  BY ONLY SMTT(30), <1>13, ConcatAssociative
<1>17. h.tns = files[f.url].tns /\ h.base = Dir(f.url)
  BY <1>3 DEF Waits
<1>. QED
  BY <1>1, <1>2, <1>3, <1>6, <1>14, <1>15, <1>16, <1>17

(***************************************************************************)
(* The lists of the object.                                                *)
(***************************************************************************)
ListOf(d, tag) ==
  CASE tag = "message" -> d.messages
    [] tag = "portType" -> d.portTypes
    [] tag = "binding" -> d.bindings

HasName(x) == "ns" \in DOMAIN x /\ "name" \in DOMAIN x
Listed(list) == \E S : list \in Seq(S) /\ \A x \in S : HasName(x)

(* The names of a list with one more element.                              *)
LEMMA NamesMore ==
  ASSUME NEW list, Listed(list), NEW x, HasName(x)
  PROVE  Listed(Append(list, x)) /\ Names(Append(list, x)) = Names(list) \o <<QName(x.ns, x.name)>>
<1>1. PICK S : list \in Seq(S) /\ \A y \in S : HasName(y)
  BY DEF Listed
<1>2. PICK T, new, a, n : T = S \cup {x} /\ new = Append(list, x) /\ a = Names(list) /\ n = QName(x.ns, x.name)
  OBVIOUS
<1>3. /\ new \in Seq(T) /\ Len(new) = Len(list) + 1 /\ Len(list) \in Nat /\ new[Len(list) + 1] = x
      /\ \A i \in 1..Len(list) : new[i] = list[i]
  BY <1>1, <1>2
<1>4. Listed(new)
  BY <1>1, <1>2, <1>3 DEF Listed
<1>5. PICK N : N = {QName(y.ns, y.name) : y \in T}
  OBVIOUS
<1>6. a \in Seq(N) /\ Len(a) = Len(list) /\ \A i \in 1..Len(list) : a[i] = QName(list[i].ns, list[i].name)
  BY <1>1, <1>2, <1>5 DEF Names, MapSeq
<1>7. n \in N
  BY <1>2, <1>5
<1>8. /\ Names(new) \in Seq(N) /\ Len(Names(new)) = Len(new)
      /\ \A i \in 1..Len(new) : Names(new)[i] = QName(new[i].ns, new[i].name)
  BY <1>3, <1>5 DEF Names, MapSeq
<1>9. /\ a \o <<n>> \in Seq(N) /\ Len(a \o <<n>>) = Len(new) /\ (a \o <<n>>)[Len(list) + 1] = n
      /\ \A i \in 1..Len(list) : (a \o <<n>>)[i] = a[i]
  BY <1>3, <1>6, <1>7
<1>10. \A i \in 1..Len(new) : Names(new)[i] = (a \o <<n>>)[i]
  BY <1>2, <1>3, <1>6, <1>8, <1>9
<1>11. Names(new) = a \o <<n>>
  <2>1. PICK b, c : b = Names(new) /\ c = a \o <<n>>
    OBVIOUS
  <2>2. b \in Seq(N) /\ c \in Seq(N) /\ Len(b) = Len(c) /\ \A i \in 1..Len(b) : b[i] = c[i]
    BY <1>8, <1>9, <1>10, <2>1
  <2>3. b = c
    BY ONLY <2>2, SeqEqual
  <2>. QED
    BY <2>1, <2>3
<1>. QED
  BY <1>2, <1>4, <1>11

(* The names of a list with nothing more.                                  *)
LEMMA NamesSame == ASSUME NEW list, Listed(list) PROVE Names(list) \o <<>> = Names(list)
<1>1. PICK S : list \in Seq(S)
  BY DEF Listed
<1>2. Names(list) \in Seq({QName(y.ns, y.name) : y \in S})
  BY <1>1 DEF Names, MapSeq
<1>. QED
  BY <1>2

(* An address changes no name.                                             *)
LEMMA NamesAddressed ==
  ASSUME NEW list, Listed(list), NEW e
  PROVE  Listed(Addressed(list, e)) /\ Names(Addressed(list, e)) = Names(list)
<1>1. PICK S : list \in Seq(S) /\ \A y \in S : HasName(y)
  BY DEF Listed
<1>2. PICK new, ports, T : /\ new = Addressed(list, e) /\ ports = Children(e, "port")
                           /\ T = {AddressedBinding(y, ports) : y \in S}
  OBVIOUS
<1>3. new = [i \in DOMAIN list |-> AddressedBinding(list[i], ports)]
  BY <1>2 DEF Addressed, MapSeq
<1>4. ASSUME NEW b \in S PROVE LET c == AddressedBinding(b, ports) IN HasName(c) /\ c.ns = b.ns /\ c.name = b.name
  <2>1. HasName(b)
    BY <1>1
  <2>2. PICK c : c = AddressedBinding(b, ports)
    OBVIOUS
  <2>3. \E v : c = b \/ c = [b EXCEPT !.address = v]
    BY <2>2 DEF AddressedBinding
  <2>4. HasName(c) /\ c.ns = b.ns /\ c.name = b.name
    BY <2>1, <2>3 DEF HasName
  <2>. QED
    BY <2>2, <2>4
<1>5. DOMAIN list = 1..Len(list) /\ Len(list) \in Nat /\ \A i \in 1..Len(list) : list[i] \in S
  BY <1>1
<1>6. new \in Seq(T) /\ DOMAIN new = DOMAIN list
  BY <1>2, <1>3, <1>5
<1>7. \A y \in T : HasName(y)
  BY <1>2, <1>4
<1>8. Listed(new)
  BY <1>6, <1>7 DEF Listed
<1>9. \A i \in DOMAIN list : new[i].ns = list[i].ns /\ new[i].name = list[i].name
  BY <1>3, <1>4, <1>5
<1>10. Names(new) = Names(list)
  BY <1>6, <1>9 DEF Names, MapSeq
<1>. QED
  BY <1>2, <1>8, <1>10

(* What an element adds.                                                   *)
LEMMA ItemAdds ==
  ASSUME NEW files, NEW tag \in Tags, NEW g, NEW u, NEW i, ReadAt(files[u], i)
  PROVE  /\ files[u].items[i].tag = tag =>
              NamesAt(files, tag, g, u, i) = <<QName(files[u].tns, Attr(files[u].items[i], "name"))>>
         /\ files[u].items[i].tag # tag /\ ~ ImportedAt(files, u, files[u].items[i]) =>
              NamesAt(files, tag, g, u, i) = <<>>
<1>1. PICK e : e = files[u].items[i]
  OBVIOUS
<1>2. e.tag = tag => ~ ImportedAt(files, u, e)
  BY DEF ImportedAt, Tags
<1>. QED
  BY <1>1, <1>2 DEF NamesAt

WithContext(d, x, y) == [d EXCEPT !.tns = x, !.name = y]

(* Entering and leaving a document changes no list.                        *)
LEMMA ContextLists ==
  ASSUME NEW d, IsDefinitions(d), NEW x, NEW y, NEW e, e = WithContext(d, x, y), NEW tag \in Tags
  PROVE  e.tns = x /\ ListOf(e, tag) = ListOf(d, tag)
<1>1. PICK f : f = [d EXCEPT !.tns = x]
  OBVIOUS
<1>2. e = [f EXCEPT !.name = y]
  BY <1>1 DEF WithContext
<1>3. /\ f = [tns |-> x, name |-> d.name, types |-> d.types, elements |-> d.elements, messages |-> d.messages,
              portTypes |-> d.portTypes, bindings |-> d.bindings, services |-> d.services]
  BY <1>1 DEF IsDefinitions
<1>4. e = [tns |-> x, name |-> y, types |-> d.types, elements |-> d.elements, messages |-> d.messages,
           portTypes |-> d.portTypes, bindings |-> d.bindings, services |-> d.services]
  BY <1>2, <1>3
<1>. QED
  BY <1>4 DEF ListOf, Tags

(***************************************************************************)
(* The object while documents are read: its lists hold what the documents  *)
(* have given, and its context is that of the document on top.             *)
(***************************************************************************)
Solvable(files) == \A tag \in Tags : \E g : Solution(files, tag, g)

ReadOk(i, d, base, stk) ==
  /\ StackOk(i.files, i.main, stk)
  /\ base = Dir(stk[Len(stk)].url) /\ d.tns = i.files[stk[Len(stk)].url].tns
  /\ \A tag \in Tags :
       /\ Listed(ListOf(d, tag))
       /\ \A g : Solution(i.files, tag, g) => Names(ListOf(d, tag)) = Given(i.files, tag, g, stk)

(* The element that is read next has added its names to d.                 *)
Adds(d, tag) ==
  /\ Listed(ListOf(d, tag))
  /\ \A g : Names(ListOf(d, tag)) = Names(ListOf(definitions, tag)) \o NamesAt(input.files, tag, g, Top.url, Top.pos)

(* What the lemmas about frames need of the stack.                         *)
LEMMA StackFacts ==
  ASSUME LoadTyped, loading = "reading"
  PROVE  /\ stack \in Seq(Frames(input.files)) /\ stack # <<>> /\ Len(stack) \in Nat \ {0} /\ Top = stack[Len(stack)]
         /\ NextItem \in Seq(Frames(input.files)) /\ Passed(stack, NextItem)
<1>1. FrameSet(input) = Frames(input.files)
  BY DEF FrameSet, Frames
<1>2. stack \in Seq(Frames(input.files)) /\ stack # <<>>
  BY <1>1 DEF LoadTyped
<1>3. Top = stack[Len(stack)]
  BY DEF Top, Last
<1>. QED
  BY <1>1, <1>2, <1>3, NextItemTyped, TopTyped DEF Passed

(* The element that is read next has all sections before it parsed.        *)
LEMMA ReadTo ==
  ASSUME LoadTyped, loading = "reading", ReadOk(input, definitions, baseUrl, stack),
         Top.pos <= Len(TopDocument.items), Item.tag = "types" => Item.parses
  PROVE  ReadAt(input.files[Top.url], Top.pos)
<1>1. PICK f, doc : f = Top /\ doc = TopDocument
  OBVIOUS
<1>2. doc = input.files[f.url] /\ f = stack[Len(stack)] /\ Len(stack) \in Nat \ {0}
  BY <1>1, StackFacts DEF TopDocument
<1>3. FrameOk(input.files, f)
  BY <1>2 DEF ReadOk, StackOk
<1>4. f.pos \in Nat \ {0}
  BY <1>1, TopTyped DEF FrameSet
<1>5. ReadAt(doc, f.pos - 1)
  BY <1>2, <1>3 DEF FrameOk
<1>6. doc.items[f.pos].tag = "types" => doc.items[f.pos].parses
  BY <1>1 DEF Item
<1>7. ASSUME NEW b \in 1..f.pos, doc.items[b].tag = "types" PROVE doc.items[b].parses
  <2>1. b = f.pos \/ b \in 1..f.pos - 1
    BY <1>4
  <2>. QED
    BY <1>5, <1>6, <1>7, <2>1 DEF ReadAt
<1>. QED
  BY <1>1, <1>2, <1>7 DEF ReadAt

(* An element passed keeps ReadOk.                                         *)
LEMMA PassKept ==
  ASSUME LoadTyped, loading = "reading", Solvable(input.files), ReadOk(input, definitions, baseUrl, stack),
         Top.pos <= Len(TopDocument.items), Item.tag = "types" => Item.parses,
         NEW d, d.tns = definitions.tns, \A tag \in Tags : Adds(d, tag)
  PROVE  ReadOk(input, d, baseUrl, NextItem)
<1>1. PICK files, main, stk, next, n, f, h :
          /\ files = input.files /\ main = input.main /\ stk = stack /\ next = NextItem
          /\ n = Len(stk) /\ f = stk[n] /\ h = next[n]
  OBVIOUS
<1>2. /\ stk \in Seq(Frames(files)) /\ stk # <<>> /\ n \in Nat \ {0} /\ Top = f
      /\ next \in Seq(Frames(files)) /\ Passed(stk, next)
  BY <1>1, StackFacts
<1>3. StackOk(files, main, stk)
  BY <1>1 DEF ReadOk
<1>4. f.pos <= Len(files[f.url].items) /\ ReadAt(files[f.url], f.pos)
  BY <1>1, <1>2, ReadTo DEF TopDocument
<1>5. ASSUME NEW tag, NEW g, Solution(files, tag, g)
      PROVE  /\ StackOk(files, main, next)
             /\ Given(files, tag, g, next) = Given(files, tag, g, stk) \o NamesAt(files, tag, g, f.url, f.pos)
  <2>1. n = Len(stk) /\ f = stk[n]
    BY <1>1
  <2>2. Readable(files, stk[Len(stk)])
    BY <1>4, <2>1 DEF Readable
  <2>3. /\ StackOk(files, main, next)
        /\ Given(files, tag, g, next) =
             Given(files, tag, g, stk) \o NamesAt(files, tag, g, stk[Len(stk)].url, stk[Len(stk)].pos)
    BY ONLY <1>2, <1>3, <1>5, <2>2, PassGives
  <2>. QED
    BY <2>1, <2>3
<1>6. StackOk(files, main, next)
  BY <1>1, <1>5 DEF Solvable, Tags
<1>7. h.url = f.url
  <2>1. n \in 1..Len(stk) /\ f \in Frames(files)
    BY <1>1, <1>2
  <2>2. h = [f EXCEPT !.pos = @ + 1]
    BY <1>1, <1>2, <2>1 DEF Passed
  <2>. QED
    BY <2>1, <2>2 DEF Frames
<1>8. baseUrl = Dir(h.url) /\ d.tns = files[h.url].tns
  BY <1>1, <1>7 DEF ReadOk
<1>9. ASSUME NEW tag \in Tags
      PROVE  /\ Listed(ListOf(d, tag))
             /\ \A g : Solution(files, tag, g) => Names(ListOf(d, tag)) = Given(files, tag, g, next)
  <2>1. Adds(d, tag)
    OBVIOUS
  <2>2. ASSUME NEW g, Solution(files, tag, g) PROVE Names(ListOf(d, tag)) = Given(files, tag, g, next)
    <3>1. Names(ListOf(definitions, tag)) = Given(files, tag, g, stk)
      BY <1>1, <2>2 DEF ReadOk
    <3>2. Names(ListOf(d, tag)) = Names(ListOf(definitions, tag)) \o NamesAt(files, tag, g, f.url, f.pos)
      BY <1>1, <1>2, <2>1 DEF Adds
    <3>3. Given(files, tag, g, next) = Given(files, tag, g, stk) \o NamesAt(files, tag, g, f.url, f.pos)
      BY <1>5, <2>2
    <3>. QED
      BY <3>1, <3>2, <3>3
  <2>. QED
    BY <2>1, <2>2 DEF Adds
<1>10. Len(next) = n
  BY <1>1, <1>2 DEF Passed
<1>. QED
  BY <1>1, <1>6, <1>8, <1>9, <1>10 DEF ReadOk

(* An import opened keeps ReadOk.                                          *)
LEMMA PushKept ==
  ASSUME LoadTyped, loading = "reading", Solvable(input.files), ReadOk(input, definitions, baseUrl, stack), importDefinition
  PROVE  ReadOk(input, definitions', baseUrl', stack')
<1>1. PICK files, main, stk, next, n, f, url, above, d, e :
          /\ files = input.files /\ main = input.main /\ stk = stack /\ next = NextItem /\ n = Len(stk) /\ f = stk[n]
          /\ url = urlForLocation(Item.location) /\ above = Frame(url, baseUrl) /\ d = definitions /\ e = definitions'
  OBVIOUS
<1>2. /\ stk \in Seq(Frames(files)) /\ stk # <<>> /\ n \in Nat \ {0} /\ Top = f
      /\ next \in Seq(Frames(files)) /\ Passed(stk, next)
  BY <1>1, StackFacts
<1>3. StackOk(files, main, stk) /\ baseUrl = Dir(f.url) /\ d.tns = files[f.url].tns
  BY <1>1 DEF ReadOk
<1>4. /\ Top.pos <= Len(TopDocument.items) /\ Item.tag = "import" /\ Importable(Item.location)
      /\ stack' = Append(next, above) /\ e = Entered(d, files[url]) /\ baseUrl' = Dir(url)
  BY <1>1 DEF importDefinition, AtItem
<1>5. f.pos <= Len(files[f.url].items) /\ ReadAt(files[f.url], f.pos)
  <2>1. ~ Item.tag = "types"
    BY <1>4
  <2>. QED
    BY <1>1, <1>2, <1>4, <2>1, ReadTo DEF TopDocument
<1>6. PICK x : x = files[f.url].items[f.pos]
  OBVIOUS
<1>7. x = Item
  BY <1>1, <1>2, <1>6 DEF Item, TopDocument
<1>8. ImportedAt(files, f.url, x) /\ Target(f.url, x) = url
  BY <1>1, <1>3, <1>4, <1>7 DEF ImportedAt, Target, Importable, urlForLocation
<1>9. url \in DOMAIN files
  BY <1>8 DEF ImportedAt
<1>10. above = [url |-> url, pos |-> 1, tns |-> d.tns, name |-> d.name, base |-> baseUrl]
  BY <1>1 DEF Frame
<1>11. above \in Frames(files) /\ above.pos = 1 /\ above.url = url /\ above.tns = files[f.url].tns /\ above.base = Dir(f.url)
  <2>1. d.tns \in Texts /\ d.name \in Texts /\ baseUrl \in Seq(STRING)
    BY <1>1 DEF LoadTyped, IsDefinitions
  <2>. QED
    BY <1>3, <1>9, <1>10, <2>1 DEF Frames
<1>12. ASSUME NEW tag, NEW g, Solution(files, tag, g)
       PROVE  /\ StackOk(files, main, Append(next, above))
              /\ Given(files, tag, g, Append(next, above)) = Given(files, tag, g, stk)
  <2>1. n = Len(stk) /\ f = stk[n]
    BY <1>1
  <2>2. Readable(files, stk[Len(stk)]) /\ Opens(files, stk[Len(stk)], above)
    BY <1>5, <1>6, <1>8, <1>11, <2>1 DEF Readable, Opens
  <2>3. StackOk(files, main, next)
    BY ONLY <1>2, <1>3, <1>12, <2>2, PassGives
  <2>. QED
    BY ONLY <1>2, <1>3, <1>11, <1>12, <2>2, <2>3, PushGives
<1>13. StackOk(files, main, Append(next, above))
  BY <1>1, <1>12 DEF Solvable, Tags
<1>14. PICK new, l : new = Append(next, above) /\ l = n + 1
  OBVIOUS
<1>15. Len(new) = l /\ new[l] = above
  BY <1>1, <1>2, <1>11, <1>14 DEF Passed
<1>16. ASSUME NEW tag \in Tags PROVE e.tns = files[url].tns /\ ListOf(e, tag) = ListOf(d, tag)
  <2>1. IsDefinitions(d)
    BY <1>1 DEF LoadTyped
  <2>2. e = WithContext(d, files[url].tns, files[url].name)
    BY <1>4 DEF Entered, WithContext
  <2>. QED
    BY <2>1, <2>2, ContextLists
<1>17. e.tns = files[url].tns
  BY <1>16 DEF Tags
<1>18. ASSUME NEW tag \in Tags
       PROVE  /\ Listed(ListOf(e, tag))
              /\ \A g : Solution(files, tag, g) => Names(ListOf(e, tag)) = Given(files, tag, g, new)
  <2>1. /\ Listed(ListOf(d, tag))
        /\ \A g : Solution(files, tag, g) => Names(ListOf(d, tag)) = Given(files, tag, g, stk)
    BY <1>1 DEF ReadOk
  <2>. QED
    BY <1>12, <1>14, <1>16, <2>1
<1>. QED
  BY <1>1, <1>4, <1>11, <1>13, <1>14, <1>15, <1>17, <1>18 DEF ReadOk

(* The document on top has given all its names.                            *)
AllGiven(files, frame) ==
  \A tag \in Tags : \A g : Solution(files, tag, g) => Chunk(files, tag, g, frame, frame.pos - 1) = g[frame.url]

(* It has when it is left, read to the end or given up.                    *)
LEMMA LeftAll ==
  ASSUME LoadTyped, loading = "reading", ReadOk(input, definitions, baseUrl, stack),
         \/ Top.pos > Len(TopDocument.items)
         \/ Top.pos <= Len(TopDocument.items) /\ Item.tag = "types" /\ ~ Item.parses
  PROVE  AllGiven(input.files, Top)
<1>1. PICK files, f, n, len : files = input.files /\ f = Top /\ n = f.pos - 1 /\ len = Len(files[f.url].items)
  OBVIOUS
<1>2. f \in Frames(files) /\ FrameOk(files, f)
  <2>1. stack \in Seq(Frames(files)) /\ Len(stack) \in 1..Len(stack) /\ f = stack[Len(stack)]
    BY <1>1, StackFacts
  <2>. QED
    BY <1>1, <2>1 DEF ReadOk, StackOk
<1>3. f.pos \in Nat \ {0} /\ f.url \in DOMAIN files
  BY <1>2 DEF Frames
<1>4. ASSUME NEW tag \in Tags, NEW g, Solution(files, tag, g)
      PROVE  Chunk(files, tag, g, f, n) = g[f.url]
  <2>1. len \in Nat
    BY <1>1, <1>3, <1>4 DEF Solution
  <2>2. n <= len
    BY <1>1, <1>2 DEF FrameOk
  <2>3. CASE f.pos > len
    <3>1. n = Len(files[f.url].items)
      BY <1>1, <1>3, <2>1, <2>2, <2>3
    <3>. QED
      BY <1>2, <1>4, <3>1, ChunkAll
  <2>4. CASE f.pos <= len
    <3>1. n \in 0..(Len(files[f.url].items) - 1) /\ n + 1 = f.pos
      BY <1>1, <1>3, <2>1, <2>4
    <3>2. ~ ReadAt(files[f.url], n + 1)
      <4>1. files[f.url].items[f.pos].tag = "types" /\ ~ files[f.url].items[f.pos].parses
        BY <1>1, <1>3, <2>1, <2>4 DEF TopDocument, Item
      <4>2. f.pos \in 1..f.pos
        BY <1>3
      <4>. QED
        BY <3>1, <4>1, <4>2 DEF ReadAt
    <3>. QED
      BY <1>2, <1>4, <3>1, <3>2, ChunkBroken
  <2>. QED
    BY <1>3, <2>1, <2>3, <2>4
<1>. QED
  BY <1>1, <1>4 DEF AllGiven

(* An import left keeps ReadOk.                                            *)
LEMMA PopKept ==
  ASSUME LoadTyped, loading = "reading", Solvable(input.files), ReadOk(input, definitions, baseUrl, stack),
         AllGiven(input.files, Top), Len(stack) > 1, LeaveImport(definitions, Top)
  PROVE  ReadOk(input, definitions', baseUrl', stack')
<1>1. PICK files, main, stk, rest, n, h, d, e :
          /\ files = input.files /\ main = input.main /\ stk = stack /\ rest = Front(stack) /\ n = Len(stk) /\ h = stk[n]
          /\ d = definitions /\ e = definitions'
  OBVIOUS
<1>2. stk \in Seq(Frames(files)) /\ Len(stk) > 1 /\ n \in Nat /\ Top = h
  BY <1>1, StackFacts
<1>3. rest \in Seq(Frames(files)) /\ Len(rest) = Len(stk) - 1 /\ \A k \in 1..Len(stk) - 1 : rest[k] = stk[k]
  BY <1>1, <1>2 DEF Front
<1>4. StackOk(files, main, stk)
  BY <1>1 DEF ReadOk
<1>5. ASSUME NEW tag \in Tags, NEW g, Solution(files, tag, g)
      PROVE  /\ StackOk(files, main, rest) /\ Given(files, tag, g, rest) = Given(files, tag, g, stk)
             /\ h.tns = files[rest[Len(rest)].url].tns /\ h.base = Dir(rest[Len(rest)].url)
  <2>1. Chunk(files, tag, g, stk[Len(stk)], stk[Len(stk)].pos - 1) = g[stk[Len(stk)].url]
    BY <1>1, <1>2, <1>5 DEF AllGiven
  <2>2. /\ StackOk(files, main, rest) /\ Given(files, tag, g, rest) = Given(files, tag, g, stk)
        /\ stk[Len(stk)].tns = files[rest[Len(rest)].url].tns /\ stk[Len(stk)].base = Dir(rest[Len(rest)].url)
    BY ONLY <1>2, <1>3, <1>4, <1>5, <2>1, PopGives
  <2>. QED
    BY <1>1, <2>2
<1>6. /\ StackOk(files, main, rest)
      /\ h.tns = files[rest[Len(rest)].url].tns /\ h.base = Dir(rest[Len(rest)].url)
  <2>1. "message" \in Tags
    BY DEF Tags
  <2>2. PICK g : Solution(files, "message", g)
    BY <1>1, <2>1 DEF Solvable
  <2>. QED
    BY <1>5, <2>1, <2>2
<1>7. stack' = rest /\ baseUrl' = h.base /\ e = WithContext(d, h.tns, h.name)
  BY <1>1, <1>2 DEF LeaveImport, WithContext
<1>8. IsDefinitions(d)
  BY <1>1 DEF LoadTyped
<1>9. ASSUME NEW tag \in Tags PROVE e.tns = h.tns /\ ListOf(e, tag) = ListOf(d, tag)
  BY <1>7, <1>8, ContextLists
<1>10. e.tns = h.tns
  BY <1>9 DEF Tags
<1>11. ASSUME NEW tag \in Tags
       PROVE  /\ Listed(ListOf(e, tag))
              /\ \A g : Solution(files, tag, g) => Names(ListOf(e, tag)) = Given(files, tag, g, rest)
  <2>1. /\ Listed(ListOf(d, tag))
        /\ \A g : Solution(files, tag, g) => Names(ListOf(d, tag)) = Given(files, tag, g, stk)
    BY <1>1 DEF ReadOk
  <2>. QED
    BY <1>5, <1>9, <2>1
<1>. QED
  BY <1>1, <1>6, <1>7, <1>10, <1>11 DEF ReadOk

(* The lists hold what the main document and its imports declare.          *)
AllRead(i, d) == \A tag \in Tags : \A g : Solution(i.files, tag, g) => Names(ListOf(d, tag)) = g[i.main]

(* So they do when the main document is left.                              *)
LEMMA MainLeft ==
  ASSUME LoadTyped, loading = "reading", ReadOk(input, definitions, baseUrl, stack), AllGiven(input.files, Top),
         ~ Len(stack) > 1
  PROVE  AllRead(input, definitions)
<1>1. PICK files, stk, h : files = input.files /\ stk = stack /\ h = Top
  OBVIOUS
<1>2. Len(stk) = 1 /\ stk[1] = h /\ stk \in Seq(Frames(files))
  <2>1. PICK n : n = Len(stack)
    OBVIOUS
  <2>2. n \in Nat \ {0} /\ ~ n > 1 /\ Top = stack[n] /\ stack \in Seq(Frames(input.files))
    BY <2>1, StackFacts
  <2>3. n = 1
    BY <2>2
  <2>. QED
    BY <1>1, <2>1, <2>2, <2>3
<1>3. h.url = input.main /\ StackOk(files, input.main, stk)
  BY <1>1, <1>2 DEF ReadOk, StackOk
<1>4. ASSUME NEW tag \in Tags, NEW g, Solution(files, tag, g) PROVE Names(ListOf(definitions, tag)) = g[input.main]
  <2>1. Names(ListOf(definitions, tag)) = Given(files, tag, g, stk)
    BY <1>1, <1>4 DEF ReadOk
  <2>2. Chunk(files, tag, g, h, h.pos - 1) = g[input.main]
    BY <1>1, <1>3, <1>4 DEF AllGiven
  <2>3. Given(files, tag, g, stk) = FlattenSeq(Below(files, tag, g, stk, 0)) \o g[input.main]
    BY <1>2, <2>2 DEF Given
  <2>4. FlattenSeq(Below(files, tag, g, stk, 0)) = <<>>
    <3>1. Below(files, tag, g, stk, 0) = <<>>
      BY DEF Below
    <3>. QED
      BY <3>1, FlattenSeqNone
  <2>5. g[input.main] \in Seq(NamesOfFiles(files))
    <3>1. h \in Frames(files)
      BY <1>2
    <3>2. input.main \in DOMAIN files
      BY <1>3, <3>1 DEF Frames
    <3>. QED
      BY <1>4, <3>2 DEF Solution, NameLists
  <2>6. <<>> \o g[input.main] = g[input.main]
    BY <2>5
  <2>. QED
    BY <2>1, <2>3, <2>4, <2>6
<1>. QED
  BY <1>1, <1>4 DEF AllRead

(* Leaving a document.                                                     *)
LEMMA LeaveReads ==
  ASSUME LoadTyped, loading = "reading", Solvable(input.files), ReadOk(input, definitions, baseUrl, stack),
         AllGiven(input.files, Top), NEW result, Leave(result)
  PROVE  \/ loading' = "reading" /\ input' = input /\ ReadOk(input, definitions', baseUrl', stack')
         \/ loading' = result /\ input' = input /\ AllRead(input, definitions')
<1>1. CASE Len(stack) > 1
  <2>1. LeaveImport(definitions, Top)
    BY <1>1 DEF Leave
  <2>2. loading' = "reading" /\ input' = input
    BY <2>1 DEF LeaveImport
  <2>. QED
    BY <1>1, <2>1, <2>2, PopKept
<1>2. CASE ~ Len(stack) > 1
  <2>1. loading' = result /\ input' = input /\ definitions' = definitions
    BY <1>2 DEF Leave, LeaveMain
  <2>. QED
    BY <1>2, <2>1, MainLeft
<1>. QED
  BY <1>1, <1>2

(* What an action of loadXML() does to what the object holds.              *)
ReadOn ==
  \/ loading' = "reading" /\ input' = input /\ ReadOk(input, definitions', baseUrl', stack')
  \/ loading' = "loaded" /\ input' = input /\ AllRead(input, definitions')
  \/ loading' = "failed"

ReadingOk == LoadTyped /\ loading = "reading" /\ Solvable(input.files) /\ ReadOk(input, definitions, baseUrl, stack)

(* Passing to the next element.                                            *)
LEMMA LoadReads ==
  ASSUME ReadingOk, Top.pos <= Len(TopDocument.items), Item.tag = "types" => Item.parses,
         NEW d, d.tns = definitions.tns, \A tag \in Tags : Adds(d, tag), Load(d)
  PROVE  ReadOn
<1>1. ReadOk(input, d, baseUrl, NextItem)
  BY PassKept DEF ReadingOk
<1>2. definitions' = d /\ stack' = NextItem /\ UNCHANGED <<input, baseUrl, loading>>
  BY DEF Load
<1>. QED
  BY <1>1, <1>2 DEF ReadOn, ReadingOk

(* The element that is read next, and where its document stands.           *)
LEMMA ItemHere ==
  ASSUME ReadingOk, Top.pos <= Len(TopDocument.items), Item.tag = "types" => Item.parses, NEW tag \in Tags
  PROVE  /\ Listed(ListOf(definitions, tag))
         /\ \A g : /\ Item.tag = tag => NamesAt(input.files, tag, g, Top.url, Top.pos) = <<QName(definitions.tns, Attr(Item, "name"))>>
                   /\ Item.tag # tag /\ ~ ImportedAt(input.files, Top.url, Item) => NamesAt(input.files, tag, g, Top.url, Top.pos) = <<>>
<1>1. PICK files, u, i : files = input.files /\ u = Top.url /\ i = Top.pos
  OBVIOUS
<1>2. Item = files[u].items[i]
  BY <1>1 DEF Item, TopDocument
<1>3. ReadAt(files[u], i)
  BY <1>1, ReadTo DEF ReadingOk
<1>4. Listed(ListOf(definitions, tag))
  BY DEF ReadingOk, ReadOk
<1>5. definitions.tns = files[u].tns
  BY <1>1, StackFacts DEF ReadingOk, ReadOk
<1>6. ASSUME NEW g
      PROVE  /\ Item.tag = tag => NamesAt(files, tag, g, u, i) = <<QName(files[u].tns, Attr(Item, "name"))>>
             /\ Item.tag # tag /\ ~ ImportedAt(files, u, Item) => NamesAt(files, tag, g, u, i) = <<>>
  BY <1>2, <1>3, ItemAdds
<1>. QED
  BY <1>1, <1>4, <1>5, <1>6

(* An element that is not of a list's kind leaves that list's names alone. *)
LEMMA OtherAdds ==
  ASSUME ReadingOk, Top.pos <= Len(TopDocument.items), Item.tag = "types" => Item.parses, NEW tag \in Tags,
         Item.tag # tag, ~ ImportedAt(input.files, Top.url, Item),
         NEW d, Listed(ListOf(d, tag)), Names(ListOf(d, tag)) = Names(ListOf(definitions, tag))
  PROVE  Adds(d, tag)
<1>1. Names(ListOf(definitions, tag)) \o <<>> = Names(ListOf(definitions, tag))
  BY ItemHere, NamesSame
<1>2. \A g : NamesAt(input.files, tag, g, Top.url, Top.pos) = <<>>
  BY ItemHere
<1>. QED
  BY <1>1, <1>2 DEF Adds

(* An element of its kind is appended to it.                               *)
LEMMA ElementAdds ==
  ASSUME ReadingOk, Top.pos <= Len(TopDocument.items), NEW tag \in Tags, Item.tag = tag,
         NEW x, HasName(x), x.ns = definitions.tns, x.name = Attr(Item, "name"),
         NEW d, ListOf(d, tag) = Append(ListOf(definitions, tag), x)
  PROVE  Adds(d, tag)
<1>0. Item.tag = "types" => Item.parses
  BY DEF Tags
<1>1. /\ Listed(ListOf(d, tag))
      /\ Names(ListOf(d, tag)) = Names(ListOf(definitions, tag)) \o <<QName(x.ns, x.name)>>
  BY <1>0, ItemHere, NamesMore
<1>2. \A g : NamesAt(input.files, tag, g, Top.url, Top.pos) = <<QName(x.ns, x.name)>>
  BY <1>0, ItemHere
<1>. QED
  BY <1>1, <1>2 DEF Adds

(* A message, a port type or a binding is appended to its list.            *)
LEMMA ElementRead ==
  ASSUME ReadingOk, loadMessage \/ loadPortType \/ loadBinding
  PROVE  ReadOn
<1>1. PICK d, kind, x :
          /\ Load(d) /\ Item.tag = kind /\ Top.pos <= Len(TopDocument.items) /\ kind \in Tags
          /\ HasName(x) /\ x.ns = definitions.tns /\ x.name = Attr(Item, "name")
          /\ d.tns = definitions.tns
          /\ \A tag \in Tags :
               ListOf(d, tag) = IF tag = kind THEN Append(ListOf(definitions, tag), x) ELSE ListOf(definitions, tag)
  <2>0. PICK o : o = definitions
    OBVIOUS
  <2>1. IsDefinitions(o)
    BY <2>0 DEF ReadingOk, LoadTyped
  <2>2. CASE loadMessage
    <3>1. PICK x, v, d : /\ x = MessageOf(TopDocument.map, definitions.tns, Item) /\ v = Append(o.messages, x)
                         /\ d = [o EXCEPT !.messages = v]
      OBVIOUS
    <3>2. Load(d) /\ Item.tag = "message" /\ Top.pos <= Len(TopDocument.items)
      BY <2>0, <2>2, <3>1 DEF loadMessage, AtItem
    <3>3. HasName(x) /\ x.ns = definitions.tns /\ x.name = Attr(Item, "name")
      BY <3>1 DEF MessageOf, HasName
    <3>4. d.tns = o.tns /\ \A tag \in Tags : ListOf(d, tag) = IF tag = "message" THEN v ELSE ListOf(o, tag)
      BY <2>1, <3>1 DEF IsDefinitions, ListOf, Tags
    <3>5. v = Append(ListOf(o, "message"), x) /\ "message" \in Tags
      BY <3>1 DEF ListOf, Tags
    <3>. QED
      BY <2>0, <3>2, <3>3, <3>4, <3>5
  <2>3. CASE loadPortType
    <3>1. PICK x, v, d : /\ x = PortTypeOf(TopDocument.map, definitions.tns, Item) /\ v = Append(o.portTypes, x)
                         /\ d = [o EXCEPT !.portTypes = v]
      OBVIOUS
    <3>2. Load(d) /\ Item.tag = "portType" /\ Top.pos <= Len(TopDocument.items)
      BY <2>0, <2>3, <3>1 DEF loadPortType, AtItem
    <3>3. HasName(x) /\ x.ns = definitions.tns /\ x.name = Attr(Item, "name")
      BY <3>1 DEF PortTypeOf, HasName
    <3>4. d.tns = o.tns /\ \A tag \in Tags : ListOf(d, tag) = IF tag = "portType" THEN v ELSE ListOf(o, tag)
      BY <2>1, <3>1 DEF IsDefinitions, ListOf, Tags
    <3>5. v = Append(ListOf(o, "portType"), x) /\ "portType" \in Tags
      BY <3>1 DEF ListOf, Tags
    <3>. QED
      BY <2>0, <3>2, <3>3, <3>4, <3>5
  <2>4. CASE loadBinding
    <3>1. PICK x, v, d : /\ x = BindingOf(TopDocument.map, definitions.tns, Item) /\ v = Append(o.bindings, x)
                         /\ d = [o EXCEPT !.bindings = v]
      OBVIOUS
    <3>2. Load(d) /\ Item.tag = "binding" /\ Top.pos <= Len(TopDocument.items)
      BY <2>0, <2>4, <3>1 DEF loadBinding, AtItem
    <3>3. HasName(x) /\ x.ns = definitions.tns /\ x.name = Attr(Item, "name")
      BY <3>1 DEF BindingOf, HasName
    <3>4. d.tns = o.tns /\ \A tag \in Tags : ListOf(d, tag) = IF tag = "binding" THEN v ELSE ListOf(o, tag)
      BY <2>1, <3>1 DEF IsDefinitions, ListOf, Tags
    <3>5. v = Append(ListOf(o, "binding"), x) /\ "binding" \in Tags
      BY <3>1 DEF ListOf, Tags
    <3>. QED
      BY <2>0, <3>2, <3>3, <3>4, <3>5
  <2>. QED
    BY <2>2, <2>3, <2>4
<1>2. (Item.tag = "types" => Item.parses) /\ ~ ImportedAt(input.files, Top.url, Item)
  BY <1>1 DEF Tags, ImportedAt
<1>3. ASSUME NEW tag \in Tags PROVE Adds(d, tag)
  <2>1. CASE tag = kind
    BY <1>1, <2>1, ElementAdds
  <2>2. CASE tag # kind
    <3>1. ListOf(d, tag) = ListOf(definitions, tag)
      BY <1>1, <2>2
    <3>2. Listed(ListOf(d, tag))
      BY <3>1 DEF ReadingOk, ReadOk
    <3>. QED
      BY <1>1, <1>2, <2>2, <3>1, <3>2, OtherAdds
  <2>. QED
    BY <2>1, <2>2
<1>. QED
  BY <1>1, <1>2, <1>3, LoadReads

(* All other elements that are passed append to none.                      *)
LEMMA OtherRead ==
  ASSUME ReadingOk, Top.pos <= Len(TopDocument.items), Item.tag = "types" => Item.parses, Item.tag \notin Tags,
         ~ ImportedAt(input.files, Top.url, Item),
         NEW d, d.tns = definitions.tns, Load(d),
         \A tag \in Tags : Listed(ListOf(d, tag)) /\ Names(ListOf(d, tag)) = Names(ListOf(definitions, tag))
  PROVE  ReadOn
<1>1. ASSUME NEW tag \in Tags PROVE Adds(d, tag)
  BY OtherAdds
<1>. QED
  BY <1>1, LoadReads

(* A service changes no names, whether it is wanted or not.                *)
LEMMA ServiceRead == ASSUME ReadingOk, loadService PROVE ReadOn
<1>1. PICK o : o = definitions
  OBVIOUS
<1>2. IsDefinitions(o)
  BY <1>1 DEF ReadingOk, LoadTyped
<1>3. Top.pos <= Len(TopDocument.items) /\ Item.tag = "service"
  BY DEF loadService, AtItem
<1>4. /\ Item.tag = "types" => Item.parses
      /\ Item.tag \notin Tags /\ ~ ImportedAt(input.files, Top.url, Item)
  BY <1>3 DEF Tags, ImportedAt
<1>5. \A tag \in Tags : Listed(ListOf(o, tag))
  BY <1>1 DEF ReadingOk, ReadOk
<1>6. CASE Load(o)
  BY <1>1, <1>3, <1>4, <1>5, <1>6, OtherRead
<1>7. CASE ~ Load(o)
  <2>1. PICK v, w, d : /\ w = Addressed(o.bindings, Item) /\ d = [o EXCEPT !.services = v, !.bindings = w] /\ Load(d)
    BY <1>1, <1>7 DEF loadService
  <2>2. PICK e : e = [o EXCEPT !.services = v]
    OBVIOUS
  <2>3. /\ e = [tns |-> o.tns, name |-> o.name, types |-> o.types, elements |-> o.elements, messages |-> o.messages,
                portTypes |-> o.portTypes, bindings |-> o.bindings, services |-> v]
    BY <1>2, <2>2 DEF IsDefinitions
  <2>4. d = [e EXCEPT !.bindings = w]
    BY <2>1, <2>2
  <2>5. d = [tns |-> o.tns, name |-> o.name, types |-> o.types, elements |-> o.elements, messages |-> o.messages,
             portTypes |-> o.portTypes, bindings |-> w, services |-> v]
    BY <2>3, <2>4
  <2>6. d.tns = o.tns
    BY <2>5
  <2>7. Listed(o.bindings)
    BY <1>5 DEF ListOf, Tags
  <2>8. Listed(w) /\ Names(w) = Names(o.bindings)
    BY <2>1, <2>7, NamesAddressed
  <2>9. ASSUME NEW tag \in Tags PROVE Listed(ListOf(d, tag)) /\ Names(ListOf(d, tag)) = Names(ListOf(o, tag))
    <3>1. CASE tag = "binding"
      <4>1. ListOf(d, tag) = w /\ ListOf(o, tag) = o.bindings
        BY <2>5, <3>1 DEF ListOf
      <4>. QED
        BY <2>8, <4>1
    <3>2. CASE tag # "binding"
      <4>1. ListOf(d, tag) = ListOf(o, tag)
        BY <2>5, <3>2 DEF ListOf, Tags
      <4>. QED
        BY <1>5, <4>1
    <3>. QED
      BY <3>1, <3>2
  <2>. QED
    BY <1>1, <1>3, <1>4, <2>1, <2>6, <2>9, OtherRead
<1>. QED
  BY <1>6, <1>7

(* Types change no names; a section that does not parse ends its document. *)
LEMMA TypesRead == ASSUME ReadingOk, loadTypes PROVE ReadOn
<1>1. PICK o : o = definitions
  OBVIOUS
<1>2. IsDefinitions(o)
  BY <1>1 DEF ReadingOk, LoadTyped
<1>3. Top.pos <= Len(TopDocument.items) /\ Item.tag = "types"
  BY DEF loadTypes, AtItem
<1>4. Item.tag \notin Tags /\ ~ ImportedAt(input.files, Top.url, Item)
  BY <1>3 DEF Tags, ImportedAt
<1>5. CASE Item.parses
  <2>1. PICK v, w, d : d = [o EXCEPT !.types = v, !.elements = w] /\ Load(d)
    BY <1>1, <1>5 DEF loadTypes
  <2>2. PICK e : e = [o EXCEPT !.types = v]
    OBVIOUS
  <2>3. /\ e = [tns |-> o.tns, name |-> o.name, types |-> v, elements |-> o.elements, messages |-> o.messages,
                portTypes |-> o.portTypes, bindings |-> o.bindings, services |-> o.services]
    BY <1>2, <2>2 DEF IsDefinitions
  <2>4. d = [e EXCEPT !.elements = w]
    BY <2>1, <2>2
  <2>5. d = [tns |-> o.tns, name |-> o.name, types |-> v, elements |-> w, messages |-> o.messages,
             portTypes |-> o.portTypes, bindings |-> o.bindings, services |-> o.services]
    BY <2>3, <2>4
  <2>6. d.tns = o.tns /\ \A tag \in Tags : ListOf(d, tag) = ListOf(o, tag)
    BY <2>5 DEF ListOf, Tags
  <2>7. \A tag \in Tags : Listed(ListOf(o, tag))
    BY <1>1 DEF ReadingOk, ReadOk
  <2>. QED
    BY <1>1, <1>3, <1>4, <1>5, <2>1, <2>6, <2>7, OtherRead
<1>6. CASE ~ Item.parses
  <2>1. Leave("failed")
    BY <1>6 DEF loadTypes
  <2>2. AllGiven(input.files, Top)
    BY <1>3, <1>6, LeftAll DEF ReadingOk
  <2>3. \/ loading' = "reading" /\ input' = input /\ ReadOk(input, definitions', baseUrl', stack')
        \/ loading' = "failed"
    BY <2>1, <2>2, LeaveReads DEF ReadingOk
  <2>. QED
    BY <2>3 DEF ReadOn
<1>. QED
  BY <1>5, <1>6

(* Every action of loadXML() goes on reading, or has read all.             *)
LEMMA LoadNextReads == ASSUME ReadingOk, LoadNext PROVE ReadOn
<1>1. CASE loadMessage \/ loadPortType \/ loadBinding
  BY <1>1, ElementRead
<1>2. CASE loadService
  BY <1>2, ServiceRead
<1>3. CASE loadTypes
  BY <1>3, TypesRead
<1>4. CASE importDefinition
  <2>1. UNCHANGED <<input, loading>>
    BY <1>4 DEF importDefinition
  <2>2. ReadOk(input, definitions', baseUrl', stack')
    BY <1>4, PushKept DEF ReadingOk
  <2>. QED
    BY <2>1, <2>2 DEF ReadOn, ReadingOk
<1>5. CASE skipImport \/ ignoreItem
  <2>1. Load(definitions) /\ Top.pos <= Len(TopDocument.items)
    BY <1>5 DEF skipImport, ignoreItem, AtItem
  <2>2. Item.tag \in {"import", "other"} /\ (Item.tag = "import" => ~ Importable(Item.location))
    BY <1>5 DEF skipImport, ignoreItem, AtItem
  <2>3. baseUrl = Dir(Top.url)
    BY StackFacts DEF ReadingOk, ReadOk
  <2>4. ~ ImportedAt(input.files, Top.url, Item)
    BY <2>2, <2>3 DEF ImportedAt, Target, Importable, urlForLocation
  <2>5. Item.tag \notin Tags /\ Item.tag # "types"
    BY <2>2 DEF Tags
  <2>6. \A tag \in Tags : Listed(ListOf(definitions, tag))
    BY DEF ReadingOk, ReadOk
  <2>. QED
    BY <2>1, <2>4, <2>5, <2>6, OtherRead
<1>6. CASE endDocument
  <2>1. Leave("loaded") /\ Top.pos > Len(TopDocument.items)
    BY <1>6 DEF endDocument
  <2>2. AllGiven(input.files, Top)
    BY <2>1, LeftAll DEF ReadingOk
  <2>3. \/ loading' = "reading" /\ input' = input /\ ReadOk(input, definitions', baseUrl', stack')
        \/ loading' = "loaded" /\ input' = input /\ AllRead(input, definitions')
    BY <2>1, <2>2, LeaveReads DEF ReadingOk
  <2>. QED
    BY <2>3 DEF ReadOn
<1>. QED
  BY <1>1, <1>2, <1>3, <1>4, <1>5, <1>6 DEF LoadNext

(* The main document opened has given nothing yet.                         *)
LEMMA MainOpened ==
  ASSUME LoadTyped, definitions = NoDefinitions, input.main \in DOMAIN input.files, Solvable(input.files), startLoading
  PROVE  loading' = "reading" /\ input' = input /\ ReadOk(input, definitions', baseUrl', stack')
<1>1. PICK files, url, f, e, s : /\ files = input.files /\ url = input.main /\ f = Frame(url, baseUrl)
                                 /\ e = definitions' /\ s = stack'
  OBVIOUS
<1>2. /\ s = <<f>> /\ baseUrl' = Dir(url) /\ loading' = "reading" /\ input' = input
      /\ e = WithContext(definitions, files[url].tns, files[url].name)
  BY <1>1 DEF startLoading, Entered, WithContext
<1>3. Len(s) = 1 /\ s[1] = f /\ s[Len(s)] = f
  BY <1>2
<1>4. f.url = url /\ f.pos = 1
  BY <1>1 DEF Frame
<1>5. PICK g : Solution(files, "message", g)
  BY <1>1 DEF Solvable, Tags
<1>6. FrameOk(files, f)
  <2>1. Len(files[url].items) \in Nat
    BY <1>1, <1>5 DEF Solution
  <2>2. f.pos - 1 = 0 /\ 1..0 = {}
    BY <1>4
  <2>. QED
    BY <1>4, <2>1, <2>2 DEF FrameOk, ReadAt
<1>7. StackOk(files, url, s)
  <2>1. \A k \in 1..Len(s) : s[k] = f
    BY <1>3
  <2>2. 1..Len(s) - 1 = {}
    BY <1>3
  <2>. QED
    BY <1>3, <1>4, <1>6, <2>1, <2>2 DEF StackOk
<1>8. IsDefinitions(definitions)
  BY DEF LoadTyped
<1>9. ASSUME NEW tag \in Tags PROVE e.tns = files[url].tns /\ ListOf(e, tag) = <<>>
  <2>1. e.tns = files[url].tns /\ ListOf(e, tag) = ListOf(definitions, tag)
    BY <1>2, <1>8, ContextLists
  <2>2. ListOf(definitions, tag) = <<>>
    BY DEF NoDefinitions, ListOf, Tags
  <2>. QED
    BY <2>1, <2>2
<1>10. e.tns = files[url].tns
  BY <1>9 DEF Tags
<1>11. Listed(<<>>) /\ Names(<<>>) = <<>>
  <2>1. <<>> \in Seq({})
    OBVIOUS
  <2>2. Listed(<<>>)
    <3>1. PICK S : S = {}
      OBVIOUS
    <3>2. <<>> \in Seq(S) /\ \A x \in S : HasName(x)
      BY <2>1, <3>1
    <3>. QED
      BY <3>2, Zenon DEF Listed
  <2>3. PICK e0 : e0 = <<>>
    OBVIOUS
  <2>4. e0 \in Seq({}) /\ DOMAIN e0 = {}
    BY <2>3
  <2>5. Names(e0) \in Seq({}) /\ Len(Names(e0)) = 0
    BY <2>3, <2>4 DEF Names, MapSeq
  <2>6. Names(e0) = <<>>
    BY <2>5
  <2>. QED
    BY <2>2, <2>3, <2>6
<1>12. ASSUME NEW tag, NEW h, Solution(files, tag, h) PROVE Given(files, tag, h, s) = <<>>
  <2>1. Below(files, tag, h, s, 0) = <<>>
    BY DEF Below
  <2>2. Chunk(files, tag, h, f, 0) = <<>>
    <3>1. PICK p : p = Parts(files, tag, h, url)
      OBVIOUS
    <3>2. p \in Seq(Seq(NamesOfFiles(files)))
      BY <1>1, <1>12, <3>1, PartsSolved
    <3>3. Upto(p, 0) = <<>>
      BY <3>2, UptoIs
    <3>. QED
      BY <1>4, <3>1, <3>3 DEF Chunk
  <2>3. Len(s) - 1 = 0 /\ s[Len(s)].pos - 1 = 0
    BY <1>3, <1>4
  <2>4. Given(files, tag, h, s) = <<>> \o <<>>
    BY <1>3, <2>1, <2>2, <2>3, FlattenSeqNone DEF Given
  <2>. QED
    BY <2>4
<1>13. ASSUME NEW tag \in Tags
       PROVE  /\ Listed(ListOf(e, tag))
              /\ \A h : Solution(files, tag, h) => Names(ListOf(e, tag)) = Given(files, tag, h, s)
  BY <1>9, <1>11, <1>12
<1>. QED
  BY <1>1, <1>2, <1>3, <1>4, <1>7, <1>10, <1>13 DEF ReadOk

(* The recursion over the documents has a solution where none imports      *)
(* itself, and it is what NamesIn gives.                                   *)
LEMMA ImportsSolved ==
  ASSUME ImportsDescend, NEW i \in Inputs
  PROVE  /\ Solvable(i.files)
         /\ i.main \in DOMAIN i.files =>
              \A tag \in Tags : \A g : Solution(i.files, tag, g) => NamesIn(i.files, i.main, tag) = g[i.main]
<1>1. PICK k \in Nat : \E rank \in [DOMAIN i.files -> 0..k] : Descends(i.files, rank)
  BY DEF ImportsDescend
<1>2. PICK rank \in [DOMAIN i.files -> 0..k] : Descends(i.files, rank)
  BY <1>1
<1>3. \A u \in DOMAIN i.files : Len(i.files[u].items) \in Nat
  BY FilesTyped
<1>4. ASSUME NEW tag PROVE \E g \in [DOMAIN i.files -> NameLists(i.files)] : Flattened(i.files, tag, g)
  BY <1>2, <1>3, FlattenedExists
<1>5. Solvable(i.files)
  BY <1>3, <1>4 DEF Solvable, Solution
<1>6. ASSUME NEW tag \in Tags, NEW g, Solution(i.files, tag, g), i.main \in DOMAIN i.files
      PROVE  NamesIn(i.files, i.main, tag) = g[i.main]
  <2>1. Flattened(i.files, tag, g)
    BY <1>6 DEF Solution
  <2>. QED
    BY <1>2, <1>6, <2>1, NamesInIs
<1>. QED
  BY <1>5, <1>6

(* The inductive invariant: nothing is loaded before, the object holds what *)
(* has been read while documents are, and all of it afterwards.             *)
ImportsInv ==
  /\ generator = "download" => LoadTyped /\ definitions = NoDefinitions
  /\ generator = "load" =>
       /\ ReadingOk /\ definitions.types \subseteq TypesOf(input)
       /\ input.main \in DOMAIN input.files
  /\ generator = "fixup" => AllRead(input, definitions) /\ input \in Inputs /\ input.main \in DOMAIN input.files

(* ImportsInv holds before the generator starts.                           *)
LEMMA ImportsInitially == Init => ImportsInv
<1>. SUFFICES ASSUME Init PROVE ImportsInv
  OBVIOUS
<1>1. IsDefinitions(definitions) /\ definitions = NoDefinitions
  BY DEF Init, LoadInit, NoDefinitions, IsDefinitions, Texts
<1>2. input \in Inputs /\ stack = <<>> /\ baseUrl = <<>> /\ loading = "idle" /\ generator = "download"
  BY DEF Init, LoadInit
<1>. QED
  BY <1>1, <1>2 DEF ImportsInv, LoadTyped

(* Every step keeps ImportsInv.                                            *)
LEMMA ImportsStep ==
  ASSUME ImportsDescend, ImportsInv, [Next]_vars
  PROVE  ImportsInv'
<1>1. ASSUME UNCHANGED <<loadVars, generator>> PROVE ImportsInv'
  <2>1. UNCHANGED <<input, definitions, baseUrl, stack, loading, generator>>
    BY <1>1 DEF loadVars
  <2>2. /\ generator = "download" => LoadTyped' /\ definitions' = NoDefinitions
    BY <2>1 DEF ImportsInv, LoadTyped
  <2>3. generator = "load" => LoadTyped' /\ ReadingOk'
    BY <2>1 DEF ImportsInv, ReadingOk, LoadTyped, Solvable, ReadOk
  <2>. QED
    BY <2>1, <2>2, <2>3 DEF ImportsInv, AllRead
<1>2. CASE download
  <2>1. CASE startLoading /\ generator' = "load"
    <3>1. generator = "download" /\ input.main \in DOMAIN input.files
      BY <1>2, <2>1 DEF download, Exit
    <3>2. LoadTyped /\ definitions = NoDefinitions
      BY <3>1 DEF ImportsInv
    <3>3. Solvable(input.files)
      BY <3>2, ImportsSolved DEF LoadTyped
    <3>4. loading' = "reading" /\ input' = input /\ ReadOk(input, definitions', baseUrl', stack')
      BY <2>1, <3>1, <3>2, <3>3, MainOpened
    <3>5. LoadTyped' /\ definitions'.types = {}
      BY <2>1, <3>1, <3>2, StartKept DEF NoDefinitions
    <3>6. ReadingOk'
      BY <3>3, <3>4, <3>5 DEF ReadingOk
    <3>. QED
      BY <2>1, <3>1, <3>4, <3>5, <3>6 DEF ImportsInv
  <2>2. CASE generator' = "exit"
    BY <2>2 DEF ImportsInv
  <2>. QED
    BY <1>2, <2>1, <2>2 DEF download, Exit
<1>3. CASE load
  <2>1. generator = "load" /\ LoadNext
    BY <1>3 DEF load
  <2>2. ReadingOk /\ definitions.types \subseteq TypesOf(input) /\ input.main \in DOMAIN input.files
    BY <2>1 DEF ImportsInv
  <2>3. LoadTyped' /\ definitions'.types \subseteq TypesOf(input')
    BY <2>1, <2>2, LoadSteps DEF ReadingOk
  <2>4. ReadOn
    BY <2>1, <2>2, LoadNextReads
  <2>5. CASE loading' = "reading" /\ input' = input /\ ReadOk(input, definitions', baseUrl', stack')
    <3>1. generator' = "load"
      BY <1>3, <2>1, <2>5 DEF load
    <3>2. ReadingOk'
      BY <2>2, <2>3, <2>5 DEF ReadingOk
    <3>. QED
      BY <2>2, <2>3, <2>5, <3>1, <3>2 DEF ImportsInv
  <2>6. CASE loading' = "loaded" /\ input' = input /\ AllRead(input, definitions')
    <3>1. generator' = "fixup"
      BY <1>3, <2>6 DEF load
    <3>2. input \in Inputs
      BY <2>2 DEF ReadingOk, LoadTyped
    <3>. QED
      BY <2>2, <2>6, <3>1, <3>2 DEF ImportsInv
  <2>7. CASE loading' = "failed"
    <3>1. generator' = "exit"
      BY <1>3, <2>7 DEF load, Exit
    <3>. QED
      BY <3>1 DEF ImportsInv
  <2>. QED
    BY <2>4, <2>5, <2>6, <2>7 DEF ReadOn
<1>4. CASE fixup \/ cleanupUnusedTypes \/ startConverting
  <2>1. generator' \in {"collect", "types", "convert"}
    BY <1>4 DEF fixup, cleanupUnusedTypes, startConverting
  <2>. QED
    BY <2>1 DEF ImportsInv
<1>5. CASE collect
  <2>1. generator' = "types"
    BY <1>5 DEF collect
  <2>. QED
    BY <2>1 DEF ImportsInv
<1>6. CASE convertServerService \/ convertClientService \/ nextService
  <2>1. generator' \in {"client", "exit"}
    BY <1>6 DEF convertServerService, convertClientService, nextService, Exit
  <2>. QED
    BY <2>1 DEF ImportsInv
<1>7. CASE Use
  BY <1>1, <1>7, UseKeepsGenerator DEF generatorVars
<1>8. CASE UNCHANGED vars
  BY <1>1, <1>8 DEF vars
<1>. QED
  BY <1>2, <1>3, <1>4, <1>5, <1>6, <1>7, <1>8 DEF Next, Generate

(* However deep or often documents are imported, and wherever a section of   *)
(* types does not parse, Definitions::loadXML() leaves in the object the     *)
(* messages, port types and bindings of the main document and its imports,   *)
(* in document order and each in its own namespace, when no document         *)
(* imports itself.                                                           *)
THEOREM ImportsAreFlattened == ASSUME ImportsDescend PROVE Spec => []ImportsFlattened
<1>1. ImportsInv => ImportsFlattened
  <2>. SUFFICES ASSUME ImportsInv, generator = "fixup"
                PROVE  /\ Names(definitions.messages) = NamesIn(input.files, input.main, "message")
                       /\ Names(definitions.portTypes) = NamesIn(input.files, input.main, "portType")
                       /\ Names(definitions.bindings) = NamesIn(input.files, input.main, "binding")
    BY DEF ImportsFlattened
  <2>1. AllRead(input, definitions) /\ input \in Inputs /\ input.main \in DOMAIN input.files
    BY DEF ImportsInv
  <2>2. ASSUME NEW tag \in Tags PROVE Names(ListOf(definitions, tag)) = NamesIn(input.files, input.main, tag)
    <3>1. PICK g : Solution(input.files, tag, g)
      BY <2>1, ImportsSolved DEF Solvable
    <3>2. Names(ListOf(definitions, tag)) = g[input.main]
      BY <2>1, <3>1 DEF AllRead
    <3>3. NamesIn(input.files, input.main, tag) = g[input.main]
      BY <2>1, <3>1, ImportsSolved
    <3>. QED
      BY <3>2, <3>3
  <2>. QED
    BY <2>2 DEF ListOf, Tags
<1>. QED
  BY <1>1, ImportsInitially, ImportsStep, PTL DEF Spec
================================================================================
