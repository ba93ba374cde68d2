------------------------------- MODULE UvcChain -------------------------------
(***************************************************************************)
(* How the UVC driver puts the terminals and units of a device together    *)
(* into video chains (uvc_driver.c: uvc_scan_device, uvc_scan_chain and    *)
(* its helpers, uvc_scan_fallback), from whatever references the           *)
(* descriptors of the device contain.                                      *)
(*                                                                         *)
(* An entity is named by its position in dev->entities.  One step scans    *)
(* one entity, follows one reference or looks at one pin.                  *)
(***************************************************************************)
EXTENDS Integers, Sequences, FiniteSets, FiniteSetsExt, SequencesExt

CONSTANT Devices  \* the devices, as sequences of descriptors

\* Input and output terminals, processing, extension and selector units, input
\* terminals of a type that uvc_scan_chain_entity does not know (the external
\* connectors), and the unit the driver adds for a privacy GPIO.
Types == {"IT", "OT", "PU", "XU", "SU", "EXT", "GPIO"}
Bytes == 0 .. 255
\* UVC_TERM_OUTPUT, which puts the identifiers of output terminals in a space of
\* their own, UVC_EXT_GPIO_UNIT_ID and UVC_INVALID_ENTITY_ID.
OutputBit == 32768
GpioId == 256
Invalid == 65535

ASSUME DevicesAssumption == \A d \in Devices :
  /\ d \in Seq([type : Types, id : Bytes, sources : Seq(Bytes)])
  /\ \A i \in DOMAIN d :
       /\ d[i].type \in {"IT", "EXT", "GPIO"} => d[i].sources = <<>>
       /\ d[i].type \in {"OT", "PU"} => Len(d[i].sources) = 1

VARIABLES
  entities,  \* dev->entities: type, id and baseSourceID of each
  pc,        \* "done", "failed" and "enomem" at the end
  term,      \* the output terminal the scan is at
  chain,     \* chain->entities of the chain that is being built
  entity,    \* uvc_scan_chain's entity and prev
  prev,
  pin,       \* the pin of a selector unit that is looked at, 0 when none is
  at,        \* the entity whose references uvc_scan_chain_forward follows
  forward,   \* and its loop's position
  linked,    \* the entities whose chain.next and chain.prev are set
  chains     \* dev->chains

scan == <<term, chain, entity, prev, pin, at, forward>>
vars == <<entities, pc, scan, linked, chains>>

\* uvc_alloc_new_entity: the identifier of each entity, invalid when it is zero
\* or taken, that is, when an earlier entity asked for it.
Wanted(d, i) ==
  CASE d[i].type = "OT" -> OutputBit + d[i].id
    [] d[i].type = "GPIO" -> GpioId
    [] OTHER -> d[i].id
Ids(d) ==
  [i \in DOMAIN d |->
     IF Wanted(d, i) = 0 \/ \E j \in 1 .. i - 1 : Wanted(d, j) = Wanted(d, i)
     THEN Invalid ELSE Wanted(d, i)]

Init ==
  /\ \E d \in Devices :
       entities = [i \in DOMAIN d |-> [type |-> d[i].type, id |-> Ids(d)[i], sources |-> d[i].sources]]
  /\ pc = "scan" /\ term = 0 /\ chain = <<>> /\ entity = 0 /\ prev = 0
  /\ pin = 0 /\ at = 0 /\ forward = 0 /\ linked = {} /\ chains = <<>>

Type(i) == entities[i].type
Sources(i) == entities[i].sources
Pins(i) == Len(Sources(i))

\* uvc_entity_by_id: 0 when there is none.
Identified(id) == {i \in DOMAIN entities : entities[i].id = id}
EntityById(id) == IF Identified(id) = {} THEN 0 ELSE Min(Identified(id))

\* Mutant: the identifier is stored whole.
WideByte(id) == id
\* baSourceID is an array of bytes.
Byte(id) == id % 256

\* Mutant: only the chain that is being built counts.
InThisChain(e) == e \in ToSet(chain)
\* Is e part of a chain, be it one that was given up?
InChain(e) == e \in linked
Link(e) == chain' = Append(chain, e) /\ linked' = linked \cup {e}

-----------------------------------------------------------------------------
(* uvc_scan_device: one chain for each output terminal that is in none.    *)

OfType(types) == {i \in DOMAIN entities : Type(i) \in types}

\* The type of the GPIO unit is that of an input terminal, as far as
\* UVC_ENTITY_IS_ITERM can see.
InputTerminals == OfType({"IT", "EXT", "GPIO"})
OutputTerminals == OfType({"OT"})
OneTerminalEach == Cardinality(InputTerminals) = 1 /\ Cardinality(OutputTerminals) = 1

Unscanned == {i \in DOMAIN entities : i > term /\ Type(i) = "OT" /\ ~InChain(i)}

StartChain ==
  /\ pc = "scan" /\ Unscanned # {}
  /\ term' = Min(Unscanned) /\ entity' = term' /\ prev' = 0
  /\ chain' = <<>> /\ pc' = "entity"
  /\ UNCHANGED <<entities, pin, at, forward, linked, chains>>

\* No memory for a chain, neither here nor in uvc_scan_fallback.
NoMemory ==
  /\ pc = "scan" /\ (Unscanned # {} \/ (chains = <<>> /\ OneTerminalEach))
  /\ pc' = "enomem"
  /\ UNCHANGED <<entities, scan, linked, chains>>

\* The chain is valid: dev->chains gets it.
ChainFound == pc' = "scan" /\ chains' = Append(chains, chain) /\ chain' = <<>> /\ entity' = 0

\* It is not: the chain is freed, and its entities keep their links.
GiveUp ==
  /\ pc' = "scan" /\ chain' = <<>> /\ entity' = 0 /\ prev' = 0
  /\ pin' = 0 /\ at' = 0 /\ forward' = 0
  /\ UNCHANGED <<entities, term, linked, chains>>

\* Multiple-input selector units count, single-input ones are ignored.
Selector(e) == Type(e) = "SU" /\ Pins(e) # 1

\* uvc_scan_chain_entity accepts e.
Acceptable(e, list) ==
  /\ Type(e) = "XU" => Pins(e) = 1
  /\ Type(e) = "PU" => \A f \in ToSet(list) : Type(f) # "PU"
  /\ Selector(e) => \A f \in ToSet(list) : ~Selector(f)
  /\ Type(e) \notin {"EXT", "GPIO"}

ScanEntity ==
  /\ pc = "entity" /\ ~InChain(entity) /\ Acceptable(entity, chain)
  /\ Link(entity)
  /\ at' = entity /\ forward' = 0 /\ pc' = "forward"
  /\ UNCHANGED <<entities, term, entity, prev, pin, chains>>

RejectEntity ==
  /\ pc = "entity" /\ (InChain(entity) \/ ~Acceptable(entity, chain))
  /\ GiveUp

-----------------------------------------------------------------------------
(* uvc_scan_chain_forward: the entities that refer to the entity at, but   *)
(* for the one the scan comes from.  It runs for an entity of the main     *)
(* path, and for the input terminals of a selector unit, where its failure *)
(* is ignored.                                                             *)

\* Mutant: the entity that the scan comes from counts as a reference.
FromNobody == 0
From == IF pin = 0 THEN prev ELSE entity
\* Mutant: an entity that is ignored is found again.
ReferringAgain ==
  {i \in DOMAIN entities : /\ i > forward \/ (i = forward /\ ~InChain(i))
                           /\ entities[at].id \in ToSet(Sources(i)) /\ i # From}
Referring == {i \in DOMAIN entities : i > forward /\ entities[at].id \in ToSet(Sources(i)) /\ i # From}

AfterForward == pc' = IF pin = 0 THEN "backward" ELSE "pins"
ForwardFails == IF pin = 0 THEN GiveUp ELSE pc' = "pins" /\ UNCHANGED <<entities, scan, linked, chains>>

ForwardDone ==
  /\ pc = "forward" /\ Referring = {}
  /\ AfterForward
  /\ UNCHANGED <<entities, scan, linked, chains>>

\* An extension unit that refers to an output terminal gets that one's source,
\* if there is one, in its place.
Reconnected(e) ==
  [entities EXCEPT ![e].sources[1] =
     IF Type(at) = "OT" THEN Byte(entities[EntityById(Sources(at)[1])].id) ELSE @]

FollowReference ==
  /\ pc = "forward" /\ Referring # {}
  /\ LET e == Min(Referring) IN
     \/ /\ InChain(e) \/ (Type(e) = "XU" /\ Pins(e) # 1)
        /\ ForwardFails
     \/ /\ ~InChain(e) /\ Type(e) = "XU" /\ Pins(e) = 1
        /\ IF Type(at) = "OT" /\ EntityById(Sources(at)[1]) = 0
           THEN UNCHANGED <<entities, chain, linked>>
           ELSE Link(e) /\ entities' = Reconnected(e)
        /\ forward' = e
        /\ UNCHANGED <<pc, term, entity, prev, pin, at, chains>>
     \/ /\ ~InChain(e) /\ Type(e) # "XU"
        /\ IF Type(e) = "OT" /\ Type(at) # "OT" THEN Link(e) ELSE UNCHANGED <<chain, linked>>
        /\ forward' = e
        /\ UNCHANGED <<entities, pc, term, entity, prev, pin, at, chains>>

-----------------------------------------------------------------------------
(* uvc_scan_chain_backward: the source of the entity.                      *)

StartPins ==
  /\ pc = "backward" /\ Selector(entity)
  /\ pc' = "pins"
  /\ UNCHANGED <<entities, scan, linked, chains>>

\* Mutant: an input that is connected to any entity is accepted.
ConnectedToAny(t) == t # 0
\* Every input of a selector unit is to be connected to an input terminal.
Connected(t) == t \in InputTerminals

NextPin ==
  /\ pc = "pins" /\ pin < Pins(entity)
  /\ LET t == EntityById(Sources(entity)[pin + 1]) IN
     IF ~Connected(t) \/ InChain(t) THEN GiveUp
     ELSE /\ Link(t)
          /\ pin' = pin + 1 /\ at' = t /\ forward' = 0 /\ pc' = "forward"
          /\ UNCHANGED <<entities, term, entity, prev, chains>>

PinsDone ==
  /\ pc = "pins" /\ pin = Pins(entity)
  /\ ChainFound /\ pin' = 0 /\ at' = 0 /\ forward' = 0 /\ prev' = 0
  /\ UNCHANGED <<entities, term, linked>>

Backward ==
  /\ pc = "backward" /\ ~Selector(entity)
  /\ LET id == IF Pins(entity) = 0 THEN 0 ELSE Sources(entity)[1]
         e == EntityById(id)
     IN \/ /\ id = 0
           /\ ChainFound /\ at' = 0 /\ forward' = 0 /\ prev' = 0
           /\ UNCHANGED <<entities, term, pin, linked>>
        \/ /\ id # 0 /\ e = 0 /\ GiveUp
        \/ /\ id # 0 /\ e # 0
           /\ prev' = entity /\ entity' = e /\ pc' = "entity"
           /\ at' = 0 /\ forward' = 0
           /\ UNCHANGED <<entities, term, chain, pin, linked, chains>>

-----------------------------------------------------------------------------
(* The end of uvc_scan_device, and uvc_scan_fallback for a device none of  *)
(* whose chains is valid.                                                  *)

\* The unit of a privacy GPIO goes to the first chain.
WithGpio(list) ==
  IF OfType({"GPIO"}) = {} THEN list
  ELSE [list EXCEPT ![1] = Append(@, Min(OfType({"GPIO"})))]

ScanDone ==
  /\ pc = "scan" /\ Unscanned = {} /\ chains # <<>>
  /\ pc' = "done" /\ chains' = WithGpio(chains)
  /\ linked' = linked \cup OfType({"GPIO"})
  /\ UNCHANGED <<entities, scan>>

\* Mutant: units with any number of pads are taken.
AnyPads(i) == Type(i) \in {"PU", "XU"}
TwoPads(i) == Type(i) \in {"PU", "XU"} /\ Pins(i) = 1
\* The output terminal, the units in reverse order of their descriptors and the
\* input terminal.
FallbackUnits ==
  LET units == {i \in DOMAIN entities : TwoPads(i)}
      Later(i) == {j \in units : j > i}
  IN [k \in 1 .. Cardinality(units) |-> CHOOSE i \in units : Cardinality(Later(i)) = k - 1]
FallbackChain == SetToSeq(OutputTerminals) \o FallbackUnits \o SetToSeq(InputTerminals)

ConnectedInOrder(list) ==
  [i \in DOMAIN entities |->
     IF \E k \in 1 .. Len(list) - 1 : list[k] = i
     THEN LET k == CHOOSE k \in 1 .. Len(list) - 1 : list[k] = i
          IN [entities[i] EXCEPT !.sources[1] = Byte(entities[list[k + 1]].id)]
     ELSE entities[i]]

\* Exactly one terminal of each kind and no entity that does not fit.
FallbackFits ==
  /\ OneTerminalEach
  /\ \A k \in DOMAIN FallbackChain :
       Acceptable(FallbackChain[k], SubSeq(FallbackChain, 1, k - 1))

Fallback ==
  /\ pc = "scan" /\ Unscanned = {} /\ chains = <<>>
  /\ IF FallbackFits
     THEN /\ entities' = ConnectedInOrder(FallbackChain)
          /\ chains' = <<FallbackChain>>
          /\ linked' = linked \cup ToSet(FallbackChain)
          /\ pc' = "done"
     ELSE pc' = "failed" /\ UNCHANGED <<entities, chains, linked>>
  /\ UNCHANGED scan

Next ==
  \/ StartChain \/ NoMemory \/ ScanEntity \/ RejectEntity
  \/ ForwardDone \/ FollowReference
  \/ StartPins \/ NextPin \/ PinsDone \/ Backward
  \/ ScanDone \/ Fallback

Spec == Init /\ [][Next]_vars
FairSpec == Spec /\ WF_vars(Next)

-----------------------------------------------------------------------------
(* Properties.                                                             *)

Entity == [type : Types, id : 0 .. Invalid, sources : Seq(Bytes)]
Positions == 0 .. Len(entities)

\* Every variable has its type; in particular a rewritten source still fits its
\* byte (baSourceID).
TypeOK ==
  /\ entities \in Seq(Entity)
  /\ pc \in {"scan", "entity", "forward", "backward", "pins",
            "done", "failed", "enomem"}
  /\ {term, entity, prev, at, forward} \subseteq Positions /\ pin \in Nat
  /\ linked \subseteq Positions
  /\ chain \in Seq(Positions) /\ chains \in Seq(Seq(Positions))

\* Every identifier was valid.
Identifiable == \A i \in DOMAIN entities : entities[i].id # Invalid

\* An entity is linked at most once, be it into one chain twice or into two: a
\* second list_add_tail would corrupt the list of the first (the checks of
\* chain.next and chain.prev in uvc_scan_chain, _forward and _backward).
Lists == Append(chains, chain)
NeverLinkedTwice ==
  /\ \A k \in DOMAIN Lists : IsInjective(Lists[k])
  /\ \A k, l \in DOMAIN Lists : k # l => ToSet(Lists[k]) \cap ToSet(Lists[l]) = {}

\* What the entities of a finished chain name as their sources is in the same
\* chain, so that their pads can be linked: an entity that no reference reaches
\* must not be left behind.  With an identifier the driver had to invalidate the
\* fallback breaks this: 65535 becomes 255 in the byte of baSourceID.
ChainClosed ==
  Identifiable =>
    \A c \in ToSet(chains) : \A e \in ToSet(c) : \A id \in ToSet(Sources(e)) \ {0} :
      EntityById(id) \in ToSet(c)

\* Chains are disjoint lists without repetition, closed under references.
ListsSound == TypeOK /\ NeverLinkedTwice /\ ChainClosed

-----------------------------------------------------------------------------
(* The structures that the comment before uvc_scan_chain_entity promises   *)
(* to find (uvc_driver.c:1408): a main path of units from the input to the *)
(* output terminals, and branches of one extension unit.                   *)

Inputs == OfType({"IT", "EXT"})
Units == OfType({"PU", "XU", "SU"})
SourceEntities(e) == {EntityById(id) : id \in ToSet(Sources(e))}

\* path is the main path of a documented structure.  (The comment counts external
\* connectors among the input terminals, which is true only of those that a
\* selector unit chooses from.)
MainPath(path) ==
  LET outlet == IF path = <<>> THEN Inputs ELSE {path[Len(path)]} IN
  /\ Inputs # {} /\ OutputTerminals # {}
  /\ OfType({"EXT"}) # {} => path # <<>> /\ Selector(path[1])
  /\ \A t \in OutputTerminals : SourceEntities(t) = outlet
  /\ \A k \in DOMAIN path :
       /\ SourceEntities(path[k]) = IF k = 1 THEN Inputs ELSE {path[k - 1]}
       /\ Pins(path[k]) = Cardinality(SourceEntities(path[k]))
       /\ Type(path[k]) = "XU" => Pins(path[k]) = 1
  /\ Cardinality({k \in DOMAIN path : Type(path[k]) = "PU"}) <= 1
  /\ \A u \in Units \ ToSet(path) :
       /\ Type(u) = "XU" /\ Pins(u) = 1
       /\ SourceEntities(u) \subseteq ToSet(path) \cup Inputs

Documented ==
  /\ Identifiable
  /\ \E units \in SUBSET Units : \E path \in SetToSeqs(units) : MainPath(path)

\* A device with one of the documented structures, in whatever order it
\* describes its entities, gets one chain with all of them.
DocumentedFound ==
  pc \in {"done", "failed"} /\ Documented =>
    /\ Len(chains) = 1
    /\ ToSet(chains[1]) = DOMAIN entities

\* "if we just take the entities we can find and put them together in the most
\* sensible chain we can think of, turns out they do work anyway" (line 1784):
\* no device with one input terminal, one output terminal and at most one
\* processing unit is refused, wherever its references lead.  A unit of a
\* privacy GPIO and unknown terminals are excepted.
RescuedByFallback ==
  pc = "failed" =>
    ~(/\ Cardinality(OfType({"IT"})) = 1 /\ Cardinality(OutputTerminals) = 1
      /\ Cardinality(OfType({"PU"})) <= 1 /\ OfType({"EXT", "GPIO"}) = {})

\* Every scan ends, also on references that run in circles.
EveryScanEnds == <>(pc \in {"done", "failed", "enomem"})
===============================================================================
