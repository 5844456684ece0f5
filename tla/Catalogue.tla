----------------------------- MODULE Catalogue -----------------------------
(***************************************************************************)
(* The catalogue of standards as the import scripts, the split of the GRI  *)
(* umbrella into attachable leaf standards and the platform admins write   *)
(* it: standards, disclosures, requirement items, shared elements and the  *)
(* mappings between the last two (src/backend/scripts).                    *)
(*                                                                         *)
(* A script imports a batch of documents, each in a transaction of its     *)
(* own; admins edit between two documents.  A row is never deleted, it     *)
(* stops being current.  A dry run rolls back and is no step.              *)
(***************************************************************************)
EXTENDS Naturals, FiniteSets, Functions

CONSTANTS
  Editions,   \* [script, standard, disclosures : [section, code, items : code -> text]]
  Umbrella,   \* the standard that is split by its sections
  ElementOf,  \* the code of the shared element of an item code
  NoText,
  MaxVersion, \* of a mapping
  MaxRuns,    \* runs of scripts
  MaxEdits    \* edits by admins

VARIABLES
  standards,    \* codes of the standards, and whether each is active
  disclosures,  \* rows [standard, code, section]
  items,        \* rows [standard, disclosure, code, copy, text, current]
  elements,     \* the text of each shared element
  mappings,     \* rows [item, element, version, current]
  batch,        \* the script that runs and the documents it has left
  count         \* of runs and edits

vars == <<standards, disclosures, items, elements, mappings, batch, count>>
catalogue == <<standards, disclosures, items, elements, mappings>>

Scripts == {"gri", "gri2", "gri3", "sector", "esrs", "esrs2", "sasb", "law"}
Codes == DOMAIN ElementOf
Quiet == [script |-> "none", left |-> {}]

Id(row) == [standard |-> row.standard, disclosure |-> row.disclosure,
            code |-> row.code, copy |-> row.copy]
Current(rows) == {r \in rows : r.current}
RowsOf(st, d) == {r \in items : r.standard = st /\ r.disclosure = d}
MappingsOf(rows) == {m \in mappings : m.item \in {Id(r) : r \in rows}}
Retired(rows) == {[r EXCEPT !.current = FALSE] : r \in rows}

TypeOK ==
  /\ \A st \in DOMAIN standards : standards[st] \in BOOLEAN
  /\ \A d \in disclosures : d.standard \in DOMAIN standards
  /\ \A r \in items : r.code \in Codes /\ r.copy \in Nat /\ r.current \in BOOLEAN
  /\ DOMAIN elements = Range(ElementOf)
  /\ \A m \in mappings : m.version \in 1..MaxVersion /\ m.item \in {Id(r) : r \in items}
  /\ batch.script \in Scripts \cup {"none"} /\ batch.left \subseteq Editions
  /\ count.runs \in 0..MaxRuns /\ count.edits \in 0..MaxEdits

Init ==
  /\ standards = [st \in {} |-> TRUE]
  /\ disclosures = {} /\ items = {} /\ mappings = {}
  /\ elements = [e \in Range(ElementOf) |-> NoText]
  /\ batch = Quiet /\ count = [runs |-> 0, edits |-> 0]

\* uq_current_mapping_per_pair and uq_item_shared_element_version
Unique(rows) ==
  \A m, n \in rows : m # n /\ m.item = n.item /\ m.element = n.element =>
    m.version # n.version /\ ~(m.current /\ n.current)

-----------------------------------------------------------------------------
(* One document.                                                           *)

\* The GRI scripts leave an existing standard as it is, the others activate it.
StandardKept(st) ==
  [x \in DOMAIN standards \cup {st} |-> IF x \in DOMAIN standards THEN standards[x] ELSE TRUE]
StandardActivated(st) == [StandardKept(st) EXCEPT ![st] = TRUE]

WrittenDisclosures(e) ==
  {d \in disclosures : ~(d.standard = e.standard /\ d.code \in {x.code : x \in e.disclosures})}
  \cup {[standard |-> e.standard, code |-> x.code, section |-> x.section] : x \in e.disclosures}

Written(e, x) == Current(RowsOf(e.standard, x.code))
NextCopy(st, d, c) == Cardinality({r \in RowsOf(st, d) : r.code = c}) + 1

\* upsert_requirement_item: the current row is rewritten, or one is added.
Upserted(e, x) ==
  {[r EXCEPT !.text = x.items[r.code]] : r \in {q \in Written(e, x) : q.code \in DOMAIN x.items}}
  \cup {[standard |-> e.standard, disclosure |-> x.code, code |-> c,
         copy |-> NextCopy(e.standard, x.code, c), text |-> x.items[c], current |-> TRUE] :
        c \in DOMAIN x.items \ {r.code : r \in Written(e, x)}}

\* Mutant: an item that is missing from the document stays.
StaleKept(e, x) == {}

\* deactivate_stale_requirement_items
Stale(e, x) == {r \in Written(e, x) : r.code \notin DOMAIN x.items}

\* upsert_shared_element: the element is called what its item is called.
Elements(upserted) ==
  [el \in DOMAIN elements |->
     IF \E r \in upserted : ElementOf[r.code] = el
     THEN (CHOOSE r \in upserted : ElementOf[r.code] = el).text ELSE elements[el]]

\* ensure_mapping
Mapped(rows) ==
  {[item |-> Id(r), element |-> ElementOf[r.code], version |-> 1, current |-> TRUE] :
     r \in {q \in rows : ~\E m \in Current(mappings) :
                           m.item = Id(q) /\ m.element = ElementOf[q.code]}}

\* scalar_one_or_none: two current rows of one code end the transaction.
Ambiguous(e) ==
  \E x \in e.disclosures : \E r, q \in Written(e, x) :
    r # q /\ r.code = q.code /\ r.code \in DOMAIN x.items

\* shared is FALSE for --no-shared-elements.
Document(e, shared) ==
  LET upserted == UNION {Upserted(e, x) : x \in e.disclosures}
      stale == UNION {Stale(e, x) : x \in e.disclosures}
      staleMappings == Current(MappingsOf(stale))
      written == UNION {Written(e, x) : x \in e.disclosures}
  IN /\ ~Ambiguous(e)
     /\ disclosures' = WrittenDisclosures(e)
     /\ items' = (items \ {r \in written : r \in stale \/ r.code \in {u.code : u \in upserted}})
                 \cup upserted \cup Retired(stale)
     /\ elements' = IF shared THEN Elements(upserted) ELSE elements
     /\ mappings' = (mappings \ staleMappings) \cup Retired(staleMappings)
                    \cup (IF shared THEN Mapped(upserted) ELSE {})
     /\ Unique(mappings')

Keeps(e, shared) == standards' = StandardKept(e.standard) /\ Document(e, shared)
Activates(e, shared) == standards' = StandardActivated(e.standard) /\ Document(e, shared)

ImportGri(e, shared) == e.script = "gri" /\ Keeps(e, shared)
ImportGri2(e, shared) == e.script = "gri2" /\ Keeps(e, shared)
ImportGri3(e, shared) == e.script = "gri3" /\ Keeps(e, shared)
ImportSector(e, shared) == e.script = "sector" /\ Keeps(e, shared)
ImportEsrs(e, shared) == e.script = "esrs" /\ Activates(e, shared)
ImportEsrs2(e, shared) == e.script = "esrs2" /\ Activates(e, shared)
ImportSasb(e, shared) == e.script = "sasb" /\ Activates(e, shared)
ImportLaw(e, shared) == e.script = "law" /\ Activates(e, shared)

-----------------------------------------------------------------------------
(* A run of a script.                                                      *)

StartFolder(script, docs) ==
  /\ count.runs < MaxRuns /\ count' = [count EXCEPT !.runs = @ + 1]
  /\ batch = Quiet /\ docs # {}
  /\ \E shared \in BOOLEAN, skip \in BOOLEAN :
       /\ skip => script = "sasb"
       /\ batch' = [script |-> script, left |-> docs,
                    shared |-> shared, skip |-> skip]
  /\ UNCHANGED catalogue

After(e) == IF batch.left = {e} THEN Quiet ELSE [batch EXCEPT !.left = @ \ {e}]

ImportNext(e) ==
  /\ e \in batch.left
  /\ ~(batch.skip /\ e.standard \in DOMAIN standards)
  /\ \/ ImportGri(e, batch.shared) \/ ImportGri2(e, batch.shared)
     \/ ImportGri3(e, batch.shared) \/ ImportSector(e, batch.shared)
     \/ ImportEsrs(e, batch.shared) \/ ImportEsrs2(e, batch.shared)
     \/ ImportSasb(e, batch.shared) \/ ImportLaw(e, batch.shared)
  /\ batch' = After(e)
  /\ UNCHANGED count

SkipNext(e) ==
  /\ e \in batch.left /\ batch.skip /\ e.standard \in DOMAIN standards
  /\ batch' = After(e)
  /\ UNCHANGED <<catalogue, count>>

\* A document that cannot be imported is rolled back and reported, and the next
\* one follows.
FailNext(e) ==
  /\ e \in batch.left /\ e.script \in {"gri", "sector", "sasb"} /\ Ambiguous(e)
  /\ batch' = After(e)
  /\ UNCHANGED <<catalogue, count>>

\* The other scripts end with the exception.
Crash(e) ==
  /\ e \in batch.left /\ e.script \notin {"gri", "sector", "sasb"} /\ Ambiguous(e)
  /\ batch' = Quiet
  /\ UNCHANGED <<catalogue, count>>

-----------------------------------------------------------------------------
(* The leaf standards.                                                     *)

Umbrellas == {d \in disclosures : d.standard = Umbrella}
Leaves == {d.section : d \in Umbrellas}
Sources == Current({r \in items : r.standard = Umbrella})
LeafOf(r) ==
  (CHOOSE d \in Umbrellas : d.code = r.disclosure).section

\* item_key
Twins(r) == {q \in Sources : q.disclosure = r.disclosure /\ q.code = r.code}

\* copy_requirement_items: the row of the leaf that stands for an item.
Targets(r) ==
  LET found == {q \in Current(RowsOf(LeafOf(r), r.disclosure)) : q.code = r.code}
  IN IF found = {}
     THEN {[standard |-> LeafOf(r), disclosure |-> r.disclosure, code |-> r.code,
            copy |-> NextCopy(LeafOf(r), r.disclosure, r.code),
            text |-> r.text, current |-> TRUE]}
     ELSE {[q EXCEPT !.text = r.text] : q \in found}

CopiesOf(sources, target) ==
  {[m EXCEPT !.item = Id(target[m.item])] :
     m \in {n \in Current(mappings) :
       /\ n.item \in {Id(r) : r \in sources}
       /\ ~\E old \in mappings : /\ old.item = Id(target[n.item]) /\ old.element = n.element
                                 /\ old.version = n.version}}

\* Mutant: the mappings of items the leaf already has are not looked at.
CopiedOfNew(target) ==
  CopiesOf({r \in Sources : Id(target[Id(r)]) \notin {Id(q) : q \in items}}, target)

\* A current mapping is copied unless the leaf has, or had, that version of it.
CopiedMappings(target) == CopiesOf(Sources, target)

Split ==
  /\ Umbrella \in DOMAIN standards
  /\ UNCHANGED <<elements, batch, count>>
  /\ standards' = [st \in DOMAIN standards \cup Leaves |->
                     IF st \in Leaves THEN standards[Umbrella] ELSE standards[st]]
  /\ disclosures' =
       {d \in disclosures : ~\E u \in Umbrellas : d.standard = u.section /\ d.code = u.code}
       \cup {[u EXCEPT !.standard = u.section] : u \in Umbrellas}
  /\ \E target \in [{Id(r) : r \in Sources} -> UNION {Targets(r) : r \in Sources}] :
       \* Two rows of one code meet in one row of the leaf, which the last of them rewrites.
       /\ \A r \in Sources :
            /\ \A q \in Twins(r) : target[Id(q)] = target[Id(r)]
            /\ target[Id(r)] \in UNION {Targets(q) : q \in Twins(r)}
       /\ items' = {r \in items : Id(r) \notin {Id(target[x]) : x \in DOMAIN target}}
                   \cup Range(target)
       /\ mappings' = mappings \cup CopiedMappings(target)
  /\ Unique(mappings')

-----------------------------------------------------------------------------
(* The platform's admins.                                                  *)

Edits == count.edits < MaxEdits /\ count' = [count EXCEPT !.edits = @ + 1]

CreateItem(d, c, text) ==
  /\ Edits
  /\ items' = items \cup {[standard |-> d.standard, disclosure |-> d.code, code |-> c,
                           copy |-> NextCopy(d.standard, d.code, c),
                           text |-> text, current |-> TRUE]}
  /\ UNCHANGED <<standards, disclosures, elements, mappings, batch>>

\* A mapping to the element of the item's own code, for any row.
CreateMapping(r) ==
  LET el == ElementOf[r.code]
      old == {m \in Current(mappings) : m.item = Id(r) /\ m.element = el}
      version == IF old = {} THEN 1 ELSE (CHOOSE m \in old : TRUE).version + 1
  IN /\ Edits /\ elements[el] # NoText /\ version <= MaxVersion
     /\ mappings' = (mappings \ old) \cup Retired(old)
                    \cup {[item |-> Id(r), element |-> el, version |-> version, current |-> TRUE]}
     /\ Unique(mappings')
     /\ UNCHANGED <<standards, disclosures, items, elements, batch>>

SetActive(st, active) ==
  /\ Edits
  /\ standards[st] # active /\ standards' = [standards EXCEPT ![st] = active]
  /\ UNCHANGED <<disclosures, items, elements, mappings, batch>>

Next ==
  \/ Split
  \/ \E script \in Scripts :
       \E docs \in SUBSET {e \in Editions : e.script = script} : StartFolder(script, docs)
  \/ \E e \in Editions : ImportNext(e) \/ SkipNext(e) \/ FailNext(e) \/ Crash(e)
  \/ \E d \in disclosures, c \in Codes : CreateItem(d, c, NoText)
  \/ \E r \in items : CreateMapping(r)
  \/ \E st \in DOMAIN standards, active \in BOOLEAN : SetActive(st, active)

Spec == Init /\ [][Next]_vars

-----------------------------------------------------------------------------
MappedTo(r, el) == \E m \in Current(mappings) : m.item = Id(r) /\ m.element = el

\* The catalogue says what the document says: one current row for each of its
\* items, with its text, and no other.
Says(e) ==
  \A x \in e.disclosures :
    /\ [section |-> x.section, code |-> x.code, standard |-> e.standard] \in disclosures
    /\ {<<r.code, r.text>> : r \in Written(e, x)} = {<<c, x.items[c]>> : c \in DOMAIN x.items}
    /\ Cardinality(Written(e, x)) = Cardinality(DOMAIN x.items)

Shares(e) ==
  \A x \in e.disclosures : \A r \in Written(e, x) : MappedTo(r, ElementOf[r.code])

\* Whatever admins did between two documents, an import leaves the catalogue as the
\* document says, an item it retires is mapped to nothing, and a second import of
\* the document changes no item and no mapping.
ImportsAreExact ==
  \A e \in Editions : ImportNext(e) =>
    /\ Says(e)' /\ (batch.shared => Shares(e)')
    /\ \A r \in Current(items) : r \notin items' /\ Id(r) \notin {Id(q) : q \in Current(items')} =>
         ~\E m \in Current(mappings') : m.item = Id(r)
    /\ Says(e) /\ Shares(e) => UNCHANGED <<items, mappings>>

\* After a split every current item of the umbrella stands in its leaf, with the
\* text of a current row and mapped to the same elements, whichever versions admins
\* gave the mappings of either.
SplitCoversItems ==
  Split => \A r \in Sources :
    \E q \in Current(items') :
      /\ q.standard = LeafOf(r) /\ q.disclosure = r.disclosure /\ q.code = r.code
      /\ q.text \in {x.text : x \in Sources}
      /\ MappedTo(r, ElementOf[r.code]) =>
           \E m \in Current(mappings') : m.item = Id(q) /\ m.element = ElementOf[r.code]

CatalogueFollows == [][ImportsAreExact /\ SplitCoversItems]_vars
=============================================================================
