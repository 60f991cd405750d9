---------------------------- MODULE ContentIdentity ----------------------------
(***************************************************************************)
(* Content identities and the customer incapability catalog: a catalog, a  *)
(* release unit that names it, and the binding of the two, verified by     *)
(* internal/contracts/canonical/identity.go and by the TypeScript that     *)
(* client_templates.py writes, before a registrar keeps the association.   *)
(*                                                                         *)
(* A document has a type, a projection and members by name.  A digest is   *)
(* what it digests: the type and the members that are not excluded.  The   *)
(* version, encoder and domain of a projection follow from its type.       *)
(***************************************************************************)
EXTENDS Naturals, Sequences, FiniteSets

CONSTANTS
  Items,          \* contents of catalogs: sequences of sort keys
  Registries,     \* source registries a catalog may be made from
  Projections     \* release units' projections: [excluded, equivalent]

ASSUME IdentityAssumption == \A items \in Items : items \in Seq(Nat)

VARIABLES
  registered,        \* the associations a registrar with the Go verifier has kept
  scriptRegistered   \* and one with the TypeScript verifier, asked the same

identityVars == <<registered, scriptRegistered>>

-----------------------------------------------------------------------------
(* Documents and their identity.                                             *)

Stored == {"id", "logical_payload_sha256", "logical_payload_projection"}

\* The projections that are frozen: the catalog's, the binding's and a release unit's.
FrozenOf(type) ==
  IF type = "release_unit"
    THEN [excluded |-> Stored \cup {"content_sha256", "signature_envelope_hash"}, equivalent |-> {}]
    ELSE [excluded |-> Stored \cup {"hash"}, equivalent |-> {"hash"}]

Digest(doc) ==
  [type |-> doc.type,
   covered |-> [m \in DOMAIN doc.members \ doc.projection.excluded |-> doc.members[m]]]

\* VerifyContentIdentity.
IdentityHolds(doc) ==
  LET projection == doc.projection IN
  /\ Stored \subseteq projection.excluded
  /\ projection.equivalent \subseteq projection.excluded
  /\ \A field \in {"id", "logical_payload_sha256"} \cup projection.equivalent :
       field \in DOMAIN doc.members /\ doc.members[field] = Digest(doc)

\* A document whose identity members are computed, as its author would.
Identified(type, projection, members) ==
  LET computed == {"id", "logical_payload_sha256"} \cup projection.equivalent
      digest == [type |-> type, covered |-> [m \in DOMAIN members \ projection.excluded |-> members[m]]]
  IN [type |-> type, projection |-> projection,
      members |-> [m \in computed \cup DOMAIN members |->
                     IF m \in computed THEN digest ELSE members[m]]]

-----------------------------------------------------------------------------
(* The three verifiers.                                                      *)

Ascending(items) == \A i \in 1..(Len(items) - 1) : items[i] < items[i + 1]

\* Mutant: the catalog's own projection is believed.
CatalogHoldsProjected(doc) ==
  /\ {"id", "hash", "logical_payload_sha256", "items"} \subseteq DOMAIN doc.members
  /\ doc.members.items # <<>>
  /\ IdentityHolds(doc)
  /\ Ascending(doc.members.items)

\* VerifyCustomerIncapabilityCatalog.
CatalogHolds(doc) ==
  /\ DOMAIN doc.members = {"id", "hash", "logical_payload_sha256", "source_registry_hash", "items"}
  /\ doc.type = "catalog" /\ doc.projection = FrozenOf("catalog")
  /\ doc.members.items # <<>>
  /\ IdentityHolds(doc)
  /\ Ascending(doc.members.items)

\* VerifyCustomerIncapabilityCatalogBinding.
BindingHolds(doc) ==
  /\ DOMAIN doc.members = {"id", "hash", "logical_payload_sha256", "release_unit_id",
                           "release_unit_hash", "catalog_id", "catalog_hash", "source_registry_hash"}
  /\ doc.type = "binding" /\ doc.projection = FrozenOf("binding")
  /\ doc.members.release_unit_id = doc.members.release_unit_hash
  /\ doc.members.catalog_id = doc.members.catalog_hash
  /\ IdentityHolds(doc)

\* What the frozen schema of a release unit, checked before, says of its projection.
UnitSchemaValid(doc) == doc.type = "release_unit" /\ doc.projection = FrozenOf("release_unit")

\* VerifyCustomerIncapabilityCatalogAssociation: of the unit's members only those of the
\* catalog's kind are kept here.
Associated(catalog, binding, unit) ==
  /\ CatalogHolds(catalog) /\ BindingHolds(binding) /\ IdentityHolds(unit)
  /\ binding.members.release_unit_id = unit.members.id
  /\ binding.members.release_unit_hash = unit.members.id
  /\ binding.members.catalog_id = catalog.members.id
  /\ binding.members.catalog_hash = catalog.members.hash
  /\ binding.members.source_registry_hash = catalog.members.source_registry_hash
  /\ unit.members.catalog_hash = catalog.members.hash
  /\ unit.members.catalog_registry_hash = catalog.members.source_registry_hash
  /\ Len(unit.members.members) = 1
  /\ unit.members.members[1] = [object |-> catalog.members.id, content |-> catalog.members.hash]

\* verifyContentIdentity and the catalog verifiers of the TypeScript templates: exact keys,
\* order and identity in the order the script checks them.
ScriptIdentityHolds(doc) ==
  /\ \A field \in Stored \cup doc.projection.equivalent : field \in doc.projection.excluded
  /\ \A field \in doc.projection.equivalent \cup {"id", "logical_payload_sha256"} :
       field \in DOMAIN doc.members /\ Digest(doc) = doc.members[field]

ScriptCatalogHolds(doc) ==
  /\ doc.type = "catalog"
  /\ {"id", "hash", "logical_payload_sha256", "source_registry_hash", "items"} = DOMAIN doc.members
  /\ doc.projection = FrozenOf("catalog")
  /\ Len(doc.members.items) >= 1
  /\ ~ \E i \in 2..Len(doc.members.items) : doc.members.items[i] <= doc.members.items[i - 1]
  /\ ScriptIdentityHolds(doc)

ScriptAssociated(catalog, binding, unit) ==
  /\ ScriptCatalogHolds(catalog)
  /\ BindingHolds(binding)
  /\ ScriptIdentityHolds(unit)
  /\ binding.members.release_unit_id = unit.members.id /\ binding.members.release_unit_hash = unit.members.id
  /\ binding.members.catalog_id = catalog.members.id /\ binding.members.catalog_hash = catalog.members.hash
  /\ binding.members.source_registry_hash = catalog.members.source_registry_hash
  /\ unit.members.catalog_hash = catalog.members.hash
  /\ unit.members.catalog_registry_hash = catalog.members.source_registry_hash
  /\ \E only \in DOMAIN unit.members.members :
       /\ DOMAIN unit.members.members = {only}
       /\ unit.members.members[only].object = catalog.members.id
       /\ unit.members.members[only].content = catalog.members.hash

-----------------------------------------------------------------------------
(* The documents the registrar is asked about.                               *)

\* A catalog may come with a projection of its own.
CatalogProjections ==
  {FrozenOf("catalog"), [excluded |-> Stored \cup {"hash", "items"}, equivalent |-> {"hash"}]}

Catalogs ==
  {Identified("catalog", projection, [items |-> items, source_registry_hash |-> registry]) :
     projection \in CatalogProjections, items \in Items, registry \in Registries}

\* A unit that names a catalog, once, twice or not at all, for the catalog or for another.
ReleaseUnits(catalog) ==
  LET entry == [object |-> catalog.members.id, content |-> catalog.members.hash] IN
  {Identified("release_unit", projection,
     [catalog_hash |-> catalog.members.hash, members |-> members,
      catalog_registry_hash |-> catalog.members.source_registry_hash]) :
     projection \in Projections, members \in {<<entry>>, <<entry, entry>>, <<>>}}

Bindings(catalog, unit) ==
  {Identified("binding", FrozenOf("binding"),
     [release_unit_id |-> unit.members.id, release_unit_hash |-> unit.members.id,
      catalog_id |-> catalog.members.id, catalog_hash |-> catalog.members.hash,
      source_registry_hash |-> registry]) : registry \in Registries}

\* A document as it is, or with a member changed after its identity was computed.
Tampered(doc, field, value) == [doc EXCEPT !.members[field] = value]

IdentityInit == registered = {} /\ scriptRegistered = {}

\* The registrars are asked to keep an association, and do when it holds.
Ask(catalog, binding, unit) ==
  LET association == <<catalog, binding, unit>> IN
  /\ UnitSchemaValid(unit)
  /\ registered' = registered \cup {a \in {association} : Associated(catalog, binding, unit)}
  /\ scriptRegistered' =
       scriptRegistered \cup {a \in {association} : ScriptAssociated(catalog, binding, unit)}

IdentityNext ==
  \E catalog, other \in Catalogs : \E unit \in ReleaseUnits(other) : \E binding \in Bindings(other, unit) :
    \/ Ask(catalog, binding, unit)
    \/ \E items \in Items : Ask(Tampered(catalog, "items", items), binding, unit)
    \/ Ask(catalog, binding, Tampered(unit, "catalog_hash", catalog.members.hash))

IdentitySpec == IdentityInit /\ [][IdentityNext]_identityVars

-----------------------------------------------------------------------------

\* Both runtimes keep and refuse the same associations.
RuntimesAgree == registered = scriptRegistered

\* An identity names one content: associations that share a catalog's or a unit's identity
\* share the catalog, and a unit has one catalog for good, whatever documents were altered,
\* re-identified or made to exclude more than their schema does in between.
OneCatalogPerIdentity ==
  \A a, b \in registered :
    /\ a[1].members.id = b[1].members.id => a[1].members.items = b[1].members.items
    /\ a[3].members.id = b[3].members.id => a[1] = b[1] /\ a[3].members = b[3].members
=============================================================================
