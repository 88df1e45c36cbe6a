-------------------------------- MODULE Wire ---------------------------------
(***************************************************************************)
(* The identity of an object as it is written and read: ObjectMeta and its  *)
(* typed owner slot (engine-types/types/meta.rs).  A written reference has   *)
(* the kind, the name's text and the uid; a written meta has these and, when *)
(* the object is owned, its owner's reference.                              *)
(***************************************************************************)
EXTENDS Names

\* The OwnedBy of each kind: the kinds its owner slot admits, none for a root.
OwnedBy(kind) ==
    CASE kind \in {"Flow", "Execution"} -> {}
      [] kind = "FlowVersion"           -> {"Flow"}
      [] kind = "Thread"                -> {"Execution", "Activity"}
      [] kind = "Activity"              -> {"Thread"}
      [] kind = "Task"                  -> {"Activity"}

Ref(kind, name, uid) == [kind |-> kind, name |-> name, uid |-> uid]

\* ObjectMetaBuilder: an identity and what owns it, a set of at most one reference.
Meta(kind, name, uid, owner) == [kind |-> kind, name |-> name, uid |-> uid, owner |-> owner]

RefOf(meta) == Ref(meta.kind, meta.name, meta.uid)

EncodeRef(ref) == [ref EXCEPT !.name = AsStr(ref.name)]

\* RawObjectRef's Deserialize, then the check of the slot's kinds: ObjectRef::try_from
\* for a slot of one kind, the union's match for several.
DecodeRef(admitted, wire) ==
    { Ref(wire.kind, n, wire.uid) : n \in { x \in FromParsed(wire.name) : wire.kind \in admitted } }

\* Serialize: an absent owner is left out.
EncodeMeta(meta) ==
    [meta EXCEPT !.name = AsStr(meta.name), !.owner = { EncodeRef(o) : o \in meta.owner }]

\* KindTag, MetaRepr and OwnerKindMarker::from_wire: the kind must be the reader's own, a
\* root's slot reads no owner, every other slot needs one it admits.
DecodeOwner(kind, owner) ==
    IF OwnedBy(kind) = {}
    THEN IF owner = {} THEN {{}} ELSE {}
    ELSE { {o} : o \in UNION { DecodeRef(OwnedBy(kind), w) : w \in owner } }

MutDecodeMeta(kind, wire) ==
    { Meta(kind, n, wire.uid, o) :
        n \in FromParsed(wire.name), o \in DecodeOwner(kind, wire.owner) }

DecodeMeta(kind, wire) ==
    IF wire.kind # kind THEN {}
    ELSE { Meta(kind, n, wire.uid, o) :
             n \in FromParsed(wire.name), o \in DecodeOwner(kind, wire.owner) }
=============================================================================
