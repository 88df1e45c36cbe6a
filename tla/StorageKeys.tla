----------------------------- MODULE StorageKeys -----------------------------
(***************************************************************************)
(* The key of every cell of the persistent store (storage/key.rs).  A key  *)
(* is text: '/'-joined segments, compared byte by byte.  It is a sequence   *)
(* of letter codes here.  A segment is spelled with as few letters as keep  *)
(* what order and prefixes depend on: '-' sorts before '/', both before      *)
(* every letter, and "flow" is a proper prefix of "flowversion".  The scope *)
(* segments every key starts with are the same for all and left out.       *)
(***************************************************************************)
EXTENDS StoreContents

Dash == 0
Slash == 1

\* Kind::segment and the reserved spellings, in byte order.
Segment(s) ==
    CASE s = "_global"     -> <<20>>
      [] s = "_index"      -> <<21>>
      [] s = "activity"    -> <<22>>
      [] s = "children"    -> <<23>>
      [] s = "execution"   -> <<24>>
      [] s = "flow"        -> <<25>>
      [] s = "flowversion" -> <<25, 30>>
      [] s = "position"    -> <<26>>
      [] s = "seq"         -> <<27>>
      [] s = "task"        -> <<28>>
      [] s = "thread"      -> <<29>>
      [] s = "variables"   -> <<31>>

\* A name's own spelling: the base, then "-<suffix>" for a generated one.  "run" is
\* a proper prefix of "runs".  Suffixes stay below ten, where decimal text sorts as
\* the number does.
Letters(base) ==
    CASE base = "flow" -> <<40>>
      [] base = "run"  -> <<41>>
      [] base = "runs" -> <<41, 42>>

Spell(name) ==
    IF Len(name) = 1 THEN Letters(name[1]) ELSE Letters(name[1]) \o <<Dash, 2 + name[2]>>

\* join: each segment after a '/'.
Under(prefix, segment) == prefix \o <<Slash>> \o segment

\* KeyBuilder::row and the per-kind builders on top of it.
RowKey(ref) == Under(Under(<<>>, Segment(ref[1])), Spell(ref[2]))

\* task_prefix and kind_prefix: an empty last segment leaves a trailing '/'.
KindPrefix(kind) == Under(Under(<<>>, Segment(kind)), <<>>)

\* The range of a parent's edges, up to and without the last '/'.
Children(parent) ==
    Under(Under(Under(Under(<<>>, Segment("_index")), Segment("children")),
                Segment(parent[1])), Spell(parent[2]))

ChildEdgePrefix(parent) == Under(Children(parent), <<>>)

ChildEdge(parent, child) ==
    Under(Under(Children(parent), Segment(child[1])), Spell(child[2]))

VariablesKey(thread) ==
    Under(Under(Under(<<>>, Segment("_index")), Segment("variables")), Spell(thread))

PositionKey == Under(Under(<<>>, Segment("_global")), Segment("position"))

SeqKey == Under(Under(<<>>, Segment("_global")), Segment("seq"))

\* Byte order: the order a RocksDB iterator visits keys in.
KeyBefore(a, b) ==
    \E i \in 1..Len(b) :
        /\ i > Len(a) \/ a[i] < b[i]
        /\ \A j \in 1..(i - 1) : j <= Len(a) /\ a[j] = b[j]

=============================================================================
