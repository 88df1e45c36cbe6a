------------------------------- MODULE Catalog -------------------------------
(***************************************************************************)
(* What a client of the server reads and names: flows and executions are     *)
(* created and runs grow rows, while one client session pages through a kind *)
(* (Query API), or follows a run's state paths through the definition it was  *)
(* started with.  The store is the in-memory one: it holds every row as it is  *)
(* written, by kind and name text.                                          *)
(***************************************************************************)
EXTENDS Wire, StatePaths, FiniteSets, TLC

CONSTANTS Raws,          \* the name texts clients send
          Documents,     \* the definitions clients send: a sequence of scopes
          Limits,        \* the page limits clients ask for
          DefaultLimit,  \* DEFAULT_LIST_LIMIT, 100 in the code
          MaxRows        \* bound on the rows written

VARIABLES store,     \* kind -> name text -> the row as written
          seq,       \* the persisted counter of generated names
          minted,    \* how many uids were minted
          session    \* what the client is in the middle of

vars == <<store, seq, minted, session>>

Idle == [mode |-> "idle"]

Rows == UNION { { <<k, t>> : t \in DOMAIN store[k] } : k \in Kinds }

\* A row: its meta as written and the one number of its own that is read back, the
\* definition of a version, the version's uid of an execution.
Row(meta, data) == [meta |-> EncodeMeta(meta), data |-> data]

Put(meta, data, s) == [s EXCEPT ![meta.kind] = (AsStr(meta.name) :> Row(meta, data)) @@ @]

MetaAt(kind, text) == CHOOSE m \in DecodeMeta(kind, store[kind][text].meta) : TRUE

Init == /\ store = [k \in Kinds |-> << >>]
        /\ seq = 0
        /\ minted = 0
        /\ session = Idle

-----------------------------------------------------------------------------
(* The rows. *)

\* Bound on the rows.
Room(n) == Cardinality(Rows) + n <= MaxRows

\* Engine::create_flow and the handler behind it: a new flow and its version 1.
CreateFlow(raw, d) ==
    /\ Room(2)
    /\ \E name \in PlainName(raw) :
         /\ AsStr(name) \notin DOMAIN store.Flow
         /\ LET flow    == Meta("Flow", name, minted + 1, {})
                version == Meta("FlowVersion", GeneratedFromKey(BaseName(name), 1),
                                minted + 2, {RefOf(flow)})
            IN  store' = Put(version, d, Put(flow, 1, store))
    /\ minted' = minted + 2
    /\ UNCHANGED <<seq, session>>

\* resolve_version_id: 0 is the flow's newest version, a number that version.
Resolve(text, version) ==
    LET number == IF version = 0 THEN store.Flow[text].data ELSE version
        named  == AsStr(GeneratedFromKey(text, number))
    IN  IF text \notin DOMAIN store.Flow \/ named \notin DOMAIN store.FlowVersion
        THEN {}
        ELSE { RefOf(MetaAt("FlowVersion", named)) }

\* parse_ref of the reference a client was given, printed and typed in again.
Retyped(text) ==
    { Ref("FlowVersion", n, DecimalValue(parts[3])) :
        parts \in { p \in ParseReference(text) : "FlowVersion" \in ParseKind(p[1]) },
        n \in UNION { FromParsed(p[2]) : p \in ParseReference(text) } }

\* StartExecution and create_execution: the run and its root thread.
StartExecution(raw, target) ==
    /\ Room(2)
    /\ AsStr(target.name) \in DOMAIN store.FlowVersion
    /\ \E name \in PlainName(raw) :
         /\ AsStr(name) \notin DOMAIN store.Execution
         /\ LET run  == Meta("Execution", name, minted + 1, {})
                root == Meta("Thread", GeneratedFromKey(BaseName(name), seq),
                             minted + 2, {RefOf(run)})
            IN  store' = Put(root, 0, Put(run, target.uid, store))
    /\ minted' = minted + 2
    /\ seq' = seq + 1
    /\ UNCHANGED session

StartByReference(raw) ==
    \E text \in DOMAIN store.FlowVersion :
        LET v == MetaAt("FlowVersion", text)
        IN  \E target \in Retyped(ReferenceStr(v.kind, v.name, v.uid)) :
                StartExecution(raw, target)

StartByName(raw, version) ==
    \E text \in DOMAIN store.Flow : \E target \in Resolve(text, version) :
        StartExecution(raw, target)

\* A run grows: an activity of a thread, a task or a fan-out thread of an activity.
Spawn(kind) ==
    /\ Room(1)
    /\ \E ownerKind \in OwnedBy(kind) \ {"Flow", "Execution"} :
         \E text \in DOMAIN store[ownerKind] :
           LET owner == MetaAt(ownerKind, text)
               name  == GeneratedFromKey(BaseName(owner.name), seq)
           IN  store' = Put(Meta(kind, name, minted + 1, {RefOf(owner)}), 0, store)
    /\ minted' = minted + 1
    /\ seq' = seq + 1
    /\ UNCHANGED session

-----------------------------------------------------------------------------
(* Listing a kind: Query.ListObjects, page after page. *)

\* Storage::list_kind of the in-memory store: the rows of the kind after a name, in the
\* order of their text.  (RocksStore!RocksList is the scan of the other store, which does
\* not stop at the kind.)
FirstOnes(texts, limit) ==
    LET Page[n \in 0..limit] ==
            IF n = 0 THEN <<>>
            ELSE LET got  == Page[n - 1]
                     rest == texts \ { got[i] : i \in DOMAIN got }
                 IN  IF rest = {} THEN got
                     ELSE Append(got, CHOOSE t \in rest : \A u \in rest : u = t \/ TextBefore(t, u))
    IN  Page[limit]

MutListKind(kind, after, limit) ==
    FirstOnes({ t \in DOMAIN store[kind] : after = <<>> \/ ~TextBefore(t, after) }, limit)

ListKind(kind, after, limit) ==
    FirstOnes({ t \in DOMAIN store[kind] : after = <<>> \/ TextBefore(after, t) }, limit)

\* The first call of a listing, with an empty token.
ListObjects(kind, limit) ==
    /\ session = Idle
    /\ session' = [mode |-> "list", kind |-> kind, limit |-> limit, token |-> <<>>,
                   seen |-> <<>>, known |-> DOMAIN store[kind], done |-> FALSE]
    /\ UNCHANGED <<store, seq, minted>>

\* list_objects of the server, the engine and query::list_kind: one row more than the page
\* tells whether there is a next one; the token is the last name, read back by from_parsed.
NextPage ==
    /\ session.mode = "list" /\ ~session.done
    /\ LET limit == IF session.limit = 0 THEN DefaultLimit ELSE session.limit
           after == IF session.token = <<>> THEN <<>>
                    ELSE AsStr(CHOOSE n \in FromParsed(session.token) : TRUE)
           rows  == ListKind(session.kind, after, limit + 1)
           more  == Len(rows) > limit
           page  == IF more THEN SubSeq(rows, 1, limit) ELSE rows
           names == [i \in DOMAIN page |-> AsStr(MetaAt(session.kind, page[i]).name)]
       IN  session' = [session EXCEPT !.seen = @ \o names,
                                      !.token = IF more THEN names[Len(names)] ELSE <<>>,
                                      !.done = ~more]
    /\ UNCHANGED <<store, seq, minted>>

-----------------------------------------------------------------------------
(* Following a run's state paths.  Beside the path the session keeps where it  *)
(* really is: the table of states and the name in it.                        *)

At(doc, path, table, name) ==
    [mode |-> "walk", doc |-> doc, path |-> path, table |-> table, name |-> name]

Here == session.table[session.name]
Standing == session.mode = "walk" /\ session.name \in DOMAIN session.table

\* create_execution's root thread: the machine's own table, at its StartAt.
EnterRun ==
    /\ session = Idle
    /\ \E run \in DOMAIN store.Execution :
         \E v \in DOMAIN store.FlowVersion :
           /\ store.FlowVersion[v].meta.uid = store.Execution[run].data
           /\ LET d == store.FlowVersion[v].data
                  m == Documents[d]
              IN  session' = At(d, StatePath(RootPath, m.start), m.states, m.start)
    /\ UNCHANGED <<store, seq, minted>>

\* A transition, a branch of a Parallel and an item of a Map.
Transition ==
    /\ Standing /\ Here.next # ""
    /\ session' = [session EXCEPT !.path = Sibling(@, Here.next), !.name = Here.next]
    /\ UNCHANGED <<store, seq, minted>>

EnterBranch ==
    /\ Standing /\ Here.type = "Parallel"
    /\ \E i \in DOMAIN Here.branches :
         LET b == Here.branches[i]
         IN  session' = At(session.doc, StatePath(BranchPath(session.path, i - 1), b.start),
                           b.states, b.start)
    /\ UNCHANGED <<store, seq, minted>>

EnterItem ==
    /\ Standing /\ Here.type = "Map"
    /\ \E p \in Here.processor :
         session' = At(session.doc, StatePath(ItemProcessorPath(session.path), p.start),
                       p.states, p.start)
    /\ UNCHANGED <<store, seq, minted>>

EndSession ==
    /\ session # Idle
    /\ session.mode = "list" => session.done
    /\ session' = Idle
    /\ UNCHANGED <<store, seq, minted>>

Next ==
    \/ \E raw \in Raws, d \in DOMAIN Documents : CreateFlow(raw, d)
    \/ \E raw \in Raws : StartByReference(raw)
    \/ \E raw \in Raws, version \in 0..2 : StartByName(raw, version)
    \/ \E kind \in {"Thread", "Activity", "Task"} : Spawn(kind)
    \/ \E kind \in Kinds, limit \in Limits : ListObjects(kind, limit)
    \/ NextPage
    \/ EnterRun
    \/ Transition
    \/ EnterBranch
    \/ EnterItem
    \/ EndSession

Spec == Init /\ [][Next]_vars

-----------------------------------------------------------------------------
(* Properties. *)

\* A finished listing returned every row that was there when it began, each name once and
\* in order, and no name without a row, although rows were written between its pages: the
\* token of a page is the last name returned, not a position (engine/query.rs list_kind).
\* This is about the in-memory store: a scan of the committed RocksDB store runs on into
\* the next kinds (storage/rocks.rs list_kind), as ScanIsBoundToKind shows.
PagesAreComplete ==
    session.mode = "list" =>
        LET seen == session.seen
        IN  /\ \A i, j \in DOMAIN seen : i < j => TextBefore(seen[i], seen[j])
            /\ { seen[i] : i \in DOMAIN seen } \subseteq DOMAIN store[session.kind]
            /\ session.done => session.known \subseteq { seen[i] : i \in DOMAIN seen }

\* Every written row reads back as the object whose text it is stored under, and as no other
\* kind; its owner is a row of the same incarnation; an execution's version is one too; and
\* the reference a client prints for it names it when typed in again (types/meta.rs
\* ObjectMeta, ThreadOwner, client/lib.rs ObjectReference, server/common.rs parse_ref).
RowsReadBack ==
    \A row \in Rows :
        LET kind == row[1]
            wire == store[kind][row[2]].meta
        IN  /\ \A k \in Kinds : Cardinality(DecodeMeta(k, wire)) = IF k = kind THEN 1 ELSE 0
            /\ \A m \in DecodeMeta(kind, wire) :
                 /\ AsStr(m.name) = row[2]
                 /\ \A o \in m.owner :
                      /\ AsStr(o.name) \in DOMAIN store[o.kind]
                      /\ RefOf(MetaAt(o.kind, AsStr(o.name))) = o
                 /\ kind = "FlowVersion" =>
                      Retyped(ReferenceStr(kind, m.name, m.uid)) = {RefOf(m)}
                 /\ kind = "Execution" =>
                      \E v \in DOMAIN store.FlowVersion :
                          store.FlowVersion[v].meta.uid = store[kind][row[2]].data

\* Wherever a run has got to, its path resolves to the very state it stands on, and to
\* NotFound when the definition names a state it does not have; state names spelled as the
\* path's own words change nothing (asl/state_path.rs state_at and the path builders).
PathFindsItsState ==
    session.mode = "walk" =>
        StateAt(Documents[session.doc], session.path) =
            IF Standing THEN Found(Here) ELSE Fails("NotFound")
=============================================================================
