------------------------------ MODULE Projection ------------------------------
(***************************************************************************)
(* The projection at work: a leader folds the Events of each batch into a   *)
(* transaction while it decides them, appends the batch, commits; a restart *)
(* reads the log back and folds what the store has not got.  Both backends   *)
(* are driven in lock-step, each write going to either transaction.  The     *)
(* persistent one may lose its last commits with the power, for it does not  *)
(* fsync; the log does.  Reopened, the in-memory twin starts from the same    *)
(* contents.                                                               *)
(*                                                                         *)
(* What handlers decide is given: Steps names, for each kind of Command, the *)
(* Events its dispatch emits and the Commands that follow, and a history is   *)
(* a sequence of Commands clients send.  The handlers themselves are         *)
(* ExecutionTree's and TaskLease's subject.                                *)
(***************************************************************************)
EXTENDS MemoryStore, RocksStore, Appliers

CONSTANTS
    Steps,        \* step -> [emits, then, mints]: what dispatching it yields
    Histories,    \* sequences of steps clients ask for
    LeaseTime,    \* how long a claim holds a task
    MaxTime,      \* bound: the clock
    MaxCrashes,   \* bound: restarts, power losses among them
    MaxQueued,    \* bound: Commands waiting when a client sends one
    MaxFaults     \* bound: folds that fail while a batch is being decided

ASSUME ProjectionAssumption ==
    /\ \A h \in Histories : \A i \in 1..Len(h) : h[i] \in DOMAIN Steps
    /\ {LeaseTime, MaxTime, MaxCrashes, MaxQueued, MaxFaults} \subseteq Nat

VARIABLES
    log,       \* the durable log: entries [kind, body, at]
    phase,     \* "recovering" | "leading" | "appended"
    pos,       \* the position the driver reads next
    db, batch, \* the in-memory store and its transaction's batch
    kv, txn,   \* the persistent store and its transaction
    disk,      \* what kv falls back to when the power goes
    pending,   \* the writes of the open transaction, in order
    todo,      \* the Commands the clients have still to send
    now, crashes, faults

vars == <<log, phase, pos, db, batch, kv, txn, disk, pending, todo, now,
          crashes, faults>>

Init ==
    /\ log = <<>>
    /\ phase = "recovering"
    /\ pos = 1
    /\ db = MemDb
    /\ batch = MemBatch
    /\ kv = <<>>
    /\ txn = <<>>
    /\ disk = <<>>
    /\ pending = <<>>
    /\ todo \in Histories
    /\ now = 0
    /\ crashes = 0
    /\ faults = 0

-----------------------------------------------------------------------------
NoopEntry == [kind |-> "noop", body |-> "noop", at |-> now]
CommandEntry(step, name) ==
    [kind |-> "command", body |-> [step |-> step, name |-> name], at |-> now]

Births == {"FlowCreated", "FlowVersionCreated", "ExecutionCreated", "ThreadCreated",
           "StateActivating", "TaskActivated"}

\* The names a batch knows its objects by: those born on the log, by slot.
BirthsOnLog == {p \in 1..Len(log) : log[p].kind = "event" /\ log[p].body.type \in Births}
SlotNames == [s \in {log[p].body.slot : p \in BirthsOnLog} |->
                 log[CHOOSE p \in BirthsOnLog : log[p].body.slot = s].body.row.name]

\* A new entity, as its handler constructs it.
Newborn(t, name, owner) ==
    CASE t.kind = "flow" -> [kind |-> "flow", name |-> name, latest |-> 1, at |-> now]
      [] t.kind = "flowversion" ->
            [kind |-> t.kind, name |-> name, owner |-> owner[2], version |-> 1, at |-> now]
      [] t.kind = "execution" ->
            [kind |-> t.kind, name |-> name, status |-> "Running", output |-> 0, at |-> now]
      [] t.kind = "thread" ->
            [kind |-> t.kind, name |-> name, owner |-> owner, status |-> "Running",
             index |-> t.index, output |-> 0, at |-> now]
      [] t.kind = "activity" ->
            [kind |-> t.kind, name |-> name, owner |-> owner, status |-> "Activating",
             state |-> "none", branches |-> <<>>, attempts |-> 0, raw |-> 0, at |-> now]
      [] t.kind = "task" ->
            [kind |-> t.kind, name |-> name, owner |-> owner, status |-> "Pending",
             worker |-> 0, gate |-> 0, lease |-> 0, attempts |-> 0, at |-> now]

\* The value a later Event of the entity carries: the row the handler read, moved
\* on.  A retryable failure gates the task and counts the attempt.
Moved(row, t) ==
    CASE t.type = "TaskFailed" /\ t.status = "Pending" ->
            [row EXCEPT !.status = t.status, !.at = now, !.worker = 0, !.lease = 0,
                        !.gate = now + 1, !.attempts = @ + 1]
      [] t.type = "StateActivated" ->
            [row EXCEPT !.status = t.status, !.state = t.state, !.at = now]
      [] t.type \in {"ThreadCompleting", "ThreadCompleted", "ExecutionCompleting",
                     "ExecutionCompleted"} ->
            [row EXCEPT !.status = t.status, !.output = 1, !.at = now]
      [] OTHER -> [row EXCEPT !.status = t.status, !.at = now]

\* TaskElementBehavior::claim: every claimable task the fold's own scan finds,
\* leased from now.
Claims(v, found) ==
    LET refs == SetToSeq(found)
    IN  [i \in 1..Len(refs) |->
            [v.rows[refs[i]] EXCEPT !.status = "Running", !.worker = 1, !.gate = 0,
                                    !.lease = now + LeaseTime, !.at = now]]

\* WorkingState::mint_generated_seq: the next suffix, and the write that spends it.
\* Reads of the open transaction succeed here; the code takes a failed one for 0.
MintGeneratedSeq(v) == [n |-> v.seq, writes |-> <<PutSeq(v.seq + 1)>>]

\* A batch while it is being decided: names by slot, Events so far, writes so far.
Deciding == [names |-> SlotNames, events |-> <<>>, writes |-> <<>>]

ViewOf(d) == MemView(db, MemWrites(batch, d.writes))

\* Collector::append_event: the Event joins the batch and is folded into the
\* working transaction at once.  A fold that fails is logged and the Event stays.
AppendEvent(d, e, mint, lost) ==
    LET v == ViewOf([d EXCEPT !.writes = @ \o mint])
    IN  [d EXCEPT !.events = Append(@, e),
                  !.writes = @ \o mint \o (IF lost THEN <<>> ELSE DispatchEvent(v, e, now))]

\* One Event of a step.  A birth takes its name from the user, from the Command
\* that ordered it, or from the counter.
Emit(d, t, ordered, lost) ==
    LET v == ViewOf(d)
        mint == MintGeneratedSeq(v)
        owner == IF t.under = "" THEN <<"", <<>>>> ELSE <<t.underKind, d.names[t.under]>>
        name == CASE t.kind \in {"flow", "execution"} -> <<t.slot>>
                  [] t.kind = "flowversion" -> <<t.under, 1>>
                  [] t.kind = "task" -> ordered
                  [] OTHER -> <<"run", mint.n>>
        minted == t.kind \in {"thread", "activity"}
        born == [type |-> t.type, slot |-> t.slot, row |-> Newborn(t, name, owner)]
    IN  CASE t.type \in Births ->
                [AppendEvent(d, born, IF minted THEN mint.writes ELSE <<>>, lost)
                    EXCEPT !.names = Upsert(@, t.slot, name)]
          [] t.type = "TasksClaimed" ->
                AppendEvent(d, [type |-> t.type,
                                claims |-> Claims(v, MemActivatable(db, MemWrites(batch, d.writes), now))],
                            <<>>, lost)
          [] t.type = "VariablesAssigned" ->
                AppendEvent(d, [type |-> t.type, thread |-> d.names[t.slot],
                                value |-> ScopeOf(v, d.names[t.slot]) \union {t.slot}],
                            <<>>, lost)
          [] t.type = "StateTransitioned" -> AppendEvent(d, [type |-> t.type], <<>>, lost)
          [] OTHER ->
                AppendEvent(d, [type |-> t.type, output |-> 1,
                                row |-> Moved(v.rows[<<t.kind, d.names[t.slot]>>], t)],
                            <<>>, lost)

\* The whole step; the fold of its Event number `fault` fails (0: none does).
Decide(cmd, fault) ==
    LET emits == Steps[cmd.step].emits
        After[i \in 0..Len(emits)] ==
            IF i = 0 THEN Deciding ELSE Emit(After[i - 1], emits[i], cmd.name, i = fault)
    IN  After[Len(emits)]

\* Handlers refuse a step about an object the view does not hold, and a second
\* birth under a user's name.
Applicable(cmd) ==
    LET emits == Steps[cmd.step].emits
        v == MemView(db, batch)
        Held(slot, kind) == slot \in DOMAIN SlotNames /\ Has(v, <<kind, SlotNames[slot]>>)
        BornBefore(i, slot) == \E j \in 1..(i - 1) : emits[j].type \in Births
                                                     /\ emits[j].slot = slot
    IN  \A i \in 1..Len(emits) :
            LET t == emits[i]
            IN  /\ t.under # "" => Held(t.under, t.underKind) \/ BornBefore(i, t.under)
                /\ t.kind \in {"flow", "execution"} /\ t.type \in Births
                       => ~Has(v, <<t.kind, <<t.slot>>>>)
                /\ t.type \notin Births /\ t.slot # ""
                       => Held(t.slot, t.kind) \/ BornBefore(i, t.slot)

-----------------------------------------------------------------------------
Writes(ws) ==
    /\ batch' = MemWrites(batch, ws)
    /\ txn' = RocksWrites(txn, ws)
    /\ pending' = pending \o ws

\* The persistent store may or may not have reached the disk by the next commit.
Commits(w) ==
    /\ db' = MemCommit(db, batch, w)
    /\ kv' = RocksCommit(kv, txn, w)
    /\ disk' \in {disk, kv'}
    /\ batch' = MemBatch
    /\ txn' = <<>>
    /\ pending' = <<>>

AtCommand ==
    /\ phase = "leading"
    /\ pos <= Len(log)

\* Time passes.  Only the decision of a batch reads the clock.
Tick ==
    /\ AtCommand
    /\ now < MaxTime
    /\ now' = now + 1
    /\ UNCHANGED <<log, phase, pos, db, batch, kv, txn, disk, pending, todo,
                   crashes, faults>>

\* Bound: a client's Command waits until fewer than MaxQueued wait before it.
Queued == {p \in pos..Len(log) : log[p].kind = "command"}

\* A client's Command reaches the log.
Send ==
    /\ todo # <<>>
    /\ phase = "leading"
    /\ Cardinality(Queued) < MaxQueued
    /\ todo' = Tail(todo)
    /\ log' = log \o <<CommandEntry(Head(todo), <<>>), NoopEntry>>
    /\ UNCHANGED <<phase, pos, db, batch, kv, txn, disk, pending, now, crashes, faults>>

\* dispatch_once: begin a transaction, decide the batch on it, append the batch
\* with its follow-ups and its Noop.  A name ordered for a follow-up (a task's) is
\* minted here and travels in the Command.
Dispatch ==
    /\ AtCommand
    /\ Applicable(log[pos].body)
    /\ LET cmd == log[pos].body
           step == Steps[cmd.step]
       IN  \E fault \in {0} \union IF faults < MaxFaults THEN 1..Len(step.emits) ELSE {} :
             LET d == Decide(cmd, fault)
                 mint == MintGeneratedSeq(ViewOf(d))
                 events == [i \in 1..Len(d.events) |->
                              [kind |-> "event", body |-> d.events[i], at |-> now]]
                 follow == [i \in 1..Len(step.then) |->
                              CommandEntry(step.then[i], <<"run", mint.n>>)]
             IN  /\ Writes(d.writes \o (IF step.mints THEN mint.writes ELSE <<>>))
                 /\ log' = log \o events \o follow \o <<NoopEntry>>
                 /\ faults' = faults + (IF fault = 0 THEN 0 ELSE 1)
    /\ phase' = "appended"
    /\ UNCHANGED <<pos, db, kv, disk, todo, now, crashes>>

\* reject_command: a refusal folds nothing.
Refuse ==
    /\ AtCommand
    /\ ~Applicable(log[pos].body)
    /\ log' = log \o <<[kind |-> "reject", body |-> "reject", at |-> now], NoopEntry>>
    /\ phase' = "appended"
    /\ UNCHANGED <<pos, db, batch, kv, txn, disk, pending, todo, now, crashes, faults>>

\* The next Command at or after p: the loop reads Events, Noops and Rejects back and
\* skips them.
NextCommand(p) ==
    CHOOSE q \in p..(Len(log) + 1) :
        /\ q <= Len(log) => log[q].kind = "command"
        /\ \A r \in p..(q - 1) : log[r].kind # "command"

\* run_leader after the append: commit at the batch's end, move on.
Commit ==
    /\ phase = "appended"
    /\ Commits(Len(log))
    /\ phase' = "leading"
    /\ pos' = NextCommand(pos + 1)
    /\ UNCHANGED <<log, todo, now, crashes, faults>>

\* Mutation of ApplyEvent: the fold asks the clock instead of the entry.
MutApplyEvent(entry) == DispatchEvent(MemView(db, batch), entry.body, now)

\* Leader::apply_event: fold an entry read back, with its own timestamp.
ApplyEvent(entry) == DispatchEvent(MemView(db, batch), entry.body, entry.at)

\* recover_leader: fold Events, commit at Noops, skip the rest, then lead from one
\* past the watermark.
Recover ==
    /\ phase = "recovering"
    /\ \/ /\ pos <= Len(log)
          /\ log[pos].kind = "event"
          /\ Writes(ApplyEvent(log[pos]))
          /\ pos' = pos + 1
          /\ UNCHANGED <<phase, db, kv, disk>>
       \/ /\ pos <= Len(log)
          /\ log[pos].kind = "noop" /\ pending # <<>>
          /\ Commits(pos)
          /\ pos' = pos + 1
          /\ UNCHANGED phase
       \/ /\ pos <= Len(log)
          /\ log[pos].kind # "event"
          /\ log[pos].kind = "noop" => pending = <<>>
          /\ pos' = pos + 1
          /\ UNCHANGED <<phase, db, batch, kv, txn, disk, pending>>
       \/ /\ pos > Len(log)
          /\ phase' = "leading"
          /\ pos' = NextCommand(RocksPosition(kv) + 1)
          /\ UNCHANGED <<db, batch, kv, txn, disk, pending>>
    /\ UNCHANGED <<log, todo, now, crashes, faults>>

\* The process dies and is started again over the store as committed, or, when the
\* power went, as the disk has it.  StreamProcessor::run resumes past the watermark.
Reopen ==
    /\ crashes < MaxCrashes
    /\ crashes' = crashes + 1
    /\ \E survivor \in {kv, disk} :
          /\ kv' = survivor
          /\ db' = RocksContents(survivor)
          /\ pos' = RocksPosition(survivor) + 1
    /\ batch' = MemBatch
    /\ txn' = <<>>
    /\ pending' = <<>>
    /\ phase' = "recovering"
    /\ now' \in {now, MaxTime}
    /\ UNCHANGED <<log, disk, todo, faults>>

Next ==
    \/ Tick \/ Send
    \/ Dispatch \/ Refuse \/ Commit
    \/ Recover \/ Reopen

Spec == Init /\ [][Next]_vars

-----------------------------------------------------------------------------
\* The in-memory backend implements the Storage seam: its transaction reads its own
\* writes and nothing of it shows outside before the commit.
Memory == INSTANCE TxnStore WITH
    store <- db,
    disk <- RocksContents(disk),
    view <- MemView(db, batch),
    pending <- pending
MemoryRefines == Memory!Spec

\* The persistent backend implements the same seam through its key encoding.
Rocks == INSTANCE TxnStore WITH
    store <- RocksContents(kv),
    disk <- RocksContents(disk),
    view <- RocksContents(Overlay(kv, txn)),
    pending <- pending
RocksRefines == Rocks!Spec

\* Contents c after the Events of the log's positions p + 1 to n, each folded with
\* its entry's own time.
Refold(c, p, n) ==
    LET After[q \in p..n] ==
            IF q = p THEN c
            ELSE IF log[q].kind # "event" THEN After[q - 1]
            ELSE ApplyWrites(After[q - 1], DispatchEvent(After[q - 1], log[q].body, log[q].at))
    IN  After[n]

\* The store is the fold of the log's Events up to its watermark, however it gets
\* there: a commit takes it from one watermark to the next by exactly the fold of the
\* Events in between, decided live on the overlay or folded by a recovery at a later
\* hour; nothing else changes it but a power loss, back to an earlier commit.  (The
\* name counter may be ahead of the Events: a live mint moves it.)
StoreIsFold ==
    [][LET old == RocksContents(kv)
           new == RocksContents(kv')
           fold == Refold(old, old.watermark, new.watermark)
       IN  \/ kv' \in {kv, disk}
           \/ /\ new.rows = fold.rows
              /\ new.vars = fold.vars
              /\ new.edges = fold.edges
              /\ new.seq >= fold.seq]_kv

\* No name is given twice: a generated suffix is on the log for one birth only, over
\* crashes that take back the counter (mint_generated_seq, bump_generated_seq).
NamesAreFresh ==
    \A p, q \in {x \in BirthsOnLog : Len(log[x].body.row.name) = 2
                                     /\ log[x].body.row.kind # "flowversion"} :
        p # q => log[p].body.row.name[2] # log[q].body.row.name[2]

\* Every read answers alike from either backend, on the open transaction and on the
\* committed store: the row of any object, the counter, the ownership edges of any
\* object and, on the transaction, the claimable tasks.
ReadsAgree ==
    LET flows == {"flow", "flowversion"}
        refs == DOMAIN MemView(db, batch).rows
        Same(r, m) == IF m = None THEN r = Absent ELSE r = m
    IN  /\ \A p \in refs :
              /\ IF p[1] \in flows
                 THEN /\ Same(RocksFlow(kv, txn, p), MemGetFlow(db, batch, p))
                      /\ Same(RocksDbFlow(kv, p), MemDbGetFlow(db, p))
                 ELSE /\ Same(RocksRow(kv, txn, p), MemGet(db, batch, p))
                      /\ Same(RocksDbRow(kv, p), MemDbGet(db, p))
              /\ RocksTxnChildren(kv, txn, p) = MemChildren(db, batch, p)
              /\ RocksChildren(kv, p) = MemDbChildren(db, p)
        /\ RocksTxnSeq(kv, txn) = MemSeq(db, batch)
        /\ RocksTxnActivatable(kv, txn, now) = MemActivatable(db, batch, now)

\* KeyBuilder::task_prefix and kind_prefix say the trailing '/' binds a scan to
\* exactly one kind: the scans of the committed store answer as the in-memory ones.
ScanIsBoundToKind ==
    /\ RocksActivatable(kv, now) = Scanned(MemDbActivatable(db, now))
    /\ \A kind \in RowKinds :
          RocksList(kv, kind) = Listed({Spell(n) : n \in MemList(db, kind)})

=============================================================================
