----------------------- MODULE StreamProcessor_proofs -----------------------
(***************************************************************************)
(* For every set of outcomes, every bound and every placement of crashes:   *)
(* the leader's projection is the fold of exactly the log's prefix up to    *)
(* its watermark, the tailing loop reads back only folded Events, and the   *)
(* driver implements PrefixProjection.                                     *)
(***************************************************************************)
EXTENDS StreamProcessor, TLAPS

\* Every append is Noop-terminated, so the log never ends inside a batch.
LogClosed == Len(log) > 0 => log[Len(log)].kind = "noop"

\* Between two batches the leader has folded everything there is to fold.
AllFolded == \A p \in 1..Len(log) : log[p].kind = "event" => p <= watermark

\* Between append and commit, the working transaction is exactly what the log
\* holds beyond the watermark, and the batch's end is a later batch boundary.
BatchInHand ==
    /\ batch[1] \in 1..Len(log)
    /\ batch[2] \in (watermark + 1)..Len(log)
    /\ log[batch[2]].kind = "noop"
    /\ \A p \in 1..Len(log) : log[p].kind = "event" => p <= batch[2]
    /\ txn = {p \in 1..Len(log) : log[p].kind = "event" /\ watermark < p}

\* During recovery, the open transaction is exactly the Events read since the
\* watermark, and it is open only inside a batch.
ResidueInHand ==
    /\ watermark < pos
    /\ txn = {p \in 1..Len(log) : log[p].kind = "event" /\ watermark < p /\ p < pos}
    /\ txn # {} => pos > 1 /\ log[pos - 1].kind # "noop"

\* The inductive invariant.  ProjectionIsPrefix alone is not inductive: a commit
\* adds txn and moves the watermark, so the step needs to know that txn is what
\* lies between the two.
IInv ==
    /\ TypeOK
    /\ ProjectionIsPrefix
    /\ LogClosed
    /\ phase \in {"leading", "committed"} => AllFolded
    /\ phase = "appended" => BatchInHand
    /\ phase = "committed" => batch[1] \in 1..Len(log)
    /\ phase \in {"appended", "committed"} => pos <= Len(log)
    /\ phase = "recovering" => ResidueInHand
    /\ phase = "down" => txn = {}

-----------------------------------------------------------------------------
\* Appending one entry extends a sequence of entries by it.
LEMMA AppendEntry ==
    ASSUME NEW s \in Seq(Entry), NEW e \in Entry
    PROVE  /\ Append(s, e) \in Seq(Entry)
           /\ Len(Append(s, e)) = Len(s) + 1
           /\ \A i \in 1..Len(s) : Append(s, e)[i] = s[i]
           /\ Append(s, e)[Len(s) + 1] = e
  OBVIOUS

\* What appending a bare Command writes: the Command and an inert Noop.
LEMMA BareCommand ==
    /\ NoopTerminated(<<[kind |-> "command", cause |-> NoCause]>>) \in Seq(Entry)
    /\ Len(NoopTerminated(<<[kind |-> "command", cause |-> NoCause]>>)) = 2
    /\ NoopTerminated(<<[kind |-> "command", cause |-> NoCause]>>)[1].kind = "command"
    /\ NoopTerminated(<<[kind |-> "command", cause |-> NoCause]>>)[2].kind = "noop"
<1> DEFINE c == [kind |-> "command", cause |-> NoCause]
<1>1. c \in Entry /\ Noop(NoCause) \in Entry /\ c.kind = "command"
      /\ Noop(NoCause).kind = "noop"
  BY DEF Entry, Kinds, Noop, NoCause
<1> HIDE DEF c
<1>2. NoopTerminated(<<c>>) = Append(<<c>>, Noop(NoCause))
  BY <1>1 DEF NoopTerminated
<1>3. /\ NoopTerminated(<<c>>) \in Seq(Entry)
      /\ Len(NoopTerminated(<<c>>)) = 2
      /\ NoopTerminated(<<c>>)[1] = c
      /\ NoopTerminated(<<c>>)[2] = Noop(NoCause)
  <2>1. <<c>> \in Seq(Entry) /\ Len(<<c>>) = 1 /\ <<c>>[1] = c
    BY <1>1
  <2>2. ASSUME NEW s \in Seq(Entry), Len(s) = 1, NEW e \in Entry
        PROVE  /\ Append(s, e) \in Seq(Entry) /\ Len(Append(s, e)) = 2
               /\ Append(s, e)[1] = s[1] /\ Append(s, e)[2] = e
    <3>1. 1 \in 1..Len(s) /\ Len(s) + 1 = 2
      BY <2>2
    <3>2. /\ Append(s, e) \in Seq(Entry) /\ Len(Append(s, e)) = Len(s) + 1
          /\ Append(s, e)[1] = s[1] /\ Append(s, e)[Len(s) + 1] = e
      BY <3>1, AppendEntry
    <3>3. QED
      BY <3>1, <3>2
  <2>3. /\ Append(<<c>>, Noop(NoCause)) \in Seq(Entry)
        /\ Len(Append(<<c>>, Noop(NoCause))) = 2
        /\ Append(<<c>>, Noop(NoCause))[1] = <<c>>[1]
        /\ Append(<<c>>, Noop(NoCause))[2] = Noop(NoCause)
    BY <1>1, <2>1, <2>2, Zenon
  <2>4. QED
    BY <1>2, <2>1, <2>3, Zenon
<1>4. /\ NoopTerminated(<<c>>)[1].kind = "command"
      /\ NoopTerminated(<<c>>)[2].kind = "noop"
  BY <1>1, <1>3
<1>5. QED
  BY <1>3, <1>4, Zenon DEF c

\* What a batch looks like: the collected kinds in order, then the marker.
LEMMA BatchShape ==
    ASSUME NEW kinds \in Seq({"command", "event", "reject"}), NEW c \in Nat
    PROVE  /\ Batch(kinds, c) \in Seq(Entry)
           /\ Len(Batch(kinds, c)) = Len(kinds) + 1
           /\ \A i \in 1..Len(kinds) : Batch(kinds, c)[i].kind = kinds[i]
           /\ Batch(kinds, c)[Len(kinds) + 1] = Noop(c)
<1> DEFINE es == [i \in 1..Len(kinds) |-> [kind |-> kinds[i], cause |-> c]]
<1>1. es \in Seq(Entry) /\ Len(es) = Len(kinds)
  BY DEF Entry, Kinds
<1>2. Noop(c) \in Entry
  BY DEF Noop, Entry, Kinds
<1>3. Batch(kinds, c) = Append(es, Noop(c))
  BY DEF Batch
<1> HIDE DEF es
<1>4. /\ Append(es, Noop(c)) \in Seq(Entry)
      /\ Len(Append(es, Noop(c))) = Len(es) + 1
      /\ \A i \in 1..Len(es) : Append(es, Noop(c))[i] = es[i]
      /\ Append(es, Noop(c))[Len(es) + 1] = Noop(c)
  BY <1>1, <1>2, AppendEntry
<1>5. \A i \in 1..Len(kinds) : es[i].kind = kinds[i]
  BY DEF es
<1>6. QED
  BY <1>1, <1>3, <1>4, <1>5

\* Appending to a log moves nothing that is already there.
LEMMA AppendKeeps ==
    ASSUME NEW l \in Seq(Entry), NEW b \in Seq(Entry)
    PROVE  /\ l \o b \in Seq(Entry)
           /\ Len(l \o b) = Len(l) + Len(b)
           /\ \A p \in 1..Len(l) : (l \o b)[p] = l[p]
           /\ \A i \in 1..Len(b) : (l \o b)[Len(l) + i] = b[i]
  OBVIOUS

-----------------------------------------------------------------------------
\* The invariant holds before the first boot.
LEMMA InitIInv == Init => IInv
<1> SUFFICES ASSUME Init PROVE IInv
  OBVIOUS
<1>1. TypeOK
  BY OutcomesAssumption DEF Init, TypeOK, Phases
<1>2. ProjectionIsPrefix /\ LogClosed
  BY DEF Init, ProjectionIsPrefix, LogClosed, EventsUpTo, Positions
<1>3. QED
  BY <1>1, <1>2 DEF Init, IInv

\* A command appended from outside disturbs no phase of the driver.
LEMMA AppendCommandIInv == IInv /\ AppendCommand => IInv'
<1> SUFFICES ASSUME IInv, AppendCommand PROVE IInv'
  OBVIOUS
<1> DEFINE b == NoopTerminated(<<[kind |-> "command", cause |-> NoCause]>>)
<1>1. /\ b \in Seq(Entry) /\ Len(b) = 2
      /\ b[1].kind = "command" /\ b[2].kind = "noop"
  BY BareCommand
<1>2. log' = log \o b
  BY DEF AppendCommand
<1> HIDE DEF b
<1>3. /\ log' \in Seq(Entry) /\ Len(log') = Len(log) + 2
      /\ \A p \in 1..Len(log) : log'[p] = log[p]
      /\ log'[Len(log) + 1].kind = "command"
      /\ log'[Len(log) + 2].kind = "noop"
  <2>1. 1 \in 1..Len(b) /\ 2 \in 1..Len(b)
    BY <1>1
  <2>2. log \in Seq(Entry)
    BY DEF IInv, TypeOK
  <2>3. QED
    BY <1>1, <1>2, <2>1, <2>2, AppendKeeps
<1>4. TypeOK'
  <2>1. 1..Len(log) \subseteq 1..Len(log') /\ 0..Len(log) \subseteq 0..Len(log')
    BY <1>3, SMTT(30) DEF IInv, TypeOK
  <2>2. /\ watermark' \in 0..Len(log') /\ pos' \in 1..(Len(log') + 1)
        /\ batch' \in (0..Len(log')) \X (0..Len(log'))
    BY <1>3, <2>1, SMTT(30) DEF IInv, TypeOK, AppendCommand
  <2>3. /\ applied' \subseteq 1..Len(log') /\ txn' \subseteq 1..Len(log')
        /\ lastApplied' \subseteq 1..Len(log')
        /\ reported' \subseteq (1..Len(log')) \X (1..Len(log'))
    BY <2>1 DEF IInv, TypeOK, AppendCommand
  <2>4. QED
    BY <1>3, <2>2, <2>3 DEF IInv, TypeOK, AppendCommand
<1>5. {p \in 1..Len(log') : log'[p].kind = "event"}
        = {p \in 1..Len(log) : log[p].kind = "event"}
  <2>1. \A p \in 1..Len(log') :
          \/ p \in 1..Len(log) /\ log'[p] = log[p]
          \/ p = Len(log) + 1
          \/ p = Len(log) + 2
    BY <1>3, SMTT(30) DEF IInv, TypeOK
  <2>2. \A p \in 1..Len(log') : log'[p].kind = "event" =>
          p \in 1..Len(log) /\ log[p].kind = "event"
    BY <1>3, <2>1
  <2>3. \A p \in 1..Len(log) :
          p \in 1..Len(log') /\ log'[p].kind = log[p].kind
    BY <1>3 DEF IInv, TypeOK
  <2>4. QED
    BY <2>2, <2>3
<1>6. ProjectionIsPrefix'
  BY <1>5 DEF IInv, ProjectionIsPrefix, EventsUpTo, Positions, AppendCommand
<1>7. LogClosed'
  BY <1>3 DEF LogClosed, IInv, TypeOK
<1>8. AllFolded => AllFolded'
  BY <1>5 DEF AllFolded, AppendCommand
<1>9. BatchInHand => BatchInHand'
  <2> SUFFICES ASSUME BatchInHand PROVE BatchInHand'
    OBVIOUS
  <2>1. /\ (batch[1] \in 1..Len(log))'
        /\ (batch[2] \in (watermark + 1)..Len(log))'
        /\ (log[batch[2]].kind = "noop")'
    BY <1>3, SMTT(30) DEF BatchInHand, IInv, TypeOK, AppendCommand
  <2>2. (\A p \in 1..Len(log) : log[p].kind = "event" => p <= batch[2])'
    BY <1>5 DEF BatchInHand, AppendCommand
  <2>3. (txn = {p \in 1..Len(log) : log[p].kind = "event" /\ watermark < p})'
    BY <1>5 DEF BatchInHand, AppendCommand
  <2>4. QED
    BY <2>1, <2>2, <2>3 DEF BatchInHand
<1>10. ResidueInHand => ResidueInHand'
  <2> SUFFICES ASSUME ResidueInHand PROVE ResidueInHand'
    OBVIOUS
  <2>1. (txn = {p \in 1..Len(log) :
                  log[p].kind = "event" /\ watermark < p /\ p < pos})'
    BY <1>5 DEF ResidueInHand, AppendCommand
  <2>2. (txn # {} => pos > 1 /\ log[pos - 1].kind # "noop")'
    BY <1>3, SMTT(30) DEF ResidueInHand, AppendCommand, IInv, TypeOK
  <2>3. QED
    BY <2>1, <2>2 DEF ResidueInHand, AppendCommand
<1>11. /\ (batch[1] \in 1..Len(log)) => (batch[1] \in 1..Len(log))'
       /\ (pos <= Len(log)) => (pos <= Len(log))'
       /\ phase' = phase /\ txn' = txn
  BY <1>3 DEF IInv, TypeOK, AppendCommand
<1>12. QED
  BY <1>4, <1>6, <1>7, <1>8, <1>9, <1>10, <1>11 DEF IInv

\* Booting and recovering: the residue in hand grows by one Event at a time and
\* is committed at its Noop.
LEMMA RecoverIInv == IInv /\ (Boot \/ Recover) => IInv'
<1> SUFFICES ASSUME IInv, Boot \/ Recover PROVE IInv'
  OBVIOUS
<1> USE DEF IInv
<1>1. CASE Boot
  <2>1. TypeOK' /\ ProjectionIsPrefix' /\ LogClosed'
    BY <1>1 DEF Boot, durable, TypeOK, Phases, ProjectionIsPrefix, LogClosed
  <2>2. ASSUME txn = {} PROVE ResidueInHand'
    BY <1>1, <2>2 DEF Boot, durable, TypeOK, ResidueInHand
  <2>3. txn = {}
    BY <1>1 DEF Boot
  <2>4. QED
    BY <1>1, <2>1, <2>2, <2>3 DEF Boot
<1>2. CASE RecoverEvent
  <2>1. TypeOK' /\ ProjectionIsPrefix' /\ LogClosed' /\ phase' = "recovering"
    BY <1>2 DEF RecoverEvent, durable, TypeOK, ProjectionIsPrefix, LogClosed
  <2>2. ResidueInHand'
    BY <1>2 DEF RecoverEvent, durable, TypeOK, ResidueInHand
  <2>3. QED
    BY <2>1, <2>2
<1>3. CASE RecoverNoop /\ txn = {}
  <2>1. TypeOK' /\ ProjectionIsPrefix' /\ LogClosed' /\ phase' = "recovering"
    BY <1>3 DEF RecoverNoop, TypeOK, ProjectionIsPrefix, LogClosed
  <2>2. ResidueInHand'
    BY <1>3 DEF RecoverNoop, TypeOK, ResidueInHand
  <2>3. QED
    BY <2>1, <2>2
<1>4. CASE RecoverNoop /\ txn # {}
  <2>1. TypeOK' /\ LogClosed' /\ phase' = "recovering"
    <3>1. applied' \subseteq 1..Len(log)
      BY <1>4 DEF RecoverNoop, TypeOK
    <3>2. QED
      BY <1>4, <3>1, SMTT(30) DEF RecoverNoop, TypeOK, LogClosed
  <2>2. ProjectionIsPrefix'
    <3>1. /\ watermark' = pos /\ applied' = applied \union txn /\ log' = log
          /\ log[pos].kind = "noop" /\ watermark < pos
      BY <1>4 DEF RecoverNoop, ResidueInHand
    <3>2. txn = {p \in 1..Len(log) : log[p].kind = "event" /\ watermark < p /\ p < pos}
      BY <1>4 DEF RecoverNoop, ResidueInHand
    <3>3. applied = {p \in 1..Len(log) : log[p].kind = "event" /\ p <= watermark}
      BY DEF ProjectionIsPrefix, EventsUpTo, Positions
    <3>4. watermark \in Nat /\ pos \in Nat /\ Len(log) \in Nat
      BY DEF TypeOK
    <3>5. \A p \in 1..Len(log) : log[p].kind = "event" =>
            (p <= pos <=> p <= watermark \/ (watermark < p /\ p < pos))
      <4> HIDE DEF IInv
      <4> QED BY <3>1, <3>4
    <3>6. applied' = {p \in 1..Len(log) : log[p].kind = "event" /\ p <= pos}
      <4> HIDE DEF IInv
      <4> QED BY <3>1, <3>2, <3>3, <3>5
    <3>7. QED
      <4> HIDE DEF IInv
      <4> QED BY <3>1, <3>6 DEF ProjectionIsPrefix, EventsUpTo, Positions
  <2>3. ResidueInHand'
    BY <1>4 DEF RecoverNoop, TypeOK, ResidueInHand
  <2>4. QED
    BY <2>1, <2>2, <2>3
<1>5. CASE RecoverSkip
  <2>1. TypeOK' /\ ProjectionIsPrefix' /\ LogClosed' /\ phase' = "recovering"
    BY <1>5 DEF RecoverSkip, durable, TypeOK, ProjectionIsPrefix, LogClosed
  <2>2. ResidueInHand'
    <3>1. log[pos].kind # "event" /\ log[pos].kind # "noop"
      BY <1>5 DEF RecoverSkip
    <3>2. (pos + 1) - 1 = pos /\ pos + 1 > 1 /\ watermark < pos + 1
      BY <1>5 DEF RecoverSkip, TypeOK, ResidueInHand
    <3>3. \A p \in 1..Len(log) : log[p].kind = "event" =>
            (p < pos <=> p < pos + 1)
      BY <3>1 DEF TypeOK
    <3>4. QED
      BY <1>5, <3>1, <3>2, <3>3 DEF RecoverSkip, durable, ResidueInHand
  <2>3. QED
    BY <2>1, <2>2
<1>6. CASE StartTailing
  <2>1. TypeOK' /\ ProjectionIsPrefix' /\ LogClosed' /\ phase' = "leading"
    BY <1>6 DEF StartTailing, Tailing, durable, TypeOK, Phases, ProjectionIsPrefix,
                LogClosed
  <2>2. txn = {}
    BY <1>6 DEF StartTailing, Tailing, TypeOK, ResidueInHand, LogClosed
  <2>3. AllFolded'
    BY <1>6, <2>2, SMTT(30) DEF StartTailing, Tailing, durable, TypeOK, ResidueInHand, AllFolded
  <2>4. QED
    BY <2>1, <2>3
<1>7. QED
  BY <1>1, <1>2, <1>3, <1>4, <1>5, <1>6 DEF Recover

\* Appending a batch while everything is folded puts exactly its Events in hand.
LEMMA AppendBatchIInv ==
    ASSUME IInv, AtCommand,
           NEW kinds \in Seq({"command", "event", "reject"}), AppendBatch(kinds),
           UNCHANGED <<watermark, applied, pos, reported, restarts>>,
           lastApplied' \in {txn', lastApplied}
    PROVE  IInv'
<1> DEFINE b == Batch(kinds, pos)
<1>1. /\ b \in Seq(Entry) /\ Len(b) = Len(kinds) + 1
      /\ \A i \in 1..Len(kinds) : b[i].kind = kinds[i]
      /\ b[Len(kinds) + 1] = Noop(pos)
  BY BatchShape, SMTT(30) DEF IInv, TypeOK
<1>2. log' = log \o b
  BY DEF AppendBatch
<1> HIDE DEF b
<1>3. log \in Seq(Entry) /\ Len(log) \in Nat /\ Len(kinds) \in Nat
  BY DEF IInv, TypeOK
<1>4. /\ log' \in Seq(Entry) /\ Len(log') = Len(log) + Len(kinds) + 1
      /\ \A p \in 1..Len(log) : log'[p] = log[p]
      /\ \A i \in 1..Len(kinds) : log'[Len(log) + i].kind = kinds[i]
      /\ log'[Len(log) + Len(kinds) + 1] = Noop(pos)
  <2>1. \A i \in 1..Len(b) : log'[Len(log) + i] = b[i]
    BY <1>1, <1>2, <1>3, AppendKeeps
  <2>2. 1..Len(kinds) \subseteq 1..Len(b) /\ Len(kinds) + 1 \in 1..Len(b)
    BY <1>1, <1>3
  <2>3. log'[Len(log) + (Len(kinds) + 1)] = Noop(pos)
    BY <1>1, <2>1, <2>2
  <2>4. /\ log' \in Seq(Entry) /\ Len(log') = Len(log) + Len(b)
        /\ \A p \in 1..Len(log) : log'[p] = log[p]
    BY <1>1, <1>2, <1>3, AppendKeeps
  <2>5. QED
    BY <1>1, <1>3, <2>1, <2>2, <2>3, <2>4
<1>5. log'[Len(log')].kind = "noop"
  BY <1>4 DEF Noop
<1>6. 1..Len(log) \subseteq 1..Len(log') /\ 0..Len(log) \subseteq 0..Len(log')
  BY <1>3, <1>4
<1>7. txn' \subseteq 1..Len(log')
  BY <1>3, <1>4 DEF AppendBatch
<1>8. TypeOK'
  <2>1. /\ watermark' \in 0..Len(log') /\ pos' \in 1..(Len(log') + 1)
        /\ batch' \in (0..Len(log')) \X (0..Len(log'))
    <3>1. batch' = <<Len(log) + 1, Len(log) + Len(kinds) + 1>>
      BY DEF AppendBatch
    <3>2. Len(log) + 1 \in 0..Len(log') /\ Len(log) + Len(kinds) + 1 \in 0..Len(log')
      BY <1>3, <1>4
    <3>3. watermark' \in 0..Len(log') /\ pos' \in 1..(Len(log') + 1)
      BY <1>3, <1>4 DEF IInv, TypeOK
    <3>4. QED
      BY <3>1, <3>2, <3>3
  <2>2. /\ applied' \subseteq 1..Len(log') /\ lastApplied' \subseteq 1..Len(log')
        /\ reported' \subseteq (1..Len(log')) \X (1..Len(log'))
    BY <1>6, <1>7 DEF IInv, TypeOK
  <2>3. phase' \in Phases /\ attempt' \in 1..MaxAttempts
        /\ restarts' \in 0..MaxRestarts
    BY OutcomesAssumption DEF IInv, TypeOK, AppendBatch, Phases
  <2>4. QED
    BY <1>4, <1>7, <2>1, <2>2, <2>3 DEF TypeOK
<1>9. AllFolded
  BY DEF IInv, AtCommand
<1>10. ProjectionIsPrefix'
  <2>1. watermark \in 0..Len(log)
    BY DEF IInv, TypeOK
  <2>2. \A p : p \in 1..Len(log) /\ log[p].kind = "event" /\ p <= watermark
          <=> p \in 1..Len(log') /\ log'[p].kind = "event" /\ p <= watermark
    BY <1>3, <1>4, <2>1
  <2>3. QED
    BY <2>2 DEF IInv, ProjectionIsPrefix, EventsUpTo, Positions
<1>11. BatchInHand'
  <2>1. /\ batch' = <<Len(log) + 1, Len(log) + Len(kinds) + 1>>
        /\ watermark' = watermark /\ watermark \in 0..Len(log)
    BY DEF AppendBatch, IInv, TypeOK
  <2>2. /\ (batch[1] \in 1..Len(log))'
        /\ (batch[2] \in (watermark + 1)..Len(log))'
        /\ (log[batch[2]].kind = "noop")'
    BY <1>3, <1>4, <1>5, <2>1
  <2>3. (\A p \in 1..Len(log) : log[p].kind = "event" => p <= batch[2])'
    BY <1>4, <2>1
  <2>4. ASSUME NEW p \in 1..Len(log')
        PROVE  p \in txn' <=> log'[p].kind = "event" /\ watermark < p
    <3>1. CASE p \in 1..Len(log)
      BY <1>3, <1>4, <1>9, <2>1, <3>1 DEF AllFolded, AppendBatch
    <3>2. CASE p \notin 1..Len(log)
      <4>1. PICK i \in 1..(Len(kinds) + 1) : p = Len(log) + i
        <5>1. p - Len(log) \in 1..(Len(kinds) + 1) /\ p = Len(log) + (p - Len(log))
          BY <1>3, <1>4, <3>2
        <5>2. QED
          BY <5>1
      <4>2. CASE i \in 1..Len(kinds)
        <5>1. p \in txn' <=> kinds[i] = "event"
          BY <1>3, <4>1, <4>2 DEF AppendBatch
        <5>2. log'[p].kind = kinds[i] /\ watermark < p
          BY <1>3, <1>4, <2>1, <4>1, <4>2
        <5>3. QED
          BY <5>1, <5>2
      <4>3. CASE i = Len(kinds) + 1
        BY <1>3, <1>4, <2>1, <4>1, <4>3 DEF AppendBatch, Noop
      <4>4. QED
        BY <1>3, <4>2, <4>3
    <3>3. QED
      BY <3>1, <3>2
  <2>5. (txn = {p \in 1..Len(log) : log[p].kind = "event" /\ watermark < p})'
    BY <1>7, <2>1, <2>4
  <2>6. QED
    BY <2>2, <2>3, <2>5 DEF BatchInHand
<1>12. phase' = "appended" /\ pos' <= Len(log')
  BY <1>3, <1>4 DEF AppendBatch, AtCommand, IInv, TypeOK
<1>13. QED
  BY <1>5, <1>8, <1>10, <1>11, <1>12 DEF IInv, LogClosed

\* A dispatch and a refusal both append one batch.
LEMMA DispatchIInv == IInv /\ (Dispatch \/ RejectCommand) => IInv'
<1>1. ASSUME IInv, Dispatch PROVE IInv'
  <2>1. PICK kinds \in Outcomes : AppendBatch(kinds)
    BY <1>1 DEF Dispatch
  <2>2. QED
    BY <1>1, <2>1, AppendBatchIInv, OutcomesAssumption DEF Dispatch
<1>2. ASSUME IInv, RejectCommand PROVE IInv'
  <2>1. <<"reject">> \in Seq({"command", "event", "reject"})
    OBVIOUS
  <2>2. QED
    BY <1>2, <2>1, AppendBatchIInv DEF RejectCommand
<1>3. QED
  BY <1>1, <1>2

\* Committing moves the watermark over exactly the transaction in hand; the
\* remaining steps of the loop leave the durable state alone.
LEMMA LoopIInv ==
    IInv /\ (Commit \/ Report \/ SkipReadBack \/ RetryDispatch) => IInv'
<1> SUFFICES ASSUME IInv, Commit \/ Report \/ SkipReadBack \/ RetryDispatch
             PROVE  IInv'
  OBVIOUS
<1> USE DEF IInv
<1>1. CASE Commit
  <2>1. /\ BatchInHand /\ TypeOK /\ phase' = "committed"
        /\ batch[2] \in 1..Len(log) /\ watermark < batch[2]
    <3>1. phase = "appended" /\ phase' = "committed"
      BY <1>1 DEF Commit, Commits
    <3>2. BatchInHand /\ TypeOK
      BY <3>1
    <3>3. watermark \in Nat /\ Len(log) \in Nat /\ batch[2] \in (watermark + 1)..Len(log)
      BY <3>2 DEF BatchInHand, TypeOK
    <3>4. batch[2] \in 1..Len(log) /\ watermark < batch[2]
      <4> HIDE DEF IInv
      <4> QED BY <3>3
    <3>5. QED
      BY <3>1, <3>2, <3>4
  <2>2. applied' \subseteq 1..Len(log) /\ watermark' \in 0..Len(log)
    BY <1>1, <2>1 DEF Commit, Commits, TypeOK
  <2>3. TypeOK' /\ LogClosed'
    BY <1>1, <2>1, <2>2 DEF Commit, Commits, TypeOK, Phases, LogClosed
  <2>4. ProjectionIsPrefix'
    <3>1. \A p \in 1..Len(log) : log[p].kind = "event" =>
            p <= batch[2] /\ (p <= watermark \/ watermark < p)
      BY <2>1 DEF BatchInHand, TypeOK
    <3>2. \A p \in 1..Len(log) : p <= watermark => p <= batch[2]
      BY <2>1 DEF TypeOK
    <3>3. QED
      BY <1>1, <2>1, <3>1, <3>2
         DEF Commit, Commits, BatchInHand, ProjectionIsPrefix, EventsUpTo, Positions
  <2>5. AllFolded' /\ batch'[1] \in 1..Len(log') /\ pos' <= Len(log')
    BY <1>1, <2>1 DEF Commit, Commits, BatchInHand, AllFolded
  <2>6. QED
    BY <2>1, <2>3, <2>4, <2>5
<1>2. CASE Report
  <2> DEFINE rejects == {p \in batch[1]..batch[2] : log[p].kind = "reject"}
  <2>1. rejects \subseteq 1..Len(log) /\ pos \in 1..Len(log)
    BY <1>2 DEF Report, Reports, Rejects, TypeOK
  <2>2. reported' = reported \union ((lastApplied \union rejects) \X {pos})
    BY <1>2 DEF Report, Reports, Rejects
  <2> HIDE DEF rejects
  <2>3. reported' \subseteq (1..Len(log)) \X (1..Len(log))
    BY <2>1, <2>2 DEF TypeOK
  <2>4. TypeOK'
    BY <1>2, <2>1, <2>3 DEF Report, Reports, Rejects, durable, TypeOK, Phases
  <2>5. ProjectionIsPrefix' /\ LogClosed' /\ AllFolded' /\ phase' = "leading"
    BY <1>2 DEF Report, Reports, Rejects, durable, ProjectionIsPrefix, LogClosed, AllFolded
  <2>6. QED
    BY <2>4, <2>5
<1>3. CASE SkipReadBack
  <2>1. TypeOK'
    BY <1>3 DEF SkipReadBack, durable, TypeOK
  <2>2. QED
    BY <1>3, <2>1
       DEF SkipReadBack, durable, ProjectionIsPrefix, LogClosed, AllFolded
<1>4. CASE RetryDispatch
  <2>1. TypeOK'
    BY <1>4, OutcomesAssumption DEF RetryDispatch, AtCommand, durable, TypeOK
  <2>2. QED
    BY <1>4, <2>1 DEF RetryDispatch, AtCommand, durable, ProjectionIsPrefix,
                      LogClosed, AllFolded
<1>5. QED
  BY <1>1, <1>2, <1>3, <1>4

\* A halt and a crash drop only volatile state.
LEMMA StopIInv == IInv /\ (Halt \/ GoDown) => IInv'
<1> SUFFICES ASSUME IInv, Halt \/ GoDown PROVE IInv'
  OBVIOUS
<1> USE DEF IInv
<1>1. CASE Halt
  <2>1. TypeOK' /\ phase' = "halted"
    BY <1>1 DEF Halt, durable, TypeOK, Phases
  <2>2. QED
    BY <1>1, <2>1 DEF Halt, durable, ProjectionIsPrefix, LogClosed
<1>2. CASE GoDown
  <2>1. TypeOK' /\ phase' = "down" /\ txn' = {}
    BY <1>2, OutcomesAssumption DEF GoDown, durable, TypeOK, Phases
  <2>2. QED
    BY <1>2, <2>1 DEF GoDown, durable, ProjectionIsPrefix, LogClosed
<1>3. QED
  BY <1>1, <1>2

\* A stuttering step changes none of the state the invariant reads.
LEMMA StutterIInv == IInv /\ UNCHANGED vars => IInv'
  BY SMTT(30) DEF vars, IInv, TypeOK, ProjectionIsPrefix, LogClosed, AllFolded,
         BatchInHand, ResidueInHand, EventsUpTo, Positions

\* The invariant is inductive.
THEOREM Inductive == Spec => []IInv
<1>1. IInv /\ [Next]_vars => IInv'
  BY AppendCommandIInv, RecoverIInv, DispatchIInv, LoopIInv, StopIInv,
     StutterIInv DEF Next, Lead
<1>2. QED
  BY <1>1, InitIInv, PTL DEF Spec

\* The driver's state keeps its shape.
THEOREM TypeCorrect == Spec => []TypeOK
<1>1. IInv => TypeOK
  BY DEF IInv
<1>2. QED
  BY <1>1, Inductive, PTL

\* Storage is the fold of exactly the Events at or below the watermark, however
\* appends, commits, failures and crashes interleave.
THEOREM ProjectionCorrect == Spec => []ProjectionIsPrefix
<1>1. IInv => ProjectionIsPrefix
  BY DEF IInv
<1>2. QED
  BY <1>1, Inductive, PTL

\* run_leader's debug_assert on an Event it reads back never fires: by the time
\* the loop tails, every Event of the log is folded.
THEOREM ReadBackCorrect == Spec => []ReadBackIsApplied
<1>1. IInv => ReadBackIsApplied
  BY DEF IInv, TypeOK, AllFolded, ReadBackIsApplied, ProjectionIsPrefix,
         EventsUpTo, Positions
<1>2. QED
  BY <1>1, Inductive, PTL

-----------------------------------------------------------------------------
\* What a step does to the durable state: nothing, an append, or a commit that
\* moves the projection to a later batch boundary.
LEMMA DurableStep ==
    ASSUME IInv, IInv', [Next]_vars
    PROVE  \/ UNCHANGED durable
           \/ Projection!Grow
           \/ Projection!Fold
<1>1. CASE AppendCommand
  <2> DEFINE b == NoopTerminated(<<[kind |-> "command", cause |-> NoCause]>>)
  <2>1. b \in Seq(Entry) /\ log \in Seq(Entry)
    BY BareCommand DEF IInv, TypeOK
  <2>2. log' = log \o b
    BY <1>1 DEF AppendCommand
  <2> HIDE DEF b
  <2>3. Len(log') >= Len(log) /\ \A p \in 1..Len(log) : log'[p] = log[p]
    BY <2>1, <2>2, AppendKeeps
  <2>4. QED
    BY <1>1, <2>3 DEF AppendCommand, Projection!Grow
<1>2. CASE Dispatch \/ RejectCommand
  <2>1. PICK kinds \in Seq({"command", "event", "reject"}) : AppendBatch(kinds)
    <3>1. CASE Dispatch
      BY <3>1, OutcomesAssumption DEF Dispatch
    <3>2. CASE RejectCommand
      <4>1. <<"reject">> \in Seq({"command", "event", "reject"})
        OBVIOUS
      <4>2. QED
        BY <3>2, <4>1 DEF RejectCommand
    <3>3. QED
      BY <1>2, <3>1, <3>2
  <2> DEFINE b == Batch(kinds, pos)
  <2>2. b \in Seq(Entry) /\ log \in Seq(Entry)
    <3>1. pos \in Nat /\ log \in Seq(Entry)
      BY DEF IInv, TypeOK
    <3>2. QED
      BY <3>1, BatchShape
  <2>3. log' = log \o b
    BY <2>1 DEF AppendBatch
  <2> HIDE DEF b
  <2>4. Len(log') >= Len(log) /\ \A p \in 1..Len(log) : log'[p] = log[p]
    BY <2>2, <2>3, AppendKeeps
  <2>5. QED
    BY <1>2, <2>4 DEF Dispatch, RejectCommand, Projection!Grow
<1>3. ASSUME NEW n \in (watermark + 1)..Len(log), log[n].kind = "noop",
             watermark' = n, UNCHANGED log
      PROVE  Projection!Fold
  <2>1. applied' = EventsUpTo(log, n)
    BY <1>3 DEF IInv, ProjectionIsPrefix, EventsUpTo, Positions
  <2>2. EventsUpTo(log, n) = Projection!EventsUpTo(log, n)
    BY DEF Projection!EventsUpTo, Projection!Positions, EventsUpTo, Positions
  <2>3. QED
    BY <1>3, <2>1, <2>2 DEF Projection!Fold
<1>4. CASE Commit
  BY <1>3, <1>4 DEF Commit, Commits, IInv, BatchInHand
<1>5. CASE RecoverNoop /\ txn # {}
  BY <1>3, <1>5 DEF RecoverNoop, IInv, TypeOK, ResidueInHand
<1>6. CASE \/ Boot \/ RecoverEvent \/ RecoverSkip \/ StartTailing
           \/ Report \/ SkipReadBack \/ RetryDispatch \/ Halt \/ GoDown
           \/ (RecoverNoop /\ txn = {})
  BY <1>6 DEF Boot, RecoverEvent, RecoverSkip, StartTailing, Tailing, Report, Reports, Rejects,
              SkipReadBack, RetryDispatch, Halt, GoDown, RecoverNoop, durable
<1>7. CASE UNCHANGED vars
  BY <1>7 DEF vars, durable
<1>8. QED
  BY <1>1, <1>2, <1>4, <1>5, <1>6, <1>7 DEF Next, Recover, Lead

\* The leader implements the abstract projection: every step is an append, a move
\* of the projection to a later batch boundary, or invisible.
THEOREM Refinement == Spec => RefinesProjection
<1>1. Init => Projection!Init
  BY DEF Init, Projection!Init
<1>2. IInv /\ IInv' /\ [Next]_vars => [Projection!Next]_(Projection!pvars)
  BY DurableStep DEF Projection!Next, Projection!pvars, durable
<1>3. QED
  BY <1>1, <1>2, Inductive, PTL DEF Spec, RefinesProjection, Projection!Spec

\* Nothing durable is ever taken back: the log is only extended, the watermark
\* never retreats, no fold is undone.
THEOREM DurableGrowth == Spec => DurableOnlyGrows
<1> DEFINE A == /\ Len(log') >= Len(log)
                /\ \A p \in 1..Len(log) : log'[p] = log[p]
                /\ watermark' >= watermark
                /\ applied \subseteq applied'
<1>1. ASSUME IInv, IInv', [Next]_vars PROVE [A]_durable
  <2>1. CASE UNCHANGED durable
    BY <2>1
  <2>2. CASE Projection!Grow
    <3>1. watermark' = watermark /\ watermark \in Nat
      BY <2>2, <1>1 DEF Projection!Grow, IInv, TypeOK
    <3>2. QED
      BY <2>2, <3>1 DEF Projection!Grow
  <2>3. CASE Projection!Fold
    <3>1. log' = log /\ Len(log) \in Nat /\ watermark \in Nat /\ watermark' \in Nat
          /\ watermark' > watermark
      BY <1>1, <2>3 DEF Projection!Fold, IInv, TypeOK
    <3>2. applied \subseteq applied'
      BY <1>1, <3>1, SMTT(30) DEF IInv, ProjectionIsPrefix, EventsUpTo, Positions, TypeOK
    <3>3. QED
      BY <3>1, <3>2
  <2>4. QED
    BY <1>1, <2>1, <2>2, <2>3, DurableStep
<1>2. QED
  BY <1>1, Inductive, PTL DEF Spec, DurableOnlyGrows

=============================================================================
