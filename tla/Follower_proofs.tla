--------------------------- MODULE Follower_proofs ---------------------------
(***************************************************************************)
(* For every log length, dispatch outcome and number of crashes, over the   *)
(* vector and over the RocksDB store: the stream has no gap, and the        *)
(* follower implements the abstract projection.                             *)
(***************************************************************************)
EXTENDS Follower, FiniteSetTheorems, TLAPS

StampedEntry == [kind : Kinds, cause : Nat, id : Nat]

\* The log is contiguous and names its entries by their positions, and the
\* counter on disk agrees with the one in memory.
LogInv ==
    /\ nextId \in Nat \ {0}
    /\ DOMAIN rows = 1..(nextId - 1)
    /\ \A p \in DOMAIN rows : rows[p] \in StampedEntry /\ rows[p].id = p
    /\ backend \in {"memory", "rocks"}
    /\ backend = "rocks" => metaNext = nextId

\* What was swept is the stretch of the log from the cursor on.
ReaderInv ==
    /\ next \in 1..nextId
    /\ buffer \in Seq(StampedEntry)
    /\ \A i \in 1..Len(buffer) : next + i - 1 < nextId /\ buffer[i] = rows[next + i - 1]

EventsBetween(lo, hi) == {p \in DOMAIN rows : rows[p].kind = "event" /\ lo < p /\ p <= hi}

\* The projection reflects the Events up to the watermark, and the held
\* transaction those from there to the cursor.
FoldInv ==
    /\ watermark \in 0..(nextId - 1)
    /\ applied = EventsBetween(0, watermark)
    /\ reader = "none" => txn = {} /\ buffer = <<>>
    /\ reader # "none" => watermark < next /\ txn = EventsBetween(watermark, next - 1)

IInv == LogInv /\ ReaderInv /\ FoldInv

-----------------------------------------------------------------------------
\* The log holds as many rows as positions were given out.
LEMMA RowCount == ASSUME LogInv PROVE Cardinality(DOMAIN rows) = nextId - 1
<1>1. Cardinality(1..(nextId - 1)) = IF 1 > nextId - 1 THEN 0 ELSE nextId - 1 - 1 + 1
  BY FS_Interval DEF LogInv
<1>2. QED
  BY <1>1 DEF LogInv

\* The log as its users see it has every row at its own position.
LEMMA LogShape ==
    ASSUME LogInv
    PROVE  /\ Log \in Seq(Entry)
           /\ Len(Log) = nextId - 1
           /\ \A p \in DOMAIN rows : Log[p] = [kind |-> rows[p].kind, cause |-> rows[p].cause]
<1>1. Log = [p \in 1..(nextId - 1) |-> [kind |-> rows[p].kind, cause |-> rows[p].cause]]
  BY RowCount DEF Log, LogInv
<1>2. nextId - 1 \in Nat /\ DOMAIN rows = 1..(nextId - 1)
  BY DEF LogInv
<1>3. \A p \in 1..(nextId - 1) : [kind |-> rows[p].kind, cause |-> rows[p].cause] \in Entry
  BY DEF LogInv, StampedEntry, Entry
<1>4. Log \in Seq(Entry) /\ Len(Log) = nextId - 1
  BY <1>1, <1>2, <1>3
<1>5. QED
  BY <1>1, <1>2, <1>4

\* Every batch a leader appends is a sequence of entries.
LEMMA AppendsShape == ASSUME LogInv, NEW es \in Appends PROVE es \in Seq(Entry)
<1>1. CASE es = NoopTerminated(<<[kind |-> "command", cause |-> NoCause]>>)
  <2> DEFINE c == [kind |-> "command", cause |-> NoCause]
  <2>1. c \in Entry /\ Noop(NoCause) \in Entry
    BY DEF Entry, Kinds, Noop, NoCause
  <2> HIDE DEF c
  <2>2. <<c>> \in Seq(Entry) /\ Append(<<c>>, Noop(NoCause)) \in Seq(Entry)
    BY <2>1
  <2>3. es = <<c>> \/ es = Append(<<c>>, Noop(NoCause))
    BY <1>1 DEF NoopTerminated, c
  <2>4. QED
    BY <2>2, <2>3
<1>2. CASE \E kinds \in Outcomes, c \in Positions(Log, "command") : es = Batch(kinds, c)
  <2>1. PICK kinds \in Outcomes, c \in Positions(Log, "command") : es = Batch(kinds, c)
    BY <1>2
  <2>2. kinds \in Seq({"command", "event", "reject"})
    BY FollowerAssumption
  <2>3. c \in Nat
    BY LogShape DEF Positions, LogInv
  <2> DEFINE body == [i \in 1..Len(kinds) |-> [kind |-> kinds[i], cause |-> c]]
  <2>4. body \in Seq(Entry) /\ Noop(c) \in Entry
    BY <2>2, <2>3 DEF Entry, Kinds, Noop
  <2>5. es = Append(body, Noop(c))
    BY <2>1 DEF Batch
  <2> HIDE DEF body
  <2>6. QED
    BY <2>4, <2>5
<1>3. QED
  BY <1>1, <1>2 DEF Appends

\* An appended entry carries the position it will be stored under.
LEMMA StampedShape ==
    ASSUME LogInv, NEW es \in Seq(Entry), NEW i \in 1..Len(es)
    PROVE  Stamped(es)[i] \in StampedEntry /\ Stamped(es)[i].id = nextId + i - 1
<1>1. es[i] \in Entry /\ nextId + i - 1 \in Nat
  BY DEF LogInv
<1>2. Stamped(es)[i] = [kind |-> es[i].kind, cause |-> es[i].cause, id |-> nextId + i - 1]
  BY DEF Stamped
<1>3. QED
  BY <1>1, <1>2 DEF Entry, StampedEntry

\* An append, failed or not, keeps the log contiguous and what it already holds.
LEMMA AppendStep ==
    ASSUME LogInv, Replicate
    PROVE  LogInv' /\ nextId' >= nextId /\ \A p \in DOMAIN rows : rows'[p] = rows[p]
<1>1. PICK es \in Appends : MemAppend(es) \/ RocksAppend(es)
  BY DEF Replicate
<1>2. es \in Seq(Entry) /\ Len(es) \in Nat /\ nextId \in Nat \ {0} /\ backend' = backend
  BY <1>1, AppendsShape DEF LogInv, Replicate
<1> DEFINE more == [p \in nextId..(nextId + Len(es) - 1) |-> Stamped(es)[p - nextId + 1]]
<1>3. ASSUME nextId' = nextId + Len(es), backend = "rocks" => metaNext' = nextId',
             DOMAIN rows' = DOMAIN rows \union DOMAIN more,
             \A p \in DOMAIN rows : rows'[p] = rows[p],
             \A p \in DOMAIN more : rows'[p] = more[p]
      PROVE  LogInv' /\ nextId' >= nextId
  <2>1. DOMAIN rows' = 1..(nextId' - 1)
    BY <1>2, <1>3 DEF LogInv
  <2>2. \A p \in DOMAIN more : rows'[p] \in StampedEntry /\ rows'[p].id = p
    <3>1. TAKE p \in DOMAIN more
    <3>2. p - nextId + 1 \in 1..Len(es) /\ p \in Nat
      BY <1>2
    <3>3. /\ Stamped(es)[p - nextId + 1] \in StampedEntry
          /\ Stamped(es)[p - nextId + 1].id = nextId + (p - nextId + 1) - 1
      BY <1>2, <3>2, StampedShape
    <3>4. rows'[p] = Stamped(es)[p - nextId + 1]
      BY <1>3
    <3>5. QED
      BY <1>2, <3>2, <3>3, <3>4
  <2>3. \A p \in DOMAIN rows : rows'[p] \in StampedEntry /\ rows'[p].id = p
    BY <1>3 DEF LogInv
  <2>4. \A p \in DOMAIN rows' : rows'[p] \in StampedEntry /\ rows'[p].id = p
    BY <1>3, <2>2, <2>3
  <2>5. QED
    BY <1>2, <1>3, <2>1, <2>4 DEF LogInv
<1>4. DOMAIN rows \intersect DOMAIN more = {}
  BY <1>2 DEF LogInv
<1>5. CASE MemAppend(es)
  <2>1. rows' = Stored([p \in (nextId - 1 + 1)..(nextId - 1 + Len(es)) |->
                            Stamped(es)[p - (nextId - 1)]])
    BY <1>5, RowCount DEF MemAppend
  <2>2. [p \in (nextId - 1 + 1)..(nextId - 1 + Len(es)) |-> Stamped(es)[p - (nextId - 1)]] = more
    <3>1. (nextId - 1 + 1)..(nextId - 1 + Len(es)) = nextId..(nextId + Len(es) - 1)
      BY <1>2
    <3>2. \A p \in nextId..(nextId + Len(es) - 1) : p - (nextId - 1) = p - nextId + 1
      BY <1>2
    <3>3. QED
      BY <3>1, <3>2
  <2> HIDE DEF more
  <2>3. rows' = Stored(more)
    BY <2>1, <2>2
  <2>4. /\ DOMAIN rows' = DOMAIN rows \union DOMAIN more
        /\ \A p \in DOMAIN rows : rows'[p] = rows[p]
        /\ \A p \in DOMAIN more : rows'[p] = more[p]
    BY <1>4, <2>3 DEF Stored
  <2>5. QED
    BY <1>3, <1>5, <2>4 DEF MemAppend
<1>6. CASE RocksAppend(es)
  <2>1. CASE UNCHANGED <<rows, metaNext, nextId, changed>>
    BY <1>2, <2>1 DEF LogInv
  <2>2. CASE rows' = Stored(more) /\ metaNext' = nextId + Len(es) /\ nextId' = nextId + Len(es)
    <3> HIDE DEF more
    <3>1. /\ DOMAIN rows' = DOMAIN rows \union DOMAIN more
          /\ \A p \in DOMAIN rows : rows'[p] = rows[p]
          /\ \A p \in DOMAIN more : rows'[p] = more[p]
      BY <1>4, <2>2 DEF Stored
    <3>2. QED
      BY <1>3, <2>2, <3>1
  <2>3. QED
    BY <1>6, <2>1, <2>2 DEF RocksAppend
<1>7. QED
  BY <1>1, <1>5, <1>6

\* A pass over either store finds the stretch of the log from the cursor on.
LEMMA SweptShape ==
    ASSUME LogInv, next \in 1..nextId
    PROVE  /\ Swept \in Seq(StampedEntry)
           /\ \A i \in 1..Len(Swept) : next + i - 1 < nextId /\ Swept[i] = rows[next + i - 1]
<1>1. nextId \in Nat \ {0} /\ next \in Nat \ {0} /\ next <= nextId
  BY DEF LogInv
<1>2. CASE backend = "memory" /\ next \in DOMAIN rows
  <2>1. Swept = <<rows[next]>> /\ rows[next] \in StampedEntry /\ next < nextId
    BY <1>1, <1>2 DEF Swept, LogInv
  <2>2. QED
    BY <1>1, <2>1
<1>3. CASE backend = "memory" /\ next \notin DOMAIN rows
  <2>1. Swept = <<>>
    BY <1>3 DEF Swept
  <2>2. QED
    BY <2>1
<1>4. CASE backend # "memory"
  <2> DEFINE found == {p \in DOMAIN rows : p >= next}
             nth(i) == CHOOSE p \in found : Cardinality({q \in found : q <= p}) = i
             n == nextId - next
  <2>1. found = next..(nextId - 1) /\ n \in Nat /\ n = nextId - next
    BY <1>1 DEF LogInv
  <2> HIDE DEF found, n
  <2>2. Cardinality(found) = n
    <3>1. Cardinality(next..(nextId - 1))
            = IF next > nextId - 1 THEN 0 ELSE nextId - 1 - next + 1
      BY <1>1, FS_Interval
    <3>2. QED
      BY <1>1, <2>1, <3>1
  <2>3. ASSUME NEW p \in found PROVE Cardinality({q \in found : q <= p}) = p - next + 1
    <3>1. p \in Nat /\ next <= p /\ p <= nextId - 1
      BY <1>1, <2>1
    <3>2. {q \in found : q <= p} = next..p
      BY <1>1, <2>1, <3>1
    <3>3. Cardinality(next..p) = IF next > p THEN 0 ELSE p - next + 1
      BY <1>1, <3>1, FS_Interval
    <3>4. Cardinality(next..p) = p - next + 1
      BY <1>1, <3>1, <3>3
    <3>5. QED
      BY <3>2, <3>4, Zenon
  <2>4. ASSUME NEW i \in 1..n PROVE nth(i) = next + i - 1 /\ next + i - 1 \in found
    <3>1. next + i - 1 \in found
      BY <1>1, <2>1
    <3>2. Cardinality({q \in found : q <= next + i - 1}) = i
      <4>1. Cardinality({q \in found : q <= next + i - 1}) = (next + i - 1) - next + 1
        BY <2>3, <3>1
      <4>2. QED
        BY <1>1, <4>1
    <3>3. nth(i) \in found /\ Cardinality({q \in found : q <= nth(i)}) = i
      BY <3>1, <3>2
    <3> HIDE DEF nth
    <3>4. i = nth(i) - next + 1
      BY <2>3, <3>3
    <3>5. nth(i) \in Nat
      BY <1>1, <2>1, <3>3
    <3>6. QED
      BY <1>1, <3>1, <3>4, <3>5
  <2>5. Swept = [i \in 1..Cardinality(found) |-> rows[nth(i)]]
    BY <1>4 DEF Swept, found
  <2> HIDE DEF nth
  <2>6. Swept = [i \in 1..n |-> rows[next + i - 1]]
    BY <2>2, <2>4, <2>5
  <2>7. \A i \in 1..n : rows[next + i - 1] \in StampedEntry /\ next + i - 1 < nextId
    <3>1. TAKE i \in 1..n
    <3>2. next + i - 1 \in next..(nextId - 1)
      BY <2>1, <2>4
    <3>3. next + i - 1 \in DOMAIN rows /\ next + i - 1 < nextId
      BY <1>1, <3>2 DEF LogInv
    <3>4. QED
      BY <3>3 DEF LogInv
  <2>8. Swept \in Seq(StampedEntry) /\ Len(Swept) = n
    BY <2>1, <2>6, <2>7
  <2>9. QED
    BY <2>6, <2>7, <2>8
<1>5. QED
  BY <1>2, <1>3, <1>4

\* Taking one entry off the buffer moves the cursor past exactly that entry.
LEMMA YieldStep ==
    ASSUME IInv, Yield
    PROVE  /\ LogInv' /\ ReaderInv'
           /\ Yielded.id = next /\ Yielded = rows[next] /\ next \in DOMAIN rows
           /\ reader # "none"
<1>1. /\ buffer \in Seq(StampedEntry) /\ buffer # <<>> /\ next \in Nat \ {0}
      /\ nextId \in Nat \ {0} /\ buffer' = Tail(buffer) /\ next' = next + 1
      /\ UNCHANGED <<backend, rows, nextId, metaNext, reader>>
  BY DEF Yield, IInv, LogInv, ReaderInv, logVars
<1>2. Len(buffer) \in Nat \ {0} /\ Yielded = buffer[1]
  BY <1>1 DEF Yielded
<1>3. /\ Tail(buffer) \in Seq(StampedEntry) /\ Len(Tail(buffer)) = Len(buffer) - 1
      /\ \A i \in 1..Len(Tail(buffer)) : Tail(buffer)[i] = buffer[i + 1]
  BY <1>1
<1>4. next + 1 - 1 < nextId /\ buffer[1] = rows[next + 1 - 1]
  BY <1>2 DEF IInv, ReaderInv
<1>5. next < nextId /\ buffer[1] = rows[next] /\ next \in DOMAIN rows
  BY <1>1, <1>4 DEF IInv, LogInv
<1>6. \A i \in 1..Len(Tail(buffer)) :
        next + 1 + i - 1 < nextId /\ Tail(buffer)[i] = rows[next + 1 + i - 1]
  <2>1. TAKE i \in 1..Len(Tail(buffer))
  <2>2. i + 1 \in 1..Len(buffer) /\ next + (i + 1) - 1 = next + 1 + i - 1
    BY <1>1, <1>2, <1>3
  <2>3. next + (i + 1) - 1 < nextId /\ buffer[i + 1] = rows[next + (i + 1) - 1]
    BY <2>2 DEF IInv, ReaderInv
  <2>4. QED
    BY <1>3, <2>2, <2>3
<1>7. ReaderInv'
  BY <1>1, <1>3, <1>5, <1>6 DEF ReaderInv
<1>8. LogInv'
  BY <1>1 DEF IInv, LogInv
<1>9. Yielded.id = next
  BY <1>2, <1>5 DEF IInv, LogInv
<1>10. reader # "none"
  BY <1>1 DEF IInv, FoldInv
<1>11. QED
  BY <1>2, <1>5, <1>7, <1>8, <1>9, <1>10

\* The empty log and the empty replica satisfy the invariant.
LEMMA Initially == Init => IInv
<1> SUFFICES ASSUME Init PROVE IInv
  OBVIOUS
<1>1. LogInv
  BY DEF Init, StreamInit, LogInv
<1>2. ReaderInv
  BY DEF Init, StreamInit, ReaderInv
<1>3. FoldInv
  BY DEF Init, StreamInit, FoldInv, EventsBetween
<1>4. QED
  BY <1>1, <1>2, <1>3 DEF IInv

\* An append disturbs neither the buffer nor what was folded.
LEMMA ReplicateIInv == ASSUME IInv, Replicate PROVE IInv'
<1>1. LogInv' /\ nextId' >= nextId /\ \A p \in DOMAIN rows : rows'[p] = rows[p]
  BY AppendStep DEF IInv
<1>2. UNCHANGED <<reader, next, buffer, watermark, applied, txn>>
  BY DEF Replicate, MemAppend, RocksAppend, readerVars, followerVars
<1>3. /\ nextId \in Nat \ {0} /\ nextId' \in Nat \ {0} /\ nextId' >= nextId
      /\ next \in 1..nextId /\ watermark \in 0..(nextId - 1)
      /\ DOMAIN rows = 1..(nextId - 1) /\ DOMAIN rows' = 1..(nextId' - 1)
  BY <1>1 DEF IInv, LogInv, ReaderInv, FoldInv
<1>4. ReaderInv'
  <2>1. \A i \in 1..Len(buffer) : next + i - 1 < nextId' /\ buffer[i] = rows'[next + i - 1]
    <3>1. TAKE i \in 1..Len(buffer)
    <3>2. next + i - 1 < nextId /\ buffer[i] = rows[next + i - 1] /\ i \in Nat \ {0}
      BY DEF IInv, ReaderInv
    <3>3. next + i - 1 \in DOMAIN rows /\ next + i - 1 < nextId'
      BY <1>3, <3>2
    <3>4. rows'[next + i - 1] = rows[next + i - 1]
      BY <1>1, <3>3
    <3>5. QED
      BY <3>2, <3>3, <3>4
  <2>2. next' \in 1..nextId'
    BY <1>2, <1>3
  <2>3. QED
    BY <1>2, <2>1, <2>2 DEF IInv, ReaderInv
<1>5. ASSUME NEW lo \in Nat, NEW hi \in Nat, hi < nextId
      PROVE  {p \in DOMAIN rows' : rows'[p].kind = "event" /\ lo < p /\ p <= hi}
               = EventsBetween(lo, hi)
  BY <1>1, <1>3, <1>5 DEF EventsBetween
<1>6. FoldInv'
  <2>1. applied' = EventsBetween(0, watermark)'
    BY <1>2, <1>3, <1>5 DEF IInv, FoldInv, EventsBetween
  <2>2. reader # "none" => txn' = EventsBetween(watermark, next - 1)'
    BY <1>2, <1>3, <1>5 DEF IInv, FoldInv, EventsBetween
  <2>3. watermark' \in 0..(nextId' - 1)
    <3>1. watermark \in Nat /\ nextId' \in Nat /\ watermark < nextId'
      BY <1>3
    <3>2. \A w, n \in Nat : w < n => w \in 0..(n - 1)
      OBVIOUS
    <3>3. watermark \in 0..(nextId' - 1)
      BY <3>1, <3>2
    <3>4. QED
      BY <1>2, <3>3
  <2>4. QED
    BY <1>2, <2>1, <2>2, <2>3 DEF IInv, FoldInv
<1>7. QED
  BY <1>1, <1>4, <1>6 DEF IInv

\* A step that leaves the log, the projection and the held transaction alone.
LEMMA QuietIInv ==
    ASSUME IInv, ReaderInv', UNCHANGED <<backend, rows, nextId, metaNext>>,
           UNCHANGED <<watermark, applied, txn>>,
           reader' = "none" => reader = "none" /\ buffer' = <<>>,
           reader' # "none" => reader # "none" /\ next' = next
    PROVE  IInv'
<1>1. LogInv'
  BY DEF IInv, LogInv
<1>2. FoldInv'
  BY DEF IInv, FoldInv, EventsBetween
<1>3. QED
  BY <1>1, <1>2 DEF IInv

\* A replica that starts tails from one past its watermark, with nothing held.
LEMMA BootIInv == ASSUME IInv, Boot PROVE IInv'
<1>1. /\ nextId \in Nat \ {0} /\ watermark \in Nat /\ watermark < nextId
      /\ DOMAIN rows = 1..(nextId - 1) /\ txn = {}
  BY DEF IInv, LogInv, FoldInv, Boot
<1>2. /\ next' = watermark + 1 /\ buffer' = <<>> /\ reader' = "sweep"
      /\ UNCHANGED <<backend, rows, nextId, metaNext, watermark, applied, txn>>
  BY <1>1 DEF Boot, StreamRead, logVars, followerVars
<1>3. LogInv'
  BY <1>2 DEF IInv, LogInv
<1>4. ReaderInv'
  BY <1>1, <1>2 DEF ReaderInv
<1>5. EventsBetween(watermark, watermark) = {}
  BY <1>1 DEF EventsBetween
<1>6. FoldInv'
  <2>1. applied' = EventsBetween(0, watermark)' /\ watermark' \in 0..(nextId' - 1)
    BY <1>2 DEF IInv, FoldInv, EventsBetween
  <2>2. next' - 1 = watermark' /\ watermark' < next'
    BY <1>1, <1>2
  <2>3. txn' = EventsBetween(watermark, next - 1)'
    BY <1>1, <1>2, <1>5, <2>2 DEF EventsBetween
  <2>4. QED
    BY <1>2, <2>1, <2>2, <2>3 DEF FoldInv
<1>7. QED
  BY <1>3, <1>4, <1>6 DEF IInv

\* Sweeping, waiting and waking move no cursor.
LEMMA TailLogIInv == ASSUME IInv, TailLog PROVE IInv'
<1>1. UNCHANGED <<backend, rows, nextId, metaNext, next, watermark, applied, txn>>
  BY DEF TailLog, Sweep, Park, Wake, logVars, followerVars
<1>2. reader # "none" /\ reader' # "none"
  BY DEF TailLog, Sweep, Park, Wake
<1>3. CASE Sweep
  <2>1. /\ buffer' \in Seq(StampedEntry)
        /\ \A i \in 1..Len(buffer') : next + i - 1 < nextId /\ buffer'[i] = rows[next + i - 1]
    BY <1>3, SweptShape DEF Sweep, IInv, ReaderInv
  <2>2. ReaderInv'
    BY <1>1, <2>1 DEF IInv, ReaderInv
  <2>3. QED
    BY <1>1, <1>2, <2>2, QuietIInv
<1>4. CASE Park \/ Wake
  <2>1. buffer' = buffer
    BY <1>4 DEF Park, Wake
  <2>2. ReaderInv'
    BY <1>1, <2>1 DEF IInv, ReaderInv
  <2>3. QED
    BY <1>1, <1>2, <2>2, QuietIInv
<1>5. QED
  BY <1>3, <1>4 DEF TailLog

\* What reading the entry at the cursor adds to the Events not yet committed.
LEMMA ReadStep ==
    ASSUME IInv, NEW kinds, Reads(kinds)
    PROVE  /\ LogInv' /\ ReaderInv' /\ reader' # "none" /\ next' = next + 1
           /\ Yielded.id = next /\ rows[next].kind \in kinds
           /\ next \in DOMAIN rows /\ watermark < next
           /\ rows' = rows /\ nextId' = nextId
           /\ EventsBetween(watermark, next)
                = txn \union (IF rows[next].kind = "event" THEN {next} ELSE {})
<1>1. Yield
  BY DEF Reads
<1>2. /\ LogInv' /\ ReaderInv' /\ reader # "none" /\ Yielded.id = next
      /\ Yielded = rows[next] /\ next \in DOMAIN rows
  BY <1>1, YieldStep
<1>3. reader' = reader /\ next' = next + 1 /\ rows' = rows /\ nextId' = nextId
  BY <1>1 DEF Yield, logVars
<1>4. rows[next].kind \in kinds
  BY <1>2 DEF Reads
<1>5. watermark < next /\ txn = EventsBetween(watermark, next - 1)
  BY <1>2 DEF IInv, FoldInv
<1>6. next \in Nat /\ watermark \in Nat /\ DOMAIN rows \subseteq Nat
  BY <1>2 DEF IInv, LogInv, FoldInv
<1>7. EventsBetween(watermark, next)
        = EventsBetween(watermark, next - 1)
            \union (IF rows[next].kind = "event" THEN {next} ELSE {})
  BY <1>2, <1>5, <1>6 DEF EventsBetween
<1>8. QED
  BY <1>2, <1>3, <1>4, <1>5, <1>7

\* A read that commits nothing keeps the invariant when the held transaction
\* grows by exactly the Event read.
LEMMA UncommittedIInv ==
    ASSUME IInv, NEW kinds, Reads(kinds), UNCHANGED <<watermark, applied>>,
           txn' = EventsBetween(watermark, next)
    PROVE  IInv'
<1>1. /\ LogInv' /\ ReaderInv' /\ reader' # "none" /\ next' = next + 1
      /\ next \in DOMAIN rows /\ watermark < next /\ rows' = rows /\ nextId' = nextId
  BY ReadStep
<1>2. next \in Nat /\ watermark \in Nat
  BY DEF IInv, LogInv, ReaderInv, FoldInv
<1>3. next' - 1 = next /\ watermark' < next'
  BY <1>1, <1>2
<1>4. txn' = EventsBetween(watermark, next - 1)'
  BY <1>1, <1>3 DEF EventsBetween
<1>5. applied' = EventsBetween(0, watermark)' /\ watermark' \in 0..(nextId' - 1)
  BY <1>1 DEF IInv, FoldInv, EventsBetween
<1>6. QED
  BY <1>1, <1>3, <1>4, <1>5 DEF IInv, FoldInv

\* What a commit at the Noop under the cursor makes of the projection.
LEMMA CommitStep ==
    ASSUME IInv, RoundOff, txn # {}
    PROVE  /\ watermark' = next /\ applied' = EventsBetween(0, next) /\ rows[next].kind = "noop"
           /\ next \in DOMAIN rows /\ watermark < next /\ rows' = rows
<1>1. Reads({"noop"})
  BY DEF RoundOff
<1>2. /\ Yielded.id = next /\ rows[next].kind \in {"noop"} /\ next \in DOMAIN rows
      /\ watermark < next /\ rows' = rows
      /\ EventsBetween(watermark, next)
           = txn \union (IF rows[next].kind = "event" THEN {next} ELSE {})
  BY <1>1, ReadStep
<1>3. watermark' = next /\ applied' = applied \union txn
  BY <1>2 DEF RoundOff, CommitAtNoop
<1>4. txn = EventsBetween(watermark, next) /\ applied = EventsBetween(0, watermark)
  BY <1>2 DEF IInv, FoldInv
<1>5. watermark \in Nat /\ next \in Nat /\ DOMAIN rows \subseteq Nat
  BY DEF IInv, FoldInv, LogInv, ReaderInv
<1>6. EventsBetween(0, next) = EventsBetween(0, watermark) \union EventsBetween(watermark, next)
  BY <1>2, <1>5 DEF EventsBetween
<1>7. QED
  BY <1>2, <1>3, <1>4, <1>6

\* run_follower's Noop arm leaves nothing held, whether or not it commits.
LEMMA RoundOffIInv == ASSUME IInv, RoundOff PROVE IInv'
<1>1. Reads({"noop"}) /\ txn' = {}
  BY DEF RoundOff
<1>2. /\ LogInv' /\ ReaderInv' /\ reader' # "none" /\ next' = next + 1
      /\ rows[next].kind \in {"noop"} /\ next \in DOMAIN rows /\ nextId' = nextId
      /\ EventsBetween(watermark, next)
           = txn \union (IF rows[next].kind = "event" THEN {next} ELSE {})
  BY <1>1, ReadStep
<1>3. CASE txn = {}
  <2>1. EventsBetween(watermark, next) = {}
    BY <1>2, <1>3
  <2>2. UNCHANGED <<watermark, applied>>
    BY <1>3 DEF RoundOff
  <2>3. QED
    BY <1>1, <2>1, <2>2, UncommittedIInv
<1>4. CASE txn # {}
  <2>1. watermark' = next /\ applied' = EventsBetween(0, next) /\ rows' = rows
    BY <1>4, CommitStep
  <2>2. next \in Nat /\ nextId \in Nat /\ next < nextId /\ DOMAIN rows \subseteq Nat
    BY <1>2 DEF IInv, LogInv
  <2>3. applied' = EventsBetween(0, watermark)'
    BY <2>1 DEF EventsBetween
  <2>4. EventsBetween(next, next) = {}
    BY <2>2 DEF EventsBetween
  <2>5. next' - 1 = next /\ watermark' < next' /\ watermark' \in 0..(nextId' - 1)
    BY <1>2, <2>1, <2>2
  <2>6. txn' = EventsBetween(watermark, next - 1)'
    BY <1>1, <2>1, <2>4, <2>5 DEF EventsBetween
  <2>7. QED
    BY <1>2, <2>3, <2>5, <2>6 DEF IInv, FoldInv
<1>5. QED
  BY <1>3, <1>4

\* A crash loses what was held and nothing else.
LEMMA GoDownIInv == ASSUME IInv, GoDown PROVE IInv'
<1>1. /\ UNCHANGED <<backend, rows, metaNext, watermark, applied>> /\ txn' = {}
      /\ reader' = "none" /\ next' = 1 /\ buffer' = <<>>
  BY DEF GoDown, Drop
<1>2. nextId' = nextId
  BY DEF GoDown, RocksOpen, IInv, LogInv
<1>3. LogInv'
  BY <1>1, <1>2 DEF IInv, LogInv
<1>4. ReaderInv'
  BY <1>1, <1>2 DEF IInv, LogInv, ReaderInv
<1>5. FoldInv'
  BY <1>1, <1>2 DEF IInv, FoldInv, EventsBetween
<1>6. QED
  BY <1>3, <1>4, <1>5 DEF IInv

\* Every step keeps the invariant.
LEMMA StepIInv == ASSUME IInv, [Next]_vars PROVE IInv'
<1>1. CASE Skip
  <2>1. Reads({"command", "reject"}) /\ UNCHANGED <<watermark, applied, txn>>
    BY <1>1 DEF Skip
  <2>2. txn' = EventsBetween(watermark, next)
    <3>1. /\ rows[next].kind \in {"command", "reject"}
          /\ EventsBetween(watermark, next)
               = txn \union (IF rows[next].kind = "event" THEN {next} ELSE {})
      BY <2>1, ReadStep
    <3>2. QED
      BY <2>1, <3>1
  <2>3. QED
    BY <2>1, <2>2, UncommittedIInv
<1>2. CASE FoldEvent
  <2>1. /\ Reads({"event"}) /\ UNCHANGED <<watermark, applied>>
        /\ txn' = txn \union {Yielded.id}
    BY <1>2 DEF FoldEvent, ApplyEvent
  <2>2. txn' = EventsBetween(watermark, next)
    <3>1. /\ rows[next].kind \in {"event"} /\ Yielded.id = next
          /\ EventsBetween(watermark, next)
               = txn \union (IF rows[next].kind = "event" THEN {next} ELSE {})
      BY <2>1, ReadStep
    <3>2. QED
      BY <2>1, <3>1
  <2>3. QED
    BY <2>1, <2>2, UncommittedIInv
<1>3. CASE Notify \/ UNCHANGED vars
  <2>1. /\ UNCHANGED <<backend, rows, nextId, metaNext, watermark, applied, txn>>
        /\ UNCHANGED <<reader, next, buffer>>
    BY <1>3 DEF Notify, MemNotify, vars, streamVars, logVars, readerVars, followerVars
  <2>2. ReaderInv' /\ (reader = "none" => buffer = <<>>)
    BY <2>1 DEF IInv, ReaderInv, FoldInv
  <2>3. QED
    BY <2>1, <2>2, QuietIInv
<1>4. QED
  BY <1>1, <1>2, <1>3, ReplicateIInv, BootIInv, TailLogIInv, RoundOffIInv, GoDownIInv
     DEF Next, Follow

\* The inductive invariant holds in every reachable state: the log is contiguous,
\* the buffer is a stretch of it, and the held transaction is what lies between
\* the watermark and the cursor.
THEOREM Inductive == Spec => []IInv
<1>1. IInv /\ [Next]_vars => IInv'
  BY StepIInv
<1>2. QED
  BY <1>1, Initially, PTL DEF Spec

\* Over both stores a stream hands out every entry once and in order, whatever was
\* appended, failed to append or reopened since its sweep.
THEOREM NoGap == Spec => []StreamHasNoGap
<1>1. IInv => StreamHasNoGap
  <2> SUFFICES ASSUME IInv PROVE StreamHasNoGap
    OBVIOUS
  <2>1. ASSUME NEW i \in 1..Len(buffer)
        PROVE  buffer[i] = rows[next + i - 1] /\ buffer[i].id = next + i - 1
    <3>1. /\ next + i - 1 < nextId /\ buffer[i] = rows[next + i - 1]
          /\ next \in Nat \ {0} /\ nextId \in Nat
      BY DEF IInv, ReaderInv, LogInv
    <3>2. next + i - 1 \in DOMAIN rows
      BY <3>1 DEF IInv, LogInv
    <3>3. QED
      BY <3>1, <3>2 DEF IInv, LogInv
  <2>2. QED
    BY <2>1 DEF StreamHasNoGap, IInv, LogInv
<1>2. QED
  BY <1>1, Inductive, PTL

\* The log as its users see it, read off the rows.
LogView ==
    /\ Len(Log) = nextId - 1
    /\ \A p \in DOMAIN rows : Log[p] = [kind |-> rows[p].kind, cause |-> rows[p].cause]

\* The view is that of the rows in every state with a contiguous log.
LEMMA LogViewed == LogInv => LogView
  BY LogShape DEF LogView

\* The same of the state after a step.
LEMMA LogViewedNext == LogInv' => LogView'
  BY LogViewed, PTL

\* Each step of the follower is a step of the abstract projection or invisible.
LEMMA ProjectionStep ==
    ASSUME IInv, IInv', [Next]_vars
    PROVE  [Projection!Next]_(Projection!pvars)
<1>1. nextId \in Nat \ {0} /\ DOMAIN rows = 1..(nextId - 1) /\ Len(Log) = nextId - 1
  BY LogViewed DEF IInv, LogInv, LogView
<1>2. rows' = rows => Log' = Log
  BY DEF Log
<1>3. CASE Replicate
  <2>1. nextId' >= nextId /\ \A p \in DOMAIN rows : rows'[p] = rows[p]
    BY <1>3, AppendStep DEF IInv
  <2>2. /\ nextId' \in Nat \ {0} /\ DOMAIN rows' = 1..(nextId' - 1)
        /\ Len(Log') = nextId' - 1
    BY LogViewedNext DEF IInv, LogInv, LogView
  <2>3. \A m, n \in Nat \ {0} : m >= n => m - 1 >= n - 1 /\ 1..(n - 1) \subseteq 1..(m - 1)
    OBVIOUS
  <2>4. nextId' - 1 >= nextId - 1 /\ DOMAIN rows \subseteq DOMAIN rows'
    BY <1>1, <2>1, <2>2, <2>3
  <2>5. \A p \in DOMAIN rows : Log'[p] = Log[p]
    <3>1. TAKE p \in DOMAIN rows
    <3>2. Log[p] = [kind |-> rows[p].kind, cause |-> rows[p].cause]
      BY LogViewed DEF IInv, LogView
    <3>3. Log'[p] = [kind |-> rows'[p].kind, cause |-> rows'[p].cause]
      BY <2>4, LogViewedNext DEF IInv, LogView
    <3>4. rows'[p] = rows[p]
      BY <2>1
    <3>5. QED
      BY <3>2, <3>3, <3>4
  <2>6. Len(Log') >= Len(Log) /\ 1..Len(Log) = DOMAIN rows
    BY <1>1, <2>2, <2>4
  <2>7. UNCHANGED <<watermark, applied>>
    BY <1>3 DEF Replicate, followerVars
  <2>8. QED
    BY <2>5, <2>6, <2>7 DEF Projection!Next, Projection!Grow
<1>4. CASE RoundOff /\ txn # {}
  <2>1. /\ watermark' = next /\ applied' = EventsBetween(0, next) /\ rows[next].kind = "noop"
        /\ next \in DOMAIN rows /\ watermark < next /\ rows' = rows
    BY <1>4, CommitStep
  <2>2. \A p \in DOMAIN rows : Log[p].kind = rows[p].kind
    <3>1. TAKE p \in DOMAIN rows
    <3>2. Log[p] = [kind |-> rows[p].kind, cause |-> rows[p].cause]
      BY LogViewed DEF IInv, LogView
    <3>3. QED
      BY <3>2
  <2>3. next \in 1..(nextId - 1) /\ watermark \in Nat
    BY <1>1, <2>1 DEF IInv, FoldInv
  <2>4. \A w, m, n \in Nat : w < m /\ m \in 1..(n - 1) => m \in (w + 1)..(n - 1)
    OBVIOUS
  <2>5. next \in (watermark + 1)..(nextId - 1)
    BY <1>1, <2>1, <2>3, <2>4
  <2>6. next \in (watermark + 1)..Len(Log) /\ Log[next].kind = "noop"
    BY <1>1, <2>1, <2>2, <2>5
  <2>7. EventsBetween(0, next) = Projection!EventsUpTo(Log, next)
    <3>1. Projection!EventsUpTo(Log, next)
            = {p \in {q \in 1..(nextId - 1) : Log[q].kind = "event"} : p <= next}
      BY <1>1 DEF Projection!EventsUpTo, Projection!Positions
    <3>2. \A p \in DOMAIN rows : 0 < p
      BY <1>1
    <3>3. EventsBetween(0, next)
            = {p \in {q \in DOMAIN rows : Log[q].kind = "event"} : p <= next}
      BY <2>2, <3>2 DEF EventsBetween
    <3>4. QED
      BY <1>1, <3>1, <3>3
  <2>8. QED
    BY <1>2, <2>1, <2>6, <2>7 DEF Projection!Next, Projection!Fold
<1>5. CASE \/ Notify \/ Boot \/ TailLog \/ Skip \/ FoldEvent \/ GoDown
           \/ (RoundOff /\ txn = {}) \/ UNCHANGED vars
  <2>1. UNCHANGED <<rows, watermark, applied>>
    BY <1>5 DEF Notify, MemNotify, Boot, TailLog, Sweep, Park, Wake, Skip, FoldEvent,
                ApplyEvent, Reads, Yield, GoDown, RoundOff, vars, streamVars, logVars,
                followerVars
  <2>2. QED
    BY <1>2, <2>1 DEF Projection!pvars
<1>6. QED
  BY <1>3, <1>4, <1>5 DEF Next, Follow

\* The replica implements the abstract projection: every step is an append, a move
\* of the projection to a later batch boundary, or invisible.
THEOREM Refinement == Spec => RefinesProjection
<1>1. Init => Projection!Init
  <2> SUFFICES ASSUME Init PROVE Projection!Init
    OBVIOUS
  <2>1. LogInv /\ nextId = 1
    BY Initially DEF Init, StreamInit, IInv
  <2>2. Log \in Seq(Entry) /\ Len(Log) = 0
    BY <2>1, LogShape
  <2>3. QED
    BY <2>2 DEF Init, Projection!Init
<1>2. IInv /\ IInv' /\ [Next]_vars => [Projection!Next]_(Projection!pvars)
  BY ProjectionStep
<1>3. QED
  BY <1>1, <1>2, Inductive, PTL DEF Spec, RefinesProjection, Projection!Spec

=============================================================================
