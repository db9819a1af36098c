---------------------------- MODULE HydraEngine ----------------------------
(***************************************************************************)
(* The storage engine of HYDRA (prog2/libhydra): a write-ahead log, a      *)
(* memtable and the SSTables it is flushed to, behind the global ENGINE    *)
(* lock, which serialises the calls.  The log is a file of bytes, so that  *)
(* what recover makes of a record cut short is what the code makes of it:  *)
(* a length is LengthBytes = 2 little-endian digits of base Base here, and *)
(* 4 of base 256 in the code.                                              *)
(***************************************************************************)
EXTENDS Integers, Sequences, FiniteSets, SequencesExt

CONSTANTS
    Keys, Values,        \* byte strings
    Base,
    FlushSize,           \* the 1 MB of Engine::put
    MaxPuts              \* bound: calls of hydra_put

\* A length fits its digits: hydra_put takes val_len as an int, and a key of
\* 4 GB does not fit the memory of a client.
ASSUME EngineAssumption ==
    /\ Base \in Nat \ {0, 1}
    /\ \A s \in Keys \cup Values : s \in Seq(0 .. Base - 1) /\ Len(s) < Base * Base

VARIABLES
    engine,              \* ENGINE: "None" or "Some"
    wal,                 \* the bytes of hydra.wal
    memtable,            \* [map, size]
    sstables,            \* the maps flushed by this process, oldest first
    putting,             \* <<>>, or the record that is logged but not applied
    puts,
    written, ends,       \* history: the whole records in wal before any tear,
                         \* and the position each of them ends at
    torn                 \* history: is a record in wal cut short?

vars == <<engine, wal, memtable, sstables, putting, puts, written, ends, torn>>

-----------------------------------------------------------------------------
(* The memtable.                                                           *)

empty == [map |-> <<>>, size |-> 0]

\* BTreeMap::insert
insert(map, r) ==
    [k \in DOMAIN map \cup {r[1]} |-> IF k = r[1] THEN r[2] ELSE map[k]]

\* Mutation: an overwritten value stays in the size.
memtable_putKeepsOld(m, r) ==
    [map  |-> insert(m.map, r),
     size |-> m.size + Len(r[2])
              + IF r[1] \in DOMAIN m.map THEN 0 ELSE Len(r[1])]

memtable_put(m, r) ==
    [map  |-> insert(m.map, r),
     size |-> m.size + Len(r[2])
              + IF r[1] \in DOMAIN m.map THEN - Len(m.map[r[1]])
                                         ELSE Len(r[1])]

\* The memtable after the first i records, and after all of them.
replaying(records) ==
    LET m[i \in 0 .. Len(records)] ==
            IF i = 0 THEN empty ELSE memtable_put(m[i - 1], records[i])
    IN  m

replay(records) == replaying(records)[Len(records)]

-----------------------------------------------------------------------------
(* The write-ahead log.                                                    *)

LengthBytes == 2

\* n as u32 as bytes.
to_le_bytes(n) == <<n % Base, (n \div Base) % Base>>

record(r) == to_le_bytes(Len(r[1])) \o r[1] \o to_le_bytes(Len(r[2])) \o r[2]

\* The length at position i, and the position behind a field of that length.
length_at(i) == wal[i] + Base * wal[i + 1]
behind(i) == i + LengthBytes + length_at(i)
field(i) == SubSeq(wal, i + LengthBytes, behind(i) - 1)

\* The file holds a length, and a whole field, from position i on.
has_length(i) == i + LengthBytes <= Len(wal) + 1
has_field(i) == has_length(i) /\ behind(i) <= Len(wal) + 1

\* One turn of the loop of recover: only at a key's length may the file end.
read_record(s) ==
    LET value == behind(s.at)
    IN  IF s.is # "reading" THEN s
        ELSE IF ~ has_length(s.at) THEN [s EXCEPT !.is = "end"]
        ELSE IF ~ (has_field(s.at) /\ has_field(value)) THEN [s EXCEPT !.is = "error"]
        ELSE [at      |-> behind(value),
              records |-> Append(s.records, <<field(s.at), field(value)>>),
              is      |-> "reading"]

\* The loop after n turns.  Every turn but the last reads a byte or more.
recovering[n \in 0 .. Len(wal) + 1] ==
    IF n = 0 THEN [at |-> 1, records |-> <<>>, is |-> "reading"]
             ELSE read_record(recovering[n - 1])

recover == recovering[Len(wal) + 1]

-----------------------------------------------------------------------------
Init ==
    /\ engine = "None" /\ wal = <<>> /\ memtable = empty /\ sstables = <<>>
    /\ putting = <<>> /\ puts = 0 /\ written = <<>> /\ ends = <<>> /\ torn = FALSE

\* Mutation: the log is opened without append, and emptied.
hydra_openTruncates ==
    /\ engine = "None"
    /\ engine' = "Some"
    /\ memtable' = empty
    /\ sstables' = <<>>
    /\ wal' = <<>>
    /\ UNCHANGED <<putting, puts, written, ends, torn>>

\* Engine::open: on an error hydra_open leaves ENGINE None and returns -3.
hydra_open ==
    /\ engine = "None"
    /\ recover.is = "end"
    /\ engine' = "Some"
    /\ memtable' = replay(recover.records)
    /\ sstables' = <<>>
    /\ UNCHANGED <<wal, putting, puts, written, ends, torn>>

\* hydra_put: WAL::append writes the whole record.
append(k, v) ==
    /\ engine = "Some" /\ putting = <<>> /\ puts < MaxPuts
    /\ puts' = puts + 1
    /\ wal' = wal \o record(<<k, v>>)
    /\ putting' = <<k, v>>
    /\ written' = IF torn THEN written ELSE Append(written, <<k, v>>)
    /\ ends' = IF torn THEN ends ELSE Append(ends, Len(wal'))
    /\ UNCHANGED <<engine, memtable, sstables, torn>>

\* The append is cut short after n bytes: a write fails and hydra_put returns
\* -5, or the process dies.
append_torn(k, v, n) ==
    /\ engine = "Some" /\ putting = <<>> /\ puts < MaxPuts
    /\ n < Len(record(<<k, v>>))
    /\ puts' = puts + 1
    /\ wal' = wal \o SubSeq(record(<<k, v>>), 1, n)
    /\ engine' \in {"Some", "None"}
    /\ torn' = (torn \/ n > 0)
    /\ UNCHANGED <<memtable, sstables, putting, written, ends>>

\* Mutation: the memtable is cleared though the SSTable could not be created.
flushClears(m) ==
    \/ memtable' = empty /\ sstables' = Append(sstables, m.map)
    \/ memtable' = empty /\ UNCHANGED sstables

\* Engine::flush: SSTable::create may fail; then nothing else is done, and
\* hydra_put returns -5.
flush(m) ==
    \/ memtable' = empty /\ sstables' = Append(sstables, m.map)
    \/ memtable' = m /\ UNCHANGED sstables

\* The rest of Engine::put.
apply ==
    /\ engine = "Some" /\ putting # <<>>
    /\ putting' = <<>>
    /\ LET m == memtable_put(memtable, putting)
       IN  IF m.size > FlushSize THEN flush(m)
                                 ELSE memtable' = m /\ UNCHANGED sstables
    /\ UNCHANGED <<engine, wal, puts, written, ends, torn>>

hydra_close ==
    /\ engine = "Some" /\ putting = <<>>
    /\ engine' = "None"
    /\ UNCHANGED <<wal, memtable, sstables, putting, puts, written, ends, torn>>

Crash ==
    /\ engine = "Some"
    /\ engine' = "None"
    /\ putting' = <<>>
    /\ UNCHANGED <<wal, memtable, sstables, puts, written, ends, torn>>

\* Where the first i records end.
End(i) == IF i = 0 THEN 0 ELSE ends[i]

\* The log is never synced: a power failure may cut it after any byte n.
PowerFailure ==
    /\ engine' = "None"
    /\ putting' = <<>>
    /\ \E n \in 0 .. Len(wal), kept \in 0 .. Len(written) :
          /\ End(kept) <= n
          /\ kept < Len(written) => End(kept + 1) > n
          /\ wal' = SubSeq(wal, 1, n)
          /\ written' = SubSeq(written, 1, kept)
          /\ ends' = SubSeq(ends, 1, kept)
          /\ torn' = (n > End(kept))
    /\ UNCHANGED <<memtable, sstables, puts>>

Put ==
    \E k \in Keys, v \in Values :
        \/ append(k, v)
        \/ \E n \in 0 .. Len(record(<<k, v>>)) - 1 : append_torn(k, v, n)

Next == hydra_open \/ Put \/ apply \/ hydra_close \/ Crash \/ PowerFailure

Spec == Init /\ [][Next]_vars

-----------------------------------------------------------------------------
(* Reading.  An Option is <<>> or <<value>>.                               *)

\* The read path of an LSM tree: the memtable, then the SSTables from the
\* newest to the oldest.
LsmGet(k) ==
    LET tables == Append(sstables, memtable.map)
        having == {i \in DOMAIN tables : k \in DOMAIN tables[i]}
    IN  IF having = {} THEN <<>> ELSE <<tables[Max(having)][k]>>

\* The value of the last record of a key.
Latest(k) ==
    LET having == {i \in DOMAIN written : written[i][1] = k}
    IN  IF having = {} THEN <<>> ELSE <<written[Max(having)][2]>>

Serving == engine = "Some" /\ putting = <<>>

-----------------------------------------------------------------------------
\* The bytes of a map: each is one of a key or of its value.
Bytes(map) ==
    UNION {{<<k, "key", i>> : i \in DOMAIN k} \cup {<<k, "value", i>> : i \in DOMAIN map[k]} :
           k \in DOMAIN map}

\* The size that decides about the flush is the number of bytes of the keys
\* and values in the memtable, over overwrites, flushes and replays (and never
\* falls below 0).
SizeExact == memtable.size = Cardinality(Bytes(memtable.map))

\* recover delivers first the whole records that the log holds before a tear,
\* whatever is appended, torn, cut or replayed later.
LogKeepsWrites == IsPrefix(written, recover.records)

\* As long as no append was cut short, the memtable and the SSTables, newest
\* first, hold the latest value of every key through flushes that fail,
\* crashes between the log and the memtable, and restarts that forget the
\* SSTables.
LsmView == Serving /\ ~ torn => \A k \in Keys : LsmGet(k) = Latest(k)
=============================================================================
