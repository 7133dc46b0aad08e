-------------------------- MODULE TelemetryCsvProofs --------------------------
(***************************************************************************)
(* Proofs about TelemetryCsv, for every row, every file and every tick.    *)
(* A file needs no induction over its lines: the operator that keeps some  *)
(* of them in order says where each one goes (FiltersKeepOrder).           *)
(***************************************************************************)
EXTENDS TelemetryCsv, FiniteSetTheorems, SequenceTheorems, TLAPS

FiniteRows == [timestamp : 0 .. MaxU64, sensors : [Sensors -> {Number(n) : n \in Int}]]

LEMMA ColumnOf ==
  /\ Column["gpu_temp_c"] = 2 /\ Column["gpu_power_w"] = 3
  /\ Column["cpu_tctl_c"] = 4 /\ Column["cpu_package_power_w"] = 5
  /\ \A s \in Sensors : Column[s] \in 2 .. FieldCount
  /\ \A s, t \in Sensors : Column[s] = Column[t] => s = t
  BY DEF Column, Sensors, FieldCount

(* What to_csv_line writes in each cell. *)
LEMMA CellsOfALine ==
  ASSUME NEW row
  PROVE  /\ ToCsvLine(row)[1] = Whole(row.timestamp)
         /\ \A s \in Sensors : ToCsvLine(row)[Column[s]] = CellOf(row.sensors[s])
         /\ Len(ToCsvLine(row)) = FieldCount /\ DOMAIN ToCsvLine(row) = 1 .. FieldCount
  <1>1. FieldCount = 5
    BY DEF FieldCount
  <1>2. /\ ToCsvLine(row) =
             [i \in 1 .. FieldCount |->
                IF i = 1 THEN Whole(row.timestamp)
                ELSE CellOf(row.sensors[CHOOSE s \in Sensors : Column[s] = i])]
        /\ Len(ToCsvLine(row)) = FieldCount /\ DOMAIN ToCsvLine(row) = 1 .. FieldCount
    BY <1>1 DEF ToCsvLine
  <1>3. ASSUME NEW s \in Sensors
        PROVE  (CHOOSE t \in Sensors : Column[t] = Column[s]) = s
    BY ColumnOf
  <1>4. ASSUME NEW s \in Sensors
        PROVE  ToCsvLine(row)[Column[s]] = CellOf(row.sensors[s])
    <2>1. Column[s] \in 1 .. FieldCount /\ Column[s] # 1
      BY <1>1, ColumnOf
    <2>2. QED
      BY <1>2, <1>3, <2>1
  <1>5. ToCsvLine(row)[1] = Whole(row.timestamp)
    BY <1>1, <1>2
  <1>6. QED
    BY <1>2, <1>4, <1>5

(* A line whose cells carry no whitespace is not changed by trimming. *)
LEMMA TrimKeeps ==
  ASSUME NEW line, DOMAIN line = 1 .. FieldCount, line = [i \in DOMAIN line |-> line[i]],
         Len(line) = FieldCount, \A i \in DOMAIN line : line[i].pad = "none"
  PROVE  Trim(line) = line
  <1>1. FieldCount = 5
    BY DEF FieldCount
  <1>2. \A i \in DOMAIN line :
          (IF \/ i = 1 /\ line[i].pad = "left"
              \/ i = Len(line) /\ line[i].pad = "right"
              \/ Len(line) = 1
           THEN [line[i] EXCEPT !.pad = "none"] ELSE line[i]) = line[i]
    BY <1>1
  <1>3. QED
    BY <1>2 DEF Trim

(* A line that to_csv_line wrote is trimmed to itself and is not blank. *)
LEMMA WrittenLine ==
  ASSUME NEW row
  PROVE  Trim(ToCsvLine(row)) = ToCsvLine(row) /\ ToCsvLine(row) # <<EmptyCell>>
  <1> DEFINE line == ToCsvLine(row)
  <1>1. /\ DOMAIN line = 1 .. FieldCount /\ Len(line) = FieldCount
        /\ line = [i \in DOMAIN line |-> line[i]]
    <2>1. DOMAIN line = 1 .. FieldCount /\ Len(line) = FieldCount
      BY CellsOfALine
    <2>2. line = [i \in DOMAIN line |-> line[i]]
      BY DEF ToCsvLine
    <2>3. QED
      BY <2>1, <2>2
  <1>2. ASSUME NEW i \in DOMAIN line PROVE line[i].pad = "none"
    <2>1. line[i] = Whole(row.timestamp)
            \/ \E t : line[i] = CellOf(row.sensors[t])
      BY <1>1 DEF ToCsvLine
    <2>2. QED
      BY <2>1 DEF CellOf, Whole, Real, NonFinite, Cell
  <1>3. Trim(line) = line
    BY <1>1, <1>2, TrimKeeps
  <1>4. line # <<EmptyCell>>
    BY <1>1 DEF FieldCount
  <1>5. QED
    BY <1>3, <1>4

(* docs/telemetry_csv.md: a row that a producer writes reads back as it    *)
(* was, whatever its timestamp and its finite readings (to_csv_line,       *)
(* parse_data_line).                                                       *)
THEOREM FiniteRowsReadBack ==
  ASSUME NEW row \in FiniteRows
  PROVE  ParseDataLine(ToCsvLine(row)) = Parsed(row)
  <1> DEFINE line == ToCsvLine(row)
  <1>1. row.timestamp \in 0 .. MaxU64 /\ row.sensors \in [Sensors -> {Number(n) : n \in Int}]
        /\ row = Row(row.timestamp, row.sensors)
    BY DEF FiniteRows, Row
  <1>2. ParsesAsU64(line[1]) /\ line[1].value = row.timestamp
    <2>1. line[1] = Whole(row.timestamp)
      BY CellsOfALine
    <2> HIDE DEF line
    <2>2. line[1].is = "whole" /\ line[1].value = row.timestamp /\ line[1].pad = "none"
      BY <2>1 DEF Whole, Cell
    <2>3. row.timestamp <= MaxU64
      BY <1>1, MaxU64Assumption
    <2>4. QED
      BY <2>2, <2>3 DEF ParsesAsU64
  <1>3. ASSUME NEW s \in Sensors
        PROVE  ParsesAsFiniteF32(line[Column[s]]) /\ Number(line[Column[s]].value) = row.sensors[s]
    <2>1. PICK n \in Int : row.sensors[s] = Number(n)
      BY <1>1
    <2>2. line[Column[s]] = CellOf(Number(n))
      BY <2>1, CellsOfALine
    <2> HIDE DEF line
    <2>3. line[Column[s]] = Whole(n) \/ line[Column[s]] = Real(n)
      BY <2>2 DEF CellOf, Number
    <2>4. QED
      BY <2>1, <2>3 DEF ParsesAsFiniteF32, Whole, Real, Cell
  <1>4. [s \in Sensors |-> Number(line[Column[s]].value)] = row.sensors
    BY <1>1, <1>3
  <1>5. Trim(line) = line /\ line # <<EmptyCell>> /\ Len(line) = FieldCount
    BY WrittenLine, CellsOfALine
  <1> HIDE DEF line
  <1>6. ParseDataLine(line) = Parsed(Row(row.timestamp, row.sensors))
    BY <1>2, <1>3, <1>4, <1>5 DEF ParseDataLine
  <1>7. QED
    BY <1>1, <1>6 DEF line

(* A row with a reading that is not finite is malformed once it is         *)
(* written: it is skipped and counted, and never read as another row.      *)
THEOREM NonFiniteRowsAreSkipped ==
  ASSUME NEW row, NEW s \in Sensors, row.sensors[s] = NotFinite
  PROVE  ParseDataLine(ToCsvLine(row)) = Malformed
  <1> DEFINE line == ToCsvLine(row)
  <1>1. ~ParsesAsFiniteF32(line[Column[s]])
    <2>1. line[Column[s]] = CellOf(NotFinite)
      BY CellsOfALine
    <2>2. CellOf(NotFinite) = NonFinite
      BY DEF CellOf, NotFinite
    <2> HIDE DEF line
    <2>3. line[Column[s]].is = "nonfinite"
      BY <2>1, <2>2 DEF NonFinite, Cell
    <2>4. QED
      BY <2>3 DEF ParsesAsFiniteF32
  <1>2. Trim(line) = line /\ line # <<EmptyCell>>
    BY WrittenLine
  <1> HIDE DEF line
  <1>3. ParseDataLine(line) = Malformed
    BY <1>1, <1>2 DEF ParseDataLine
  <1>4. QED
    BY <1>3 DEF line

-----------------------------------------------------------------------------
(***************************************************************************)
(* Files                                                                   *)
(***************************************************************************)

(* A filter keeps every place there is, once, and in order. *)
LEMMA FiltersKeepOrder ==
  ASSUME NEW S \in SUBSET Nat, IsFiniteSet(S), NEW kept, kept = InOrder(S)
  PROVE  /\ DOMAIN kept = 1 .. Cardinality(S)
         /\ \A i \in DOMAIN kept : kept[i] \in S
         /\ \A i, j \in DOMAIN kept : i < j => kept[i] < kept[j]
         /\ \A n \in S : \E i \in DOMAIN kept : kept[i] = n
  <1> DEFINE upTo(n) == {m \in S : m <= n}
             size == Cardinality(S)
             rank == [n \in S |-> Cardinality(upTo(n))]
  <1>1. \A n \in S : IsFiniteSet(upTo(n)) /\ Cardinality(upTo(n)) \in Nat /\ Cardinality(upTo(n)) <= size
    BY FS_Subset, FS_CardinalityType
  <1>2. size \in Nat /\ \A n \in S : n \in upTo(n)
    BY FS_CardinalityType
  <1>3. ASSUME NEW n \in S, NEW k \in S, n < k PROVE rank[n] < rank[k]
    <2>1. upTo(n) \cup {k} \in SUBSET upTo(k) /\ k \notin upTo(n)
      <3>1. n \in Nat /\ k \in Nat /\ ~(k <= n) /\ k <= k
        BY <1>3
      <3>2. \A m \in S : m <= n => m <= k
        <4> SUFFICES ASSUME NEW m \in S, m <= n PROVE m <= k
          OBVIOUS
        <4>1. m \in Nat
          OBVIOUS
        <4>2. QED
          BY <1>3, <3>1, <4>1
      <3>3. QED
        BY <3>1, <3>2
    <2> HIDE DEF upTo
    <2>2. Cardinality(upTo(n) \cup {k}) = Cardinality(upTo(n)) + 1
      BY <1>1, <2>1, FS_AddElement
    <2>3. Cardinality(upTo(n) \cup {k}) <= Cardinality(upTo(k))
      BY <1>1, <2>1, FS_Subset
    <2>4. QED
      BY <1>1, <2>2, <2>3
  <1>4. \A n \in S : rank[n] \in 1 .. size
    <2> SUFFICES ASSUME NEW n \in S PROVE rank[n] \in 1 .. size
      OBVIOUS
    <2> HIDE DEF upTo, size
    <2>1. Cardinality(upTo(n)) # 0
      BY <1>1, <1>2, FS_EmptySet
    <2>2. QED
      BY <1>1, <1>2, <2>1
  <1>5. rank \in Injection(S, 1 .. size)
    <2>1. rank \in [S -> 1 .. size]
      BY <1>4
    <2>2. \A n, k \in S : n # k => n < k \/ k < n
      OBVIOUS
    <2>3. \A n, k \in S : rank[n] \in Int /\ rank[k] \in Int
      BY <1>4
    <2> HIDE DEF rank
    <2>4. \A n, k \in S : rank[n] = rank[k] => n = k
      BY <1>3, <2>2, <2>3
    <2>5. QED
      BY <2>1, <2>4 DEF Injection, IsInjective
  <1>6. rank \in Surjection(S, 1 .. size)
    <2>1. IsFiniteSet(1 .. size) /\ Cardinality(1 .. size) = size
      BY <1>2, FS_Interval
    <2> HIDE DEF rank
    <2>2. QED
      BY <1>5, <2>1, FS_Injection
  <1>7. DOMAIN kept = 1 .. size /\ \A i \in 1 .. size : kept[i] = CHOOSE n \in S : rank[n] = i
    BY DEF InOrder
  <1> HIDE DEF rank, upTo, size
  <1>8. \A i \in 1 .. size : \E n \in S : rank[n] = i
    BY <1>6 DEF Surjection
  <1>9. \A i \in 1 .. size : kept[i] \in S /\ rank[kept[i]] = i
    BY <1>7, <1>8
  <1>10. ASSUME NEW i \in DOMAIN kept, NEW j \in DOMAIN kept, i < j PROVE kept[i] < kept[j]
    <2>1. kept[i] \in S /\ kept[j] \in S /\ rank[kept[i]] < rank[kept[j]]
      BY <1>7, <1>9, <1>10
    <2>2. PICK a \in S, b \in S : a = kept[i] /\ b = kept[j]
      BY <2>1
    <2>3. a \in Nat /\ b \in Nat /\ rank[a] \in Int /\ rank[b] \in Int /\ rank[a] < rank[b]
      BY <1>4, <2>1, <2>2
    <2>4. ~(b < a)
      BY <1>3, <2>3
    <2>5. a # b
      BY <2>3
    <2>6. QED
      BY <2>2, <2>3, <2>4, <2>5
  <1>11. ASSUME NEW n \in S PROVE \E i \in DOMAIN kept : kept[i] = n
    <2>1. rank[n] \in 1 .. size /\ kept[rank[n]] \in S /\ rank[kept[rank[n]]] = rank[n]
      BY <1>4, <1>9
    <2>2. kept[rank[n]] = n
      BY <1>5, <2>1 DEF Injection, IsInjective
    <2>3. QED
      BY <1>7, <2>1, <2>2
  <1>12. QED
    BY <1>7, <1>9, <1>10, <1>11 DEF size

(* A filter that keeps everything changes nothing. *)
LEMMA NothingFiltered ==
  ASSUME NEW n \in Nat
  PROVE  InOrder(1 .. n) = [i \in 1 .. n |-> i]
  <1>1. Cardinality(1 .. n) = n
    BY FS_Interval
  <1>2. ASSUME NEW k \in 1 .. n PROVE Cardinality({m \in 1 .. n : m <= k}) = k
    <2>1. {m \in 1 .. n : m <= k} = 1 .. k
      OBVIOUS
    <2>2. Cardinality(1 .. k) = k
      BY FS_Interval
    <2>3. QED
      BY <2>1, <2>2
  <1>3. ASSUME NEW i \in 1 .. n
        PROVE  (CHOOSE k \in 1 .. n : Cardinality({m \in 1 .. n : m <= k}) = i) = i
    BY <1>2
  <1>4. QED
    BY <1>1, <1>3 DEF InOrder

LEMMA ParsedIs ==
  ASSUME NEW line
  PROVE  /\ ParseDataLine(line).is = "Ok" => ParseDataLine(line) = Parsed(ParseDataLine(line).row)
         /\ ParseDataLine(line).is \in {"Empty", "Ok", "Malformed"}
         /\ ParseDataLine(line).is = "Empty" <=> ParseDataLine(line) = Blank
         /\ ParseDataLine(line).is = "Malformed" <=> ParseDataLine(line) = Malformed
  <1>1. \/ ParseDataLine(line) = Blank
        \/ ParseDataLine(line) = Malformed
        \/ \E row : ParseDataLine(line) = Parsed(row)
    BY Zenon DEF ParseDataLine
  <1>2. QED
    BY <1>1 DEF Blank, Malformed, Parsed

LEMMA CollectedRows ==
  ASSUME NEW lines
  PROVE  LET parsed == [i \in DOMAIN lines |-> ParseDataLine(lines[i])]
             kept == InOrder({i \in DOMAIN parsed : parsed[i].is = "Ok"})
         IN CollectRows(lines) =
              [rows |-> [k \in DOMAIN kept |-> parsed[kept[k]].row],
               skipped |-> Cardinality({i \in DOMAIN parsed : parsed[i] = Malformed})]
  BY DEF CollectRows

(* However broken a file is, the rows that are read are its good lines,    *)
(* each once and in order, and every other line is counted unless it is    *)
(* blank (collect_rows, for files of any length).                          *)
ReadFrom(rows, lines, at) ==
  /\ at \in [DOMAIN rows -> DOMAIN lines]
  /\ \A i, j \in DOMAIN rows : i < j => at[i] < at[j]
  /\ \A i \in DOMAIN rows : ParseDataLine(lines[at[i]]) = Parsed(rows[i])
  /\ \A n \in DOMAIN lines :
       ParseDataLine(lines[n]).is = "Ok" => \E i \in DOMAIN rows : at[i] = n

BlankLines(lines) == {n \in DOMAIN lines : ParseDataLine(lines[n]) = Blank}

THEOREM GoodLinesAreRead ==
  ASSUME NEW S, NEW lines \in Seq(S), NEW read, read = CollectRows(lines)
  PROVE  /\ \E at : ReadFrom(read.rows, lines, at)
         /\ Len(read.rows) + read.skipped + Cardinality(BlankLines(lines)) = Len(lines)
  <1> DEFINE parsed == [n \in DOMAIN lines |-> ParseDataLine(lines[n])]
             good == {n \in DOMAIN lines : ParseDataLine(lines[n]).is = "Ok"}
             bad == {n \in DOMAIN lines : ParseDataLine(lines[n]) = Malformed}
             kept == InOrder(good)
  <1>1. DOMAIN lines = 1 .. Len(lines) /\ Len(lines) \in Nat
    BY LenProperties
  <1>2. IsFiniteSet(DOMAIN lines) /\ Cardinality(DOMAIN lines) = Len(lines)
    BY <1>1, FS_Interval
  <1>3. /\ IsFiniteSet(good) /\ IsFiniteSet(bad) /\ IsFiniteSet(BlankLines(lines))
        /\ good \in SUBSET Nat
    BY <1>1, <1>2, FS_Subset DEF BlankLines
  <1>4. read = [rows |-> [k \in DOMAIN kept |-> parsed[kept[k]].row], skipped |-> Cardinality(bad)]
    <2> DEFINE ok == {i \in DOMAIN parsed : parsed[i].is = "Ok"}
               off == {i \in DOMAIN parsed : parsed[i] = Malformed}
    <2>1. ok = good /\ off = bad
      OBVIOUS
    <2>2. CollectRows(lines) = [rows |-> [k \in DOMAIN InOrder(ok) |-> parsed[InOrder(ok)[k]].row],
                                skipped |-> Cardinality(off)]
      BY CollectedRows
    <2>3. InOrder(ok) = kept
      BY <2>1
    <2> HIDE DEF ok, off, good, bad, kept, parsed
    <2>4. QED
      BY <2>1, <2>2, <2>3
  <1>5. /\ DOMAIN kept = 1 .. Cardinality(good)
        /\ \A i \in DOMAIN kept : kept[i] \in good
        /\ \A i, j \in DOMAIN kept : i < j => kept[i] < kept[j]
        /\ \A n \in good : \E i \in DOMAIN kept : kept[i] = n
    BY <1>3, FiltersKeepOrder
  <1> HIDE DEF kept
  <1>6. DOMAIN read.rows = DOMAIN kept /\ Len(read.rows) = Cardinality(good) /\ read.skipped = Cardinality(bad)
    <2>1. DOMAIN read.rows = 1 .. Cardinality(good) /\ Cardinality(good) \in Nat
      BY <1>3, <1>4, <1>5, FS_CardinalityType
    <2>2. QED
      BY <1>4, <1>5, <2>1
  <1>7. ReadFrom(read.rows, lines, [i \in DOMAIN kept |-> kept[i]])
    <2>1. ASSUME NEW i \in DOMAIN kept PROVE ParseDataLine(lines[kept[i]]) = Parsed(read.rows[i])
      <3>1. kept[i] \in DOMAIN lines /\ ParseDataLine(lines[kept[i]]).is = "Ok"
        BY <1>5
      <3>2. read.rows[i] = ParseDataLine(lines[kept[i]]).row
        BY <1>4, <3>1
      <3>3. QED
        BY <3>1, <3>2, ParsedIs
    <2>2. QED
      BY <1>5, <1>6, <2>1 DEF ReadFrom
  <1>8. Cardinality(good) + Cardinality(bad) + Cardinality(BlankLines(lines)) = Len(lines)
    <2>1. /\ DOMAIN lines = (good \cup bad) \cup BlankLines(lines)
          /\ good \cap bad = {} /\ (good \cup bad) \cap BlankLines(lines) = {}
      <3>1. \A n \in DOMAIN lines :
              /\ n \in good \/ n \in bad \/ n \in BlankLines(lines)
              /\ ~(n \in good /\ n \in bad) /\ ~(n \in good /\ n \in BlankLines(lines))
              /\ ~(n \in bad /\ n \in BlankLines(lines))
        BY ParsedIs DEF BlankLines, Blank, Malformed
      <3>2. QED
        BY <3>1 DEF BlankLines
    <2> HIDE DEF good, bad
    <2>2. /\ IsFiniteSet(good \cup bad)
          /\ Cardinality(good \cup bad) = Cardinality(good) + Cardinality(bad) - Cardinality({})
          /\ Cardinality(DOMAIN lines) = Cardinality(good \cup bad) + Cardinality(BlankLines(lines)) - Cardinality({})
      BY <1>3, <2>1, FS_Union
    <2>3. Cardinality({}) = 0 /\ Cardinality(good) \in Nat /\ Cardinality(bad) \in Nat
          /\ Cardinality(BlankLines(lines)) \in Nat
      BY <1>3, FS_EmptySet, FS_CardinalityType
    <2>4. QED
      BY <1>2, <2>2, <2>3
  <1>9. QED
    BY <1>6, <1>7, <1>8

(* A whole file of finite rows reads back as it was written, however long  *)
(* it is (format_csv against parse_csv).                                   *)
THEOREM FilesReadBack ==
  ASSUME NEW rows \in Seq(FiniteRows)
  PROVE  ParseCsv(FormatCsv(rows)) = [rows |-> rows, skipped |-> 0]
  <1> DEFINE lines == [i \in DOMAIN rows |-> ToCsvLine(rows[i])]
             n == Len(rows)
             parsed == [i \in DOMAIN lines |-> ParseDataLine(lines[i])]
  <1>1. n \in Nat /\ DOMAIN rows = 1 .. n /\ rows = [i \in 1 .. n |-> rows[i]]
        /\ \A i \in 1 .. n : rows[i] \in FiniteRows
    BY LenProperties
  <1>2. PICK L : lines \in Seq(L) /\ Header \in L /\ Len(lines) = n
    <2> DEFINE L == {ToCsvLine(rows[i]) : i \in DOMAIN rows} \cup {Header}
    <2>1. \A i \in 1 .. n : lines[i] \in L
      BY <1>1
    <2>2. lines = [i \in 1 .. n |-> lines[i]]
      BY <1>1
    <2>3. lines \in Seq(L) /\ Len(lines) = n
      <3> HIDE DEF L, lines, n
      <3>1. [i \in 1 .. n |-> lines[i]] \in Seq(L) /\ Len([i \in 1 .. n |-> lines[i]]) = n
        BY <1>1, <2>1
      <3>2. QED
        BY <2>2, <3>1
    <2>4. QED
      BY <2>3
  <1>3. \A i \in 1 .. n : ParseDataLine(lines[i]) = Parsed(rows[i])
    BY <1>1, FiniteRowsReadBack
  <1>4. CollectRows(lines) = [rows |-> rows, skipped |-> 0]
    <2>1. /\ DOMAIN parsed = 1 .. n
          /\ \A i \in 1 .. n : parsed[i] = Parsed(rows[i])
      BY <1>1, <1>3
    <2> DEFINE ok == {i \in DOMAIN parsed : parsed[i].is = "Ok"}
               off == {i \in DOMAIN parsed : parsed[i] = Malformed}
               kept == InOrder(ok)
    <2>2. CollectRows(lines) = [rows |-> [k \in DOMAIN kept |-> parsed[kept[k]].row],
                                skipped |-> Cardinality(off)]
      <3> HIDE DEF lines
      <3>1. QED
        BY CollectedRows
    <2> HIDE DEF parsed
    <2>3. ok = 1 .. n
      BY <2>1 DEF Parsed
    <2>4. off = {}
      BY <2>1 DEF Parsed, Malformed
    <2>5. kept = [i \in 1 .. n |-> i] /\ Cardinality(off) = 0
      BY <1>1, <2>3, <2>4, NothingFiltered, FS_EmptySet
    <2> HIDE DEF ok, off, kept
    <2>6. [k \in DOMAIN kept |-> parsed[kept[k]].row] = [k \in 1 .. n |-> rows[k]]
      BY <2>1, <2>5 DEF Parsed
    <2>7. QED
      BY <1>1, <2>2, <2>5, <2>6
  <1> DEFINE file == <<Header>> \o lines
  <1> HIDE DEF lines, parsed
  <1>5. file # <<>> /\ file[1] = Header /\ Tail(file) = lines
    BY <1>2
  <1>6. Trim(Header) = Header
    <2>1. /\ DOMAIN Header = 1 .. FieldCount /\ Len(Header) = FieldCount
          /\ Header = [i \in DOMAIN Header |-> Header[i]]
          /\ \A i \in DOMAIN Header : Header[i].pad = "none"
      BY DEF Header, FieldCount, Text, Cell
    <2>2. QED
      BY <2>1, TrimKeeps
  <1> HIDE DEF file
  <1>7. ParseCsv(file) = CollectRows(lines)
    BY <1>5, <1>6 DEF ParseCsv
  <1>8. QED
    BY <1>4, <1>7 DEF FormatCsv, file, lines

-----------------------------------------------------------------------------
(***************************************************************************)
(* Replay                                                                  *)
(***************************************************************************)
LEMMA RemainderRepeats ==
  ASSUME NEW n \in Nat \ {0}, NEW t \in Nat
  PROVE  (t + n) % n = t % n
  <1> DEFINE q == t \div n
             p == (t + n) \div n
             k == p - q - 1
  <1>1. t = n * q + (t % n) /\ t % n \in 0 .. n - 1 /\ q \in Int
    BY Z3
  <1>2. t + n = n * p + ((t + n) % n) /\ (t + n) % n \in 0 .. n - 1 /\ p \in Int
    BY Z3
  <1>3. ASSUME NEW i \in Int, i >= 1 PROVE n * i >= n
    BY <1>3, Z3
  <1>4. ASSUME NEW i \in Int, i <= -1 PROVE n * i <= -n
    BY <1>4, Z3
  <1> HIDE DEF p, q
  <1>5. n * k = n * p - n * q - n /\ k \in Int
    BY <1>1, <1>2, Z3
  <1>6. n * k < n /\ n * k > -n
    BY <1>1, <1>2, <1>5
  <1>7. k = 0
    <2> HIDE DEF k
    <2>1. ~(k >= 1) /\ ~(k <= -1)
      BY <1>3, <1>4, <1>5, <1>6
    <2>2. QED
      BY <1>5, <2>1
  <1>8. QED
    BY <1>1, <1>2, <1>5, <1>7

(* row_for_tick goes round for ever: the readings of a tick come again     *)
(* after as many ticks as there are rows, under a later timestamp until    *)
(* the last one there is.                                                  *)
THEOREM ReplayIsPeriodic ==
  ASSUME NEW rows \in Seq(FiniteRows), rows # <<>>, NEW tick \in Nat
  PROVE  /\ RowForTick(tick, rows) \in FiniteRows
         /\ RowForTick(tick + Len(rows), rows).sensors = RowForTick(tick, rows).sensors
         /\ \/ RowForTick(tick, rows).timestamp < RowForTick(tick + 1, rows).timestamp
            \/ RowForTick(tick, rows).timestamp = MaxU64
  <1> DEFINE n == Len(rows)
             At(t) == 1 + (t % n)
             Stamped(t) == IF t >= MaxU64 THEN MaxU64 ELSE t + 1
  <1>1. n \in Nat /\ n > 0 /\ DOMAIN rows = 1 .. n
    OBVIOUS
  <1>2. ASSUME NEW t \in Nat
        PROVE  /\ At(t) \in DOMAIN rows
               /\ RowForTick(t, rows) \in FiniteRows
               /\ RowForTick(t, rows).sensors = rows[At(t)].sensors
               /\ RowForTick(t, rows).timestamp = Stamped(t)
    <2>1. At(t) \in 1 .. n
      <3>1. t % n \in 0 .. n - 1
        BY <1>1
      <3> HIDE DEF n
      <3>2. QED
        BY <1>1, <3>1
    <2>2. rows[At(t)] \in FiniteRows
      <3> HIDE DEF At
      <3>1. QED
        BY <2>1
    <2>3. Stamped(t) \in 0 .. MaxU64
      BY MaxU64Assumption
    <2> HIDE DEF At, Stamped
    <2>4. RowForTick(t, rows) = [rows[At(t)] EXCEPT !.timestamp = Stamped(t)]
      BY DEF RowForTick, At, Stamped
    <2>5. /\ RowForTick(t, rows).sensors = rows[At(t)].sensors
          /\ RowForTick(t, rows).timestamp = Stamped(t)
          /\ RowForTick(t, rows) \in FiniteRows
      BY <2>2, <2>3, <2>4 DEF FiniteRows
    <2>6. QED
      BY <1>1, <2>1, <2>5
  <1>3. At(tick + n) = At(tick)
    <2>1. (tick + n) % n = tick % n
      <3>1. n \in Nat \ {0}
        BY <1>1
      <3> HIDE DEF n
      <3>2. QED
        BY <3>1, RemainderRepeats
    <2>2. QED
      BY <2>1
  <1>4. Stamped(tick) < Stamped(tick + 1) \/ Stamped(tick) = MaxU64
    BY MaxU64Assumption
  <1> HIDE DEF At, Stamped
  <1>5. tick + n \in Nat /\ tick + 1 \in Nat
    BY <1>1
  <1>6. QED
    BY <1>2, <1>3, <1>4, <1>5
===============================================================================
