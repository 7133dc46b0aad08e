----------------------------- MODULE MCTelemetryCsv -----------------------------
(***************************************************************************)
(* What the CSV contract promises, evaluated over small files.  There are  *)
(* no behaviours here: MCDelivery extends this module, so that TLC checks  *)
(* these before it explores anything.                                      *)
(***************************************************************************)
EXTENDS TelemetryCsv

Readings == {Number(-1), Number(0), Number(2), NotFinite}
FiniteRow(row) == row.timestamp <= MaxU64 /\ \A s \in Sensors : row.sensors[s].is = "number"

SmallRows ==
  {Row(t, [s \in Sensors |-> IF s \in odd THEN reading ELSE Number(1)]) :
     t \in {0, MaxU64}, odd \in {{}, {"gpu_temp_c"}, {"cpu_package_power_w"}}, reading \in Readings}

SmallFiles == UNION {[1 .. n -> SmallRows] : n \in 0 .. 2}

(* docs/telemetry_csv.md: what a producer writes reads back as it was, row *)
(* by row and in order, and a row that is not finite is skipped and        *)
(* counted (format_csv against parse_csv).                                 *)
ASSUME RoundTrip ==
  \A rows \in SmallFiles :
    LET read == ParseCsv(FormatCsv(rows)) IN
    /\ read.rows = SelectSeq(rows, FiniteRow)
    /\ Len(read.rows) + read.skipped = Len(rows)

OddCells == {Whole(1), Whole(MaxU64 + 1), Real(1), NonFinite, Text("x"), EmptyCell}
Padded == {[cell EXCEPT !.pad = pad] : cell \in OddCells, pad \in Pads}

Ones(n) == [i \in 1 .. n |-> Whole(1)]
OneOdd == {[Ones(n) EXCEPT ![i] = cell] : n \in {5}, i \in 1 .. 5, cell \in Padded}
OddLines == OneOdd \cup {<<cell>> : cell \in Padded} \cup {Ones(n) : n \in 1 .. 6}

(* A row is accepted exactly if it has five fields, a timestamp that is a   *)
(* u64 and four finite sensors, with whitespace only around the whole line; *)
(* only a line of whitespace is passed over without being counted           *)
(* (parse_data_line).                                                       *)
MayBePadded(line, i) == {"none"} \cup (IF i = 1 THEN {"left"} ELSE {})
                                 \cup (IF i = Len(line) THEN {"right"} ELSE {})
ASSUME OneOddLine ==
  \A line \in OddLines :
    /\ ParseDataLine(line).is = "Empty" <=> Len(line) = 1 /\ line[1].is = ""
    /\ ParseDataLine(line).is = "Ok" <=>
         /\ Len(line) = 5
         /\ \A i \in 1 .. 5 :
              /\ line[i].pad \in MayBePadded(line, i)
              /\ line[i].is \in IF i = 1 THEN {"whole"} ELSE {"whole", "real"}
         /\ line[1].value <= MaxU64

(* Without its header a file is refused, whatever its rows, and the error  *)
(* names the file (validate_header, with_path).                            *)
ASSUME HeaderRequired ==
  \A line \in OddLines \cup {Tail(Header), Append(Header, EmptyCell)} :
    /\ LoadCsv("file", TRUE, <<line>>) = Failure("HeaderMismatch", "file")
    /\ LoadCsv("file", TRUE, <<>>) = Failure("Empty", "file")
    /\ LoadCsv("file", FALSE, <<Header>>) = Failure("Io", "file")
    /\ ~HasUsableRows(LoadCsv("file", TRUE, <<Header>>))

(* A replay goes round: any window of as many ticks as there are rows      *)
(* plays each of them once, and each tick has a timestamp of its own until *)
(* the last one there is (row_for_tick).                                   *)
Plays(tick, rows, i) == RowForTick(tick, rows).sensors = rows[i].sensors
ASSUME ReplayGoesRound ==
  LET rows == [i \in 1 .. 3 |-> Row(7, [s \in Sensors |-> Number(i)])] IN
  \A first \in 0 .. 2 * MaxU64 :
    /\ \A i \in 1 .. 3 : \E tick \in first .. first + 2 : Plays(tick, rows, i)
    /\ \A i \in 1 .. 3 : Plays(first, rows, i) <=> Plays(first + 3, rows, i)
    /\ first + 1 < MaxU64 =>
         RowForTick(first, rows).timestamp < RowForTick(first + 1, rows).timestamp
===============================================================================
