------------------------------ MODULE TelemetryCsv ------------------------------
(***************************************************************************)
(* The CSV of recorded telemetry (telemetry_csv.rs): how a file is read    *)
(* and validated, how rows are written, and how they are replayed by tick. *)
(* Nothing in the relay calls it yet; it is an interface of the library.   *)
(*                                                                         *)
(* A file is a sequence of lines, a line the sequence of its cells.  What  *)
(* a cell is tells how it would parse; whitespace around it is its "pad".  *)
(* Sensors are the readings of Telemetry: a number, or one that is not     *)
(* finite, which a row in memory may hold and a file may not.              *)
(***************************************************************************)
EXTENDS Telemetry, Sequences

CONSTANT MaxU64   \* the largest timestamp

ASSUME MaxU64Assumption == MaxU64 \in Nat

-----------------------------------------------------------------------------
(***************************************************************************)
(* Cells                                                                   *)
(***************************************************************************)
Pads == {"none", "left", "right"}

Cell(is, value) == [is |-> is, value |-> value, pad |-> "none"]

Text(text) == Cell(text, 0)
EmptyCell == Text("")
Whole(n) == Cell("whole", n)         \* digits, perhaps after a plus sign
Real(n) == Cell("real", n)           \* a minus sign, a fraction or an exponent
NonFinite == Cell("nonfinite", 0)    \* NaN, inf, or too large for an f32

(* str::parse takes no whitespace. *)
ParsesAsU64(cell) == cell.is = "whole" /\ cell.value <= MaxU64 /\ cell.pad = "none"

(* parse_finite_f32 *)
ParsesAsFiniteF32(cell) == cell.is \in {"whole", "real"} /\ cell.pad = "none"

(* A line is trimmed, its fields are not. *)
Trim(line) ==
  [i \in DOMAIN line |->
     IF \/ i = 1 /\ line[i].pad = "left"
        \/ i = Len(line) /\ line[i].pad = "right"
        \/ Len(line) = 1
     THEN [line[i] EXCEPT !.pad = "none"] ELSE line[i]]

-----------------------------------------------------------------------------
(***************************************************************************)
(* Reading                                                                 *)
(***************************************************************************)
Header ==
  <<Text("timestamp_ms"), Text("gpu_temp_c"), Text("gpu_power_w"),
    Text("cpu_tctl_c"), Text("cpu_package_power_w")>>

FieldCount == 5
Sensors == {"gpu_temp_c", "gpu_power_w", "cpu_tctl_c", "cpu_package_power_w"}

(* The cell of each sensor; the first is the timestamp. *)
Column ==
  [s \in Sensors |->
     CASE s = "gpu_temp_c" -> 2 [] s = "gpu_power_w" -> 3
       [] s = "cpu_tctl_c" -> 4 [] s = "cpu_package_power_w" -> 5]

Row(timestamp, sensors) == [timestamp |-> timestamp, sensors |-> sensors]

Blank == [is |-> "Empty"]
Malformed == [is |-> "Malformed"]
Parsed(row) == [is |-> "Ok", row |-> row]

(* parse_data_line *)
ParseDataLine(raw) ==
  LET line == Trim(raw) IN
  IF line = <<EmptyCell>> THEN Blank
  ELSE IF /\ Len(line) = FieldCount
          /\ ParsesAsU64(line[1])
          /\ \A s \in Sensors : ParsesAsFiniteF32(line[Column[s]])
  THEN Parsed(Row(line[1].value, [s \in Sensors |-> Number(line[Column[s]].value)]))
  ELSE Malformed

(* collect_rows *)
CollectRows(lines) ==
  LET parsed == [i \in DOMAIN lines |-> ParseDataLine(lines[i])]
      kept == InOrder({i \in DOMAIN parsed : parsed[i].is = "Ok"})
  IN [rows |-> [k \in DOMAIN kept |-> parsed[kept[k]].row],
      skipped |-> Cardinality({i \in DOMAIN parsed : parsed[i] = Malformed})]

Failure(error, path) == [error |-> error, path |-> path]
NoPath == ""

(* parse_csv, validate_header *)
ParseCsv(file) ==
  CASE file = <<>> -> Failure("Empty", NoPath)
    [] file # <<>> /\ Trim(file[1]) # Header -> Failure("HeaderMismatch", NoPath)
    [] file # <<>> /\ Trim(file[1]) = Header -> CollectRows(Tail(file))

(* load_csv, of a file that cannot be read or has lines. *)
LoadCsv(path, readable, file) ==
  LET result == IF readable THEN ParseCsv(file) ELSE Failure("Io", NoPath)
  IN IF "error" \in DOMAIN result THEN [result EXCEPT !.path = path] ELSE result

HasUsableRows(result) == result.rows # <<>>

-----------------------------------------------------------------------------
(***************************************************************************)
(* Writing                                                                 *)
(***************************************************************************)
CellOf(reading) ==
  IF reading.is # "number" THEN NonFinite
  ELSE IF reading.value >= 0 THEN Whole(reading.value) ELSE Real(reading.value)

ToCsvLine(row) ==
  [i \in 1 .. FieldCount |->
     IF i = 1 THEN Whole(row.timestamp)
     ELSE CellOf(row.sensors[CHOOSE s \in Sensors : Column[s] = i])]

FormatCsv(rows) == <<Header>> \o [i \in DOMAIN rows |-> ToCsvLine(rows[i])]

-----------------------------------------------------------------------------
(***************************************************************************)
(* Replay                                                                  *)
(***************************************************************************)
NoRow == [timestamp |-> NoTime]

(* row_for_tick *)
RowForTick(tick, rows) ==
  IF rows = <<>> THEN NoRow
  ELSE [rows[1 + (tick % Len(rows))] EXCEPT
          !.timestamp = IF tick >= MaxU64 THEN MaxU64 ELSE tick + 1]
===============================================================================
