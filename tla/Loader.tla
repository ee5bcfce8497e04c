------------------------------- MODULE Loader -------------------------------
(***************************************************************************)
(* soc_agent/io/loaders.py: load_logs() and iter_logs() read a SIEM export *)
(* row by row, and LogEntry (schemas.py) accepts or rejects each row.      *)
(*                                                                         *)
(* An export has a layout; its extension, or the caller's format=, tells   *)
(* load_logs() a format, or none, and then detect_format() guesses one.    *)
(* A row is blank, an object, or a garbage line of a JSON file: a scalar   *)
(* (JSON, but not an object) or broken (not JSON at all).  `looks' is what *)
(* the line would be taken for if it came first.  An object has one cell   *)
(* per field, where "id" stands for event_id and raw_log, "user" for every *)
(* optional text and "nested" for the two nested models; a cell is what    *)
(* the checks of LogEntry can tell apart.  A JSON array has a row a line,  *)
(* its brackets on the lines of the first and the last one.                *)
(*                                                                         *)
(* `line` is the position in the file, `total` the number of rows seen,    *)
(* which skips blank lines.                                                *)
(***************************************************************************)
EXTENDS Integers, Sequences, FiniteSets, SequencesExt

CONSTANTS Files,            \* the exports that may be loaded
          MaxErrorsStored   \* load_logs(max_errors_stored=...)

VARIABLES file,        \* the export: the format told, its layout and rows
          api,         \* the function called: "load" or "iter"
          skipInvalid, \* its skip_invalid
          phase,       \* where it is
          line,        \* the row to read next
          logs,        \* positions of the rows returned or yielded as LogEntry
          total,
          skipped,
          errors       \* ParseError.row of the errors kept

loaderVars == <<file, api, skipInvalid, phase, line, logs, total, skipped, errors>>

(* SEVERITY_RANK; a LogEntry may also come without a severity.             *)
Severities == 0..5
NoSeverity == -1

Formats == {"csv", "json", "jsonl"}

Fields == {"id", "description", "timestamp", "event_type", "severity", "ip", "port",
           "nested", "user"}

(* The cells of a row whose every field is given and good.                 *)
AllGood == [f \in Fields |-> IF f = "nested" THEN "object" ELSE "value"]

(* What a cell may be.  Of JSON: null, an integer, another number, one too *)
(* large for a float, a boolean, an object or (but for a nested field) an  *)
(* array.  Of any format: an empty text, one of the _EMPTY_IP_MARKERS,     *)
(* digits, a decimal, the text of a JSON object, a value of the field's    *)
(* type, another text, and one too long for a request.  A number that is   *)
(* out of the range of its field is as good as another text there.         *)
Cell == {"missing", "null", "int", "float", "infinite", "bool", "object",
         "empty", "marker", "digits", "decimal", "objtext", "value", "text", "long"}

RowType == [kind : {"blank", "object", "scalar", "broken"}, looks : Formats \cup {"unknown"},
            cells : [Fields -> Cell], severity : Severities \cup {NoSeverity},
            zone : {"aware", "naive"}]

ASSUME LoaderAssumption ==
    /\ MaxErrorsStored \in Nat
    /\ \A f \in Files : f.rows \in Seq(RowType) /\ f.layout \in Formats

Object(cells, severity, zone) ==
    [kind |-> "object", looks |-> "jsonl", cells |-> cells, severity |-> severity,
     zone |-> zone]

(* A readable row with an aware or a naive timestamp.                      *)
EntryAt(zone, severity) ==
    IF severity = NoSeverity
    THEN Object([AllGood EXCEPT !.severity = "missing"], NoSeverity, zone)
    ELSE Object(AllGood, severity, zone)

Entry(severity) == EntryAt("aware", severity)

EntryOf(description, severity) ==
    Object([AllGood EXCEPT !.description = description], severity, "aware")

Invalid == Object([AllGood EXCEPT !.description = "missing"], NoSeverity, "aware")

Other(kind, looks) ==
    [kind |-> kind, looks |-> looks, cells |-> AllGood, severity |-> NoSeverity,
     zone |-> "aware"]

(* What the fields of LogEntry accept: any text where text is wanted, but  *)
(* description no empty one; datetimes also from numbers; members of an    *)
(* enum; addresses after _empty_ip_to_none(), and what int() takes in      *)
(* _validate_port().  IPvAnyAddress takes an integer, and a bool is one.   *)
Texts == {"marker", "digits", "decimal", "objtext", "value", "text", "long"}

Accepted(f) ==
    CASE f = "id"          -> Texts \cup {"empty"}
      [] f = "description" -> Texts
      [] f = "timestamp"   -> {"value", "digits", "decimal", "int", "float"}
      [] f = "event_type"  -> {"value"}
      [] f = "severity"    -> {"value", "missing", "null"}
      [] f = "ip"          -> {"value", "int", "bool", "marker", "empty", "missing", "null"}
      [] f = "port"        -> {"value", "digits", "int", "float", "bool", "marker", "empty",
                               "missing", "null"}
      [] f = "nested"      -> {"object", "missing"}
      [] f = "user"        -> Texts \cup {"empty", "missing", "null"}

Validates(cells) == \A f \in Fields : cells[f] \in Accepted(f)

(* In a CSV every cell is text, an object of a field its JSON text.        *)
AsText(cell) == CASE cell = "int"                  -> "digits"
                  [] cell = "float"                -> "decimal"
                  [] cell \in {"infinite", "bool"} -> "text"
                  [] cell = "object"               -> "objtext"
                  [] OTHER                         -> cell

(* _clean_csv_row(): the cells a short row lacks and the empty ones are    *)
(* dropped, and the text of a nested field is parsed.                      *)
CleanCsvRow(cells) ==
    [f \in Fields |-> CASE cells[f] \in {"null", "empty"}                     -> "missing"
                        [] f = "nested" /\ cells[f] \in {"object", "objtext"} -> "object"
                        [] OTHER                                              -> AsText(cells[f])]

(* The lines that are not blank.                                           *)
Content(f) == {i \in DOMAIN f.rows : f.rows[i].kind # "blank"}

(* detect_format(): what is told decides; else the first line that is not  *)
(* blank.  A JSON array opens with its bracket, and a CSV with a header.   *)
Sniffed(f) ==
    IF f.layout # "jsonl" THEN f.layout
    ELSE IF Content(f) = {} THEN "unknown"
    ELSE f.rows[Min(Content(f))].looks

Format == IF file.told \in Formats THEN file.told ELSE Sniffed(file)

(* Mutant of Opens: a JSON array is parsed row by row.                     *)
OpensLazily == Format = "csv" \/ Format = file.layout

(* A CSV reader reads anything.  JSON is loaded as a whole, and an array,  *)
(* lines of objects and a CSV are refused at their first line when they    *)
(* are read as one another.                                                *)
Opens ==
    \/ Format = "csv"
    \/ /\ Format = file.layout
       /\ Format = "json" => \A i \in DOMAIN file.rows : file.rows[i].kind # "broken"

(* Mutant of Cells: the text of nested JSON is not parsed.                 *)
CellsFlat(i) ==
    LET cells == file.rows[i].cells
    IN  IF Format = "csv" THEN [CleanCsvRow(cells) EXCEPT !.nested = AsText(cells.nested)] ELSE cells

(* What the iterator of the format yields for row i.                       *)
Cells(i) ==
    IF Format = "csv" THEN CleanCsvRow(file.rows[i].cells) ELSE file.rows[i].cells

(* The rows that the iterator yields: a file that is not a CSV but is read *)
(* as one gives its first line away as the header, and then no field has   *)
(* its name.                                                               *)
Rows == {i \in Content(file) : Format = "csv" /\ file.layout # "csv" => i > 1}

IsEntry(i) ==
    /\ Format = file.layout
    /\ file.rows[i].kind = "object"
    /\ Validates(Cells(i))

Entries == {i \in DOMAIN file.rows : IsEntry(i)}

(* int() of an infinite port raises what _validate_port() does not catch.  *)
Overflows(i) == Format # "csv" /\ file.rows[i].cells.port = "infinite"

SeverityAt(i) == IF Cells(i).severity = "value" THEN file.rows[i].severity ELSE NoSeverity

LoaderInit ==
    /\ file \in Files
    /\ api \in {"load", "iter"}
    /\ skipInvalid \in BOOLEAN
    /\ phase = "detecting"
    /\ line = 1
    /\ logs = <<>>
    /\ total = 0
    /\ skipped = 0
    /\ errors = <<>>

(* iter_logs() and load_logs() up to the first row.                        *)
DetectFormat ==
    /\ phase = "detecting"
    /\ phase' = IF Format = "unknown" THEN "failed" ELSE "opening"
    /\ UNCHANGED <<file, api, skipInvalid, line, logs, total, skipped, errors>>

OpenFile ==
    /\ phase = "opening"
    /\ phase' = IF Opens THEN "reading" ELSE "failed"
    /\ UNCHANGED <<file, api, skipInvalid, line, logs, total, skipped, errors>>

Reading(lines) == phase = "reading" /\ line \in lines

(* A line of JSONL, or an element of an array, that is not an object.      *)
Garbage == {i \in Rows : Format # "csv" /\ file.rows[i].kind # "object"}

(* iter_logs() counts and keeps nothing.                                   *)
Count(n) == IF api = "load" THEN n + 1 ELSE n

(* Mutant of SkipBlank: blank lines are counted.                           *)
SkipBlankCounted ==
    /\ Reading(DOMAIN file.rows \ Rows)
    /\ line' = line + 1
    /\ total' = total + 1
    /\ UNCHANGED <<file, api, skipInvalid, phase, logs, skipped, errors>>

(* Blank lines, and a line taken for the header, are never counted.        *)
SkipBlank ==
    /\ Reading(DOMAIN file.rows \ Rows)
    /\ line' = line + 1
    /\ UNCHANGED <<file, api, skipInvalid, phase, logs, total, skipped, errors>>

(* _iter_json() and _iter_jsonl() raise: everything load_logs() has read   *)
(* so far is lost; what iter_logs() yielded has been used.                 *)
RejectGarbage ==
    /\ Reading(Garbage)
    /\ phase' = "failed"
    /\ UNCHANGED <<file, api, skipInvalid, line, logs, total, skipped, errors>>

(* Mutant of AcceptRow: positions count from zero.                         *)
AcceptRowFromZero ==
    /\ Reading(Entries)
    /\ line' = line + 1
    /\ total' = Count(total)
    /\ logs' = Append(logs, line - 1)
    /\ UNCHANGED <<file, api, skipInvalid, phase, skipped, errors>>

AcceptRow ==
    /\ Reading(Entries)
    /\ line' = line + 1
    /\ total' = Count(total)
    /\ logs' = Append(logs, line)
    /\ UNCHANGED <<file, api, skipInvalid, phase, skipped, errors>>

(* Mutant of KeepError: the number of the row before.                      *)
KeepErrorBefore == IF Len(errors) < MaxErrorsStored THEN Append(errors, total) ELSE errors

KeepError == IF Len(errors) < MaxErrorsStored THEN Append(errors, total + 1) ELSE errors

SkipRow ==
    /\ Reading(Rows \ (Garbage \cup Entries))
    /\ skipInvalid /\ ~Overflows(line)
    /\ line' = line + 1
    /\ total' = Count(total)
    /\ skipped' = Count(skipped)
    /\ errors' = IF api = "load" THEN KeepError ELSE errors
    /\ UNCHANGED <<file, api, skipInvalid, phase, logs>>

RaiseInvalid ==
    /\ Reading(Rows \ (Garbage \cup Entries))
    /\ ~skipInvalid \/ Overflows(line)
    /\ phase' = "failed"
    /\ total' = Count(total)
    /\ UNCHANGED <<file, api, skipInvalid, line, logs, skipped, errors>>

ReturnResult ==
    /\ phase = "reading"
    /\ line > Len(file.rows)
    /\ phase' = "loaded"
    /\ UNCHANGED <<file, api, skipInvalid, line, logs, total, skipped, errors>>

LoaderStep ==
    \/ DetectFormat \/ OpenFile
    \/ SkipBlank \/ RejectGarbage
    \/ AcceptRow \/ SkipRow \/ RaiseInvalid
    \/ ReturnResult

LoaderOver == phase \in {"loaded", "failed"} /\ UNCHANGED loaderVars

LoaderSpec == LoaderInit /\ [][LoaderStep \/ LoaderOver]_loaderVars
-----------------------------------------------------------------------------
LoaderTypeOK ==
    /\ api \in {"load", "iter"}
    /\ skipInvalid \in BOOLEAN
    /\ phase \in {"detecting", "opening", "reading", "loaded", "failed"}
    /\ line \in 1..(Len(file.rows) + 1)
    /\ logs \in Seq(DOMAIN file.rows)
    /\ total \in Nat /\ skipped \in Nat
    /\ errors \in Seq(Nat)

(* A result describes the whole file and only the file: every entry once   *)
(* and in order, every row of the iterator counted, and each counted row   *)
(* either an entry or a skipped one.  What iter_logs() yields before it    *)
(* raises is that of the rows before the one that stopped it, and nothing  *)
(* of an array that does not parse to its end.                             *)
Lists(s, S) == ToSet(s) = S /\ \A m, n \in DOMAIN s : m < n => s[m] < s[n]

ResultIsFile ==
    /\ phase = "loaded" => Lists(logs, Entries)
    /\ phase = "failed" => Lists(logs, {i \in Entries : i < line})
    /\ Format = "json" /\ (\E i \in DOMAIN file.rows : file.rows[i].kind = "broken") => logs = <<>>
    /\ phase = "loaded" /\ api = "load" =>
          /\ total = Cardinality(Rows)
          /\ total = Len(logs) + skipped

(* The errors kept name the first rows that were skipped, numbered among   *)
(* those of the iterator: capping never shifts or drops an early one.      *)
Number(i) == Cardinality({k \in Rows : k <= i})

ErrorsNameSkipped ==
    phase = "loaded" /\ api = "load" =>
        LET bad == {Number(i) : i \in Rows \ Entries}
        IN  /\ IsInjective(errors)
            /\ Len(errors) <= MaxErrorsStored
            /\ ToSet(errors) \subseteq bad
            /\ \A n \in bad \ ToSet(errors) :
                 /\ Len(errors) = MaxErrorsStored
                 /\ \A m \in ToSet(errors) : m < n

(* One event is read or skipped alike from a CSV, a JSON array and JSONL:  *)
(* for CSV's cleaning changes nothing that LogEntry can tell.  The events  *)
(* of which this is not true are the ones with a number, a boolean, an     *)
(* object or an array for a text; an empty id or severity; a number or a   *)
(* boolean for an address; a port that is a number with a fraction, too    *)
(* large for a float or a boolean; and a nested object that is empty, null *)
(* or given as text.                                                       *)
FormatDependent ==
    ({"id", "description", "user"} \X {"int", "float", "infinite", "bool", "object"})
        \cup ({"id", "severity"} \X {"empty"})
        \cup ({"ip"} \X {"int", "bool"})
        \cup ({"port"} \X {"float", "infinite", "bool"})
        \cup ({"nested"} \X {"empty", "null", "objtext"})

FormatsAgree ==
    phase = "loaded" /\ Format = file.layout =>
        \A i \in DOMAIN file.rows :
            LET row == file.rows[i]
            IN  row.kind = "object" /\ (\A f \in Fields : <<f, row.cells[f]>> \notin FormatDependent)
                => (i \in ToSet(logs) <=> Validates(row.cells))

(* What README.md says of Log I/O: malformed rows are skipped, so the ones *)
(* of a .jsonl do not keep its other rows from being loaded.               *)
MalformedRowsSkipped ==
    phase = "failed" /\ api = "load" /\ skipInvalid /\ file.told = "jsonl" /\ file.layout = "jsonl"
        => Entries = {}
=============================================================================
