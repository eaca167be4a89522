------------------------------ MODULE CsvFormat ------------------------------
(***************************************************************************)
(* The CSV files of commands/export.rs: what an export writes for a row, how *)
(* a record is cut out of a stream of bytes and taken apart, and what the    *)
(* preview and the import make of the records.                              *)
(*                                                                         *)
(* A character that matters to the format is itself; "x" and "X" stand for   *)
(* the others, one the capital of the other.  A file is one that an export   *)
(* wrote row by row, or one somebody else wrote character by character.     *)
(***************************************************************************)
EXTENDS Integers, Sequences, SequencesExt, FiniteSets

CONSTANTS
  Null,                \* the database's NULL
  Targets,             \* the writable columns of the target table, in order
  MaxText,             \* bound: characters of a foreign file
  MaxRecords,          \* bound: rows of an exported file
  MaxRecordBytes,      \* IMPORT_MAX_RECORD_BYTES
  SampleRows           \* rows a sampled preview shows

Character == {"quote", ",", ";", "cr", "lf", "mark", "x", "X"}

ASSUME CsvAssumption ==
  /\ Targets \in Seq(Seq(Character)) \ {<<>>} /\ IsInjective(Targets)
  /\ {MaxText, MaxRecords} \subseteq Nat
  /\ {MaxRecordBytes, SampleRows} \subseteq Nat \ {0}

VARIABLES
  text,        \* the file
  table,       \* the rows exported into it, a sequence of rows of equal width
  width        \* columns of the exported rows; 0 when the file is not an export's

csvVars == <<text, table, width>>

Delimiter == {",", ";"}
Value == {Null} \cup BoundedSeq({"quote", ",", "cr", "lf", "mark", "x"}, 2)

Ends == {"cr", "lf"}
LowerCase(name) == [i \in DOMAIN name |-> IF name[i] = "X" THEN "x" ELSE name[i]]
IsBlank(name) == ToSet(name) \subseteq Ends
NameIn(names, name) == \E i \in DOMAIN names : LowerCase(names[i]) = LowerCase(name)

----------------------------------------------------------------------------
\* Writing a row.

Doubled(cell) ==
  FlattenSeq([i \in DOMAIN cell |->
                IF cell[i] = "quote" THEN <<"quote", "quote">> ELSE <<cell[i]>>])

\* Mutant: only the line feed counts as a line break.
CsvCellOfLines(cell) ==
  IF ToSet(cell) \cap {",", "quote", "lf"} # {}
  THEN <<"quote">> \o Doubled(cell) \o <<"quote">>
  ELSE cell

CsvCell(cell) ==
  IF ToSet(cell) \cap ({",", "quote"} \cup Ends) # {}
  THEN <<"quote">> \o Doubled(cell) \o <<"quote">>
  ELSE cell

CsvValue(value) == IF value = Null THEN <<>> ELSE CsvCell(value)

\* Rows are separated, not ended, by a line break.
WriteLine(row, prefixNewline) ==
  LET cells == [i \in DOMAIN row |-> IF i = 1 THEN CsvValue(row[i]) ELSE <<",">> \o CsvValue(row[i])]
  IN (IF prefixNewline THEN <<"cr", "lf">> ELSE <<>>) \o FlattenSeq(cells)

----------------------------------------------------------------------------
\* Taking characters apart: parse_csv_delimited.  A result is the rows before the
\* first error and whether there was one.

EndCell(p) == [p EXCEPT !.row = Append(@, p.cell), !.cell = <<>>, !.closed = FALSE]
EndRow(p) == [EndCell(p) EXCEPT !.rows = Append(@, EndCell(p).row), !.row = <<>>, !.started = FALSE]

\* One character of an unfailed parse; next is the character after it.
ParseCharacter(p, c, next, delimiter) ==
  LET q == [p EXCEPT !.started = TRUE] IN
  CASE p.closed /\ c \notin {delimiter} \cup Ends -> [q EXCEPT !.failed = TRUE]
    [] ~p.closed /\ c = "quote" /\ p.quoted /\ next = "quote" ->
         [q EXCEPT !.cell = Append(@, c), !.skip = TRUE]
    [] ~p.closed /\ c = "quote" /\ p.quoted /\ next # "quote" ->
         [q EXCEPT !.quoted = FALSE, !.closed = TRUE]
    [] ~p.closed /\ c = "quote" /\ ~p.quoted /\ p.cell = <<>> -> [q EXCEPT !.quoted = TRUE]
    [] ~p.closed /\ c = "quote" /\ ~p.quoted /\ p.cell # <<>> -> [q EXCEPT !.failed = TRUE]
    [] c = delimiter /\ ~p.quoted -> EndCell(q)
    [] c = "lf" /\ ~p.quoted -> EndRow(q)
    [] c = "cr" /\ ~p.quoted -> [EndRow(q) EXCEPT !.skip = next = "lf"]
    [] OTHER -> [q EXCEPT !.cell = Append(@, c)]

ParseStart == [rows |-> <<>>, row |-> <<>>, cell |-> <<>>, quoted |-> FALSE, closed |-> FALSE,
               started |-> FALSE, skip |-> FALSE, failed |-> FALSE]
\* What is left at the end of the text ends a row.
Parsed(end) == [rows |-> IF end.started /\ ~end.failed THEN EndRow(end).rows ELSE end.rows,
                failed |-> end.failed \/ end.quoted]

Parse(content, delimiter) ==
  LET Take(p, i) ==
        IF p.failed THEN p
        ELSE IF p.skip THEN [p EXCEPT !.skip = FALSE]
        ELSE ParseCharacter(p, content[i], IF i < Len(content) THEN content[i + 1] ELSE "end", delimiter)
  IN Parsed(FoldLeftDomain(Take, ParseStart, content))

----------------------------------------------------------------------------
\* Cutting records out of a stream: CsvRecordReader.

\* Mutant: a carriage return is remembered until a line feed comes.
TakeByteRemembering(s, c) ==
  CASE s.tooLong -> s
    [] ~s.tooLong /\ s.skipLf /\ c = "lf" -> [s EXCEPT !.skipLf = FALSE]
    [] ~s.tooLong /\ ~(s.skipLf /\ c = "lf") /\ ~s.quoted /\ c \in Ends ->
         [s EXCEPT !.records = Append(@, s.record), !.record = <<>>, !.skipLf = c = "cr"]
    [] ~s.tooLong /\ ~(s.skipLf /\ c = "lf") /\ (s.quoted \/ c \notin Ends) ->
         IF Len(s.record) = MaxRecordBytes THEN [s EXCEPT !.tooLong = TRUE]
         ELSE [s EXCEPT !.record = Append(@, c), !.quoted = IF c = "quote" THEN ~@ ELSE @]

\* One byte: the record it ends, extends or makes too long.
TakeByte(s, c) ==
  CASE s.tooLong -> s
    [] ~s.tooLong /\ s.skipLf /\ c = "lf" -> [s EXCEPT !.skipLf = FALSE]
    [] ~s.tooLong /\ ~(s.skipLf /\ c = "lf") /\ ~s.quoted /\ c \in Ends ->
         [s EXCEPT !.records = Append(@, s.record), !.record = <<>>, !.skipLf = c = "cr"]
    [] ~s.tooLong /\ ~(s.skipLf /\ c = "lf") /\ (s.quoted \/ c \notin Ends) ->
         IF Len(s.record) = MaxRecordBytes THEN [s EXCEPT !.tooLong = TRUE]
         ELSE [s EXCEPT !.record = Append(@, c), !.skipLf = FALSE,
                        !.quoted = IF c = "quote" THEN ~@ ELSE @]

CutStart ==
  [records |-> <<>>, record |-> <<>>, quoted |-> FALSE, skipLf |-> FALSE, tooLong |-> FALSE]
LastRecord(end) == [records |-> IF end.record # <<>> /\ ~end.tooLong
                                THEN Append(end.records, end.record) ELSE end.records,
                    tooLong |-> end.tooLong]
Cut(content) == LastRecord(FoldLeft(TakeByte, CutStart, content))

\* A byte order mark at the start of the file is no part of its first record.
Unmarked(record, i) ==
  IF i = 1 /\ record # <<>> /\ record[1] = "mark" THEN Tail(record) ELSE record

\* The rows up to the first record that fails.
RowsOf(parsed, tooLong) ==
  LET bad == {i \in DOMAIN parsed : parsed[i].failed}
      good == {i \in DOMAIN parsed : \A j \in bad : i < j}
  IN [rows |-> [i \in good |-> Last(parsed[i].rows)], failed |-> bad # {} \/ tooLong]
ReadRecords(cut, delimiter) ==
  RowsOf([i \in DOMAIN cut.records |->
            Parse(Append(Unmarked(cut.records[i], i), "lf"), delimiter)], cut.tooLong)
Read(content, delimiter) == ReadRecords(Cut(content), delimiter)

----------------------------------------------------------------------------
\* What preview and import make of the rows.  A mapping gives for every column of the
\* file a target or Unmapped; NoMapping is the request without one.

Unmapped == <<"none">>
NoMapping == <<>>
Mappings(columns) == {NoMapping} \cup [1..columns -> ToSet(Targets) \cup {Unmapped}]

\* The header of a file, given its first row if it has one.
Headers(rows, hasHeader, mapping, ofEmpty) ==
  CASE rows = <<>> -> ofEmpty
    [] rows # <<>> /\ hasHeader -> rows[1]
    [] rows # <<>> /\ ~hasHeader /\ mapping # NoMapping -> [i \in DOMAIN rows[1] |-> <<i>>]
    [] rows # <<>> /\ ~hasHeader /\ mapping = NoMapping -> Targets

DataRows(rows, hasHeader) == IF hasHeader /\ rows # <<>> THEN Tail(rows) ELSE rows

\* validate_import_rows: the columns a header may not have.
HeaderInvalid(headers) ==
  \E i \in DOMAIN headers :
    \/ IsBlank(headers[i])
    \/ \E j \in 1..(i - 1) : ~IsBlank(headers[j]) /\ LowerCase(headers[j]) = LowerCase(headers[i])
    \/ ~NameIn(Targets, headers[i])

OfWidth(n, rows) == {i \in DOMAIN rows : Len(rows[i]) = n}

\* Mutant: the names of a header are judged although a mapping replaces them.
PreviewByName(rows, hasHeader, mapping, sampleOnly) ==
  LET headers == Headers(rows, hasHeader, mapping, <<>>)
      data == DataRows(rows, hasHeader)
      seen == IF sampleOnly /\ Len(data) > SampleRows THEN SubSeq(data, 1, SampleRows) ELSE data
      valid == IF hasHeader /\ HeaderInvalid(headers) THEN {} ELSE OfWidth(Len(headers), seen)
  IN [totalRows |-> Len(seen), validRows |-> Cardinality(valid),
      canImport |-> valid # {}, hasMore |-> Len(seen) < Len(data)]

\* preview_csv_reader.  A sampled preview stops after its rows and says whether more follow.
Preview(rows, hasHeader, mapping, sampleOnly) ==
  LET headers == Headers(rows, hasHeader, mapping, <<>>)
      data == DataRows(rows, hasHeader)
      seen == IF sampleOnly /\ Len(data) > SampleRows THEN SubSeq(data, 1, SampleRows) ELSE data
      valid == IF mapping = NoMapping /\ HeaderInvalid(headers) THEN {} ELSE OfWidth(Len(headers), seen)
  IN [totalRows |-> Len(seen), validRows |-> Cardinality(valid),
      canImport |-> valid # {}, hasMore |-> Len(seen) < Len(data)]

\* resolve_csv_mapping: the source column of every column inserted, and its name.
Refused == [refused |-> TRUE, columns |-> <<>>]

Resolve(headers, mapping) ==
  LET chosen ==
        FlattenSeq([i \in DOMAIN mapping |-> IF mapping[i] # Unmapped THEN <<i>> ELSE <<>>])
  IN
  IF mapping = NoMapping
  THEN IF HeaderInvalid(headers) THEN Refused
       ELSE [refused |-> FALSE, columns |-> [i \in DOMAIN headers |-> <<i, headers[i]>>]]
  ELSE IF \/ Len(mapping) # Len(headers) \/ chosen = <<>>
          \/ \E i, j \in ToSet(chosen) : i # j /\ mapping[i] = mapping[j]
       THEN Refused
       ELSE [refused |-> FALSE, columns |-> [k \in DOMAIN chosen |-> <<chosen[k], mapping[chosen[k]]>>]]

\* csv_parameter
Parameter(cell, emptyAsNull) == IF emptyAsNull /\ cell = <<>> THEN Null ELSE cell

\* import_csv_rows_in_transaction: the rows given to the database, as parameters by column.
Offered(whole, resolved, emptyAsNull) ==
  [refused |-> resolved.refused,
   columns |-> [k \in DOMAIN resolved.columns |-> resolved.columns[k][2]],
   offered |-> IF resolved.refused THEN <<>>
               ELSE [r \in DOMAIN whole |->
                       [k \in DOMAIN resolved.columns |->
                          Parameter(whole[r][resolved.columns[k][1]], emptyAsNull)]]]
Import(rows, hasHeader, mapping, emptyAsNull) ==
  LET headers == Headers(rows, hasHeader, mapping, Targets)
      data == DataRows(rows, hasHeader)
      whole == FlattenSeq([r \in DOMAIN data |->
                             IF Len(data[r]) = Len(headers) THEN <<data[r]>> ELSE <<>>])
  IN Offered(whole, Resolve(headers, mapping), emptyAsNull)

----------------------------------------------------------------------------
\* Files.

CsvInit == text = <<>> /\ table = <<>> /\ width \in 0..Len(Targets)

\* Somebody else's file grows by a character.
TypeCharacter ==
  /\ width = 0 /\ Len(text) < MaxText
  /\ \E c \in Character : text' = Append(text, c)
  /\ UNCHANGED <<table, width>>

\* write_table_csv, write_streamed_query_csv: the next row of a result is written.
ExportRow ==
  /\ width > 0 /\ Len(table) < MaxRecords
  /\ \E row \in [1..width -> {v \in Value : v = Null \/ Len(v) <= 3 - width}] :
       /\ text' = text \o WriteLine(row, table # <<>>)
       /\ table' = Append(table, row)
  /\ UNCHANGED width

CsvNext == TypeCharacter \/ ExportRow

CsvSpec == CsvInit /\ [][CsvNext]_csvVars

----------------------------------------------------------------------------
(* Cutting a stream into records by the parity of its quotes and parsing    *)
(* each record by itself gives the rows of parsing the file at once, and    *)
(* fails on the same files; only a record over the limit is refused by the  *)
(* reader alone, and a byte order mark dropped by it alone (a file that is  *)
(* nothing else has one empty record for the reader).                       *)
ReaderAgreesWithParser ==
  LET agree(read, whole) == /\ read.failed = whole.failed
                            /\ ~read.failed => read.rows = whole.rows IN
  ~Cut(text).tooLong /\ text # <<"mark">> =>
    \A d \in Delimiter : agree(Read(text, d), Parse(Unmarked(text, 1), d))

(* What an export wrote is read back: every row, every column, every        *)
(* character, with NULL as the empty text.  Two files lose something: one   *)
(* that ends in a row without a character loses that row, and one that      *)
(* starts with a byte order mark loses the mark.                            *)
RoundTrip ==
  LET restored == [r \in DOMAIN table |-> [i \in DOMAIN table[r] |->
                     IF table[r][i] = Null THEN <<>> ELSE table[r][i]]]
      lastIsEmpty == table # <<>> /\ Last(restored) = <<<<>>>>
      rows == IF lastIsEmpty THEN Front(restored) ELSE restored
  IN width > 0 /\ ~Cut(text).tooLong /\ (text = <<>> \/ text[1] # "mark") =>
       Read(text, ",") = [rows |-> rows, failed |-> FALSE]

\* One preview and one import of the same rows.
AgreeOn(data, preview, import, mapping) ==
  /\ ~import.refused /\ ~preview.hasMore =>
       /\ preview.validRows = Len(import.offered)
       /\ preview.totalRows = Len(data)
  /\ import.refused /\ mapping = NoMapping => ~preview.canImport
  /\ \A i, j \in DOMAIN import.columns :
       /\ NameIn(Targets, import.columns[i])
       /\ i # j => import.columns[i] # import.columns[j]
       /\ i # j /\ mapping = NoMapping =>
            LowerCase(import.columns[i]) # LowerCase(import.columns[j])
AgreeOnRows(rows) ==
  \A hasHeader, sampleOnly \in BOOLEAN :
    \A mapping \in Mappings(IF rows = <<>> THEN 0 ELSE Len(rows[1])) :
      AgreeOn(DataRows(rows, hasHeader), Preview(rows, hasHeader, mapping, sampleOnly),
              Import(rows, hasHeader, mapping, TRUE), mapping)

(* A preview and the import of the same file and options agree: the rows    *)
(* found valid are those offered to the database, a file that cannot be     *)
(* imported is refused or offers nothing, a preview that says there is no   *)
(* more has counted every row, and every value offered has a column of its  *)
(* own among the writable ones; one named by a header differs from the others *)
(* in more than case, as one that a mapping names need not.                  *)
PreviewAgreesWithImport == AgreeOnRows(Read(text, ",").rows)
=============================================================================
