--------------------------- MODULE ResultContainer ---------------------------
(***************************************************************************)
(* The self-borrowing result container of scylla-rust-wrapper             *)
(* (src/.../query_result.rs) and the result iterator over it               *)
(* (src/.../iterator.rs).                                                  *)
(*                                                                         *)
(* CassResult::from_result_payload takes the rows of a frame, the column   *)
(* specs the frame was decoded with, and, for a prepared statement, the    *)
(* CassResultMetadata cached when it was prepared.  It decodes the first   *)
(* row eagerly with CassRawRow (the raw value decoder, RawValue) and zips  *)
(* it with the metadata.  The result iterator decodes every row again,     *)
(* lazily, with the driver's full Row decoder.                             *)
(*                                                                         *)
(* The server's table may be altered between the prepare and an execute:  *)
(* the frame then has the new columns and the cache the old ones.         *)
(*                                                                         *)
(* Every result also keeps the PagingStateResponse of its frame.  The      *)
(* driver makes HasMorePages only out of the paging-state bytes the server *)
(* sent, so a HasMorePages state always has bytes here.                    *)
(***************************************************************************)
EXTENDS Naturals, Sequences

CONSTANTS
  SchemaVersions, \* Seq of column-spec sequences <<[name, typ], ...>>, one per ALTER;
                  \* a name is the sequence of its characters
  AsciiLowercase, \* [upper-case letter -> its lower case], for the letters of the names
  CellSlices,     \* [type -> set of slices] a cell of that type may carry
  MaxRows,        \* rows in a frame
  Null,           \* None / null pointer
  NoResult,       \* the caller holds no result
  ErrResult,      \* from_result_payload returned Err
  NoIter          \* the caller holds no result iterator

AllSlices == UNION {CellSlices[t] : t \in DOMAIN CellSlices}

MaxCols == 3

PagingStateResponses == {"NoMorePages", "HasMorePages"}

RV == INSTANCE RawValue WITH
        Types <- DOMAIN CellSlices, Arity <- [t \in {"tuple", "udt"} |-> 0],
        Slices <- AllSlices, MaxColumns <- MaxCols,
        row <- <<>>, columns <- <<>>, outcome <- "decoding"

VARIABLES
  version,        \* the server's current schema
  cache,          \* the prepared statement's cached metadata, or Null
  result,         \* the CassResult the caller holds
  iter            \* the CassResultIterator over it: [taken, current, last]

vars == <<version, cache, result, iter>>

\* Vec::get(pos), 0-based.
Nth(s, pos) == IF pos + 1 \in 1..Len(s) THEN s[pos + 1] ELSE Null

\* The rows of a frame decoded with column specs `specs`.
FrameRows(specs) ==
  {r \in [1..Len(specs) -> AllSlices] : \A i \in 1..Len(specs) : r[i] \in CellSlices[specs[i].typ]}

Frames(specs) == UNION {[1..n -> FrameRows(specs)] : n \in 0..MaxRows}

(***************************************************************************)
(* Decoding a row.                                                         *)
(***************************************************************************)

\* CassRawRow::deserialize: every column through CassRawValue::deserialize.
RawRowOk(specs, r) == \A i \in 1..Len(specs) : RV!CassRawValue_deserialize(specs[i].typ, r[i]).ok

RawRow(specs, r) == [i \in 1..Len(specs) |-> RV!CassRawValue_deserialize(specs[i].typ, r[i]).value]

\* The driver's Row decoder decodes each column in full: on top of the raw
\* checks, a fixed-width value must have its exact width.
RowDecoderOk(specs, r) ==
  /\ RawRowOk(specs, r)
  /\ \A i \in 1..Len(specs) :
       specs[i].typ = "int" => r[i] \in {Null, <<>>} \/ Len(r[i]) = 4

\* create_cass_row_columns: row.into_iter().zip(metadata.col_specs), as
\* long as the shorter of the two.
create_cass_row_columns(row, metadata) ==
  [i \in 1..(IF Len(row) < Len(metadata) THEN Len(row) ELSE Len(metadata)) |->
     [value |-> row[i], value_type |-> metadata[i].typ]]

Schemas == {SchemaVersions[v] : v \in 1..Len(SchemaVersions)}

TypeOK ==
  /\ version \in 1..Len(SchemaVersions)
  /\ cache \in {Null} \cup Schemas
  /\ \/ result \in {NoResult, ErrResult}
     \/ result \in [kind : {"NonRows"}, paging : PagingStateResponses]
     \/ /\ result.kind = "Rows"
        /\ result.paging \in PagingStateResponses
        /\ {result.specs, result.metadata} \subseteq Schemas
        /\ result.rows \in Seq(FrameRows(result.specs)) /\ Len(result.rows) <= MaxRows
        /\ result.first_row = Null \/ Len(result.first_row) <= MaxCols
  /\ iter = NoIter \/ (iter.taken \in 0..MaxRows /\ iter.last \in {Null, TRUE, FALSE})

Init ==
  /\ version = 1
  /\ cache = Null
  /\ result = NoResult
  /\ iter = NoIter

(***************************************************************************)
(* The server and the statement, outside this layer.                       *)
(***************************************************************************)

\* ALTER TABLE: later frames are decoded with the new column specs.
AlterTable ==
  /\ version < Len(SchemaVersions)
  /\ version' = version + 1
  /\ UNCHANGED <<cache, result, iter>>

\* Preparing the statement caches the result metadata of the schema now.
Prepare ==
  /\ cache' = SchemaVersions[version]
  /\ UNCHANGED <<version, result, iter>>

(***************************************************************************)
(* CassResult::from_result_payload and the first row.                      *)
(***************************************************************************)

\* first_from_raw_rows_and_metadata: no row, the first row zipped with the
\* metadata, or the deserialization error of the first row.
FirstRow(specs, rows, metadata) ==
  IF rows = <<>> THEN [ok |-> TRUE, row |-> Null]
  ELSE IF RawRowOk(specs, rows[1])
       THEN [ok |-> TRUE, row |-> create_cass_row_columns(RawRow(specs, rows[1]), metadata)]
       ELSE [ok |-> FALSE, row |-> Null]

\* A Rows result; `prepared` executions hand over the cached metadata.
from_result_payload_rows(prepared) ==
  LET specs == SchemaVersions[version] IN
  /\ result \in {NoResult, ErrResult}
  /\ prepared => cache /= Null
  /\ \E rows \in Frames(specs), paging \in PagingStateResponses :
       LET metadata == IF prepared THEN cache ELSE specs
           first == FirstRow(specs, rows, metadata)
       IN result' = IF first.ok
                    THEN [kind |-> "Rows", specs |-> specs, rows |-> rows,
                          metadata |-> metadata, first_row |-> first.row,
                          paging |-> paging]
                    ELSE ErrResult
  /\ UNCHANGED <<version, cache, iter>>

\* ResultNotRows: a DDL/DML acknowledgement.
from_result_payload_non_rows ==
  /\ result \in {NoResult, ErrResult}
  /\ \E paging \in PagingStateResponses : result' = [kind |-> "NonRows", paging |-> paging]
  /\ UNCHANGED <<version, cache, iter>>

\* ResultMetadataLazyDeserializationError: the frame's metadata does not
\* deserialize, and the error is returned.
from_result_payload_metadata_error ==
  /\ result \in {NoResult, ErrResult}
  /\ result' = ErrResult
  /\ UNCHANGED <<version, cache, iter>>

\* ArcFFI::free of the caller's only reference; its iterator is gone first.
cass_result_free ==
  /\ result \notin {NoResult, ErrResult}
  /\ iter = NoIter
  /\ result' = NoResult
  /\ UNCHANGED <<version, cache, iter>>

(***************************************************************************)
(* The result iterator.                                                    *)
(***************************************************************************)

cass_iterator_from_result ==
  /\ result \notin {NoResult, ErrResult}
  /\ iter = NoIter
  /\ iter' = [taken |-> 0, current |-> Null, last |-> Null]
  /\ UNCHANGED <<version, cache, result>>

\* CassResultIterator::next: NonRows is always false; otherwise one row of
\* the frame per call, false at the end and for a row that fails to decode.
cass_iterator_next ==
  /\ iter /= NoIter
  /\ \/ /\ result.kind = "NonRows"
        /\ iter' = [iter EXCEPT !.last = FALSE]
     \/ /\ result.kind = "Rows"
        /\ LET k == iter.taken + 1
               ok == k <= Len(result.rows) /\ RowDecoderOk(result.specs, result.rows[k])
           IN iter' = [taken |-> IF k <= Len(result.rows) THEN k ELSE iter.taken,
                       current |-> IF ok THEN create_cass_row_columns(
                                                RawRow(result.specs, result.rows[k]),
                                                result.metadata)
                                         ELSE Null,
                       last |-> ok]
  /\ UNCHANGED <<version, cache, result>>

cass_iterator_free ==
  /\ iter /= NoIter
  /\ iter' = NoIter
  /\ UNCHANGED <<version, cache, result>>

Next ==
  \/ AlterTable
  \/ Prepare
  \/ \E prepared \in BOOLEAN : from_result_payload_rows(prepared)
  \/ from_result_payload_non_rows
  \/ from_result_payload_metadata_error
  \/ cass_result_free
  \/ cass_iterator_from_result
  \/ cass_iterator_next
  \/ cass_iterator_free

Spec == Init /\ [][Next]_vars

(***************************************************************************)
(* Accessors.                                                              *)
(***************************************************************************)

IsRows == result \notin {NoResult, ErrResult} /\ result.kind = "Rows"

cass_result_first_row == IF IsRows THEN result.first_row ELSE Null

cass_result_row_count == IF IsRows THEN Len(result.rows) ELSE 0

cass_result_column_count == IF IsRows THEN Len(result.metadata) ELSE 0

cass_row_get_column(row, index) == Nth(row, index)

\* cass_data_type_type of the value's value_type (the metadata column's).
cass_value_type(value) == value.value_type

\* The double-quote character.
DQ == "\""

\* str::eq_ignore_ascii_case.
AsciiLower(c) == IF c \in DOMAIN AsciiLowercase THEN AsciiLowercase[c] ELSE c

EqIgnoreAsciiCase(a, b) ==
  Len(a) = Len(b) /\ \A i \in 1..Len(a) : AsciiLower(a[i]) = AsciiLower(b[i])

\* What cass_row_get_column_by_name_n returns when its strip_suffix(...)
\* .unwrap() finds nothing to strip: the panic unwinds into extern "C".
LookupPanic == [panicked |-> "strip_suffix on an empty name"]

\* The indices of the column specs whose name is `name`, compared exactly
\* when `case_sensitive`, else ignoring ASCII case.
ColumnsNamed(name, case_sensitive) ==
  {i \in 1..Len(result.metadata) :
     IF case_sensitive THEN result.metadata[i].name = name
     ELSE EqIgnoreAsciiCase(result.metadata[i].name, name)}

\* The row's value at the first of those column specs, or null.
FirstColumnMatching(row, idx) ==
  IF idx = {} THEN Null
  ELSE LET i == CHOOSE j \in idx : \A l \in idx : j <= l IN Nth(row, i - 1)

\* A name that starts and ends with '"' (a lone '"' does both) has the
\* quote stripped off each end and is matched case-sensitively; any other
\* name is matched ignoring ASCII case.  Stripping the suffix of the empty
\* rest of a lone '"' unwraps None.
cass_row_get_column_by_name(row, name) ==
  LET quoted == Len(name) >= 1 /\ name[1] = DQ /\ name[Len(name)] = DQ IN
  IF quoted /\ Len(name) = 1 THEN LookupPanic
  ELSE IF quoted THEN FirstColumnMatching(row, ColumnsNamed(SubSeq(name, 2, Len(name) - 1), TRUE))
  ELSE FirstColumnMatching(row, ColumnsNamed(name, FALSE))

(***************************************************************************)
(* Paging and column metadata of a live result.                            *)
(***************************************************************************)

\* !paging_state_response.finished()
cass_result_has_more_pages == result.paging /= "NoMorePages"

\* NO_PAGING_STATE without more pages, else OK and the state's bytes (the
\* arm for a HasMorePages state without bytes hands out a null pointer).
cass_result_paging_state_token ==
  IF ~cass_result_has_more_pages THEN [err |-> "NO_PAGING_STATE", token |-> Null]
  ELSE [err |-> "OK", token |-> "paging_state"]

\* INDEX_OUT_OF_BOUNDS for a NonRows result or an index past the metadata,
\* else col_specs.get(index).unwrap().name; an unwrap of None panics.
cass_result_column_name(index) ==
  IF ~IsRows THEN [err |-> "INDEX_OUT_OF_BOUNDS", name |-> Null]
  ELSE IF index >= Len(result.metadata) THEN [err |-> "INDEX_OUT_OF_BOUNDS", name |-> Null]
  ELSE LET spec == Nth(result.metadata, index)
       IN IF spec = Null THEN [err |-> "panic", name |-> Null]
          ELSE [err |-> "OK", name |-> spec.name]

\* col_specs.get(index)'s data type, or null (also for NonRows).
cass_result_column_data_type(index) ==
  LET spec == IF IsRows THEN Nth(result.metadata, index) ELSE Null
  IN IF spec = Null THEN Null ELSE spec.typ

\* UNKNOWN for a null data type, else cass_data_type_type of it.
cass_result_column_type(index) ==
  IF cass_result_column_data_type(index) = Null THEN "UNKNOWN"
  ELSE cass_result_column_data_type(index)
=============================================================================
