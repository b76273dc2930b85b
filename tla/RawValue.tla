------------------------------ MODULE RawValue ------------------------------
(***************************************************************************)
(* The raw value decoder of scylla-rust-wrapper (src/.../query_result.rs): *)
(* CassRawValue::deserialize normalises empty values and precomputes the   *)
(* item count, and CassRawRow::deserialize decodes the columns of one row  *)
(* in order, giving up on the whole row at the first column that fails.   *)
(* cass_value_is_null and cass_value_item_count read what was decoded.     *)
(*                                                                         *)
(* A column type is abstracted to its tag (tuples and UDTs carry their     *)
(* arity in Arity); a frame slice is Null (absent) or a sequence of bytes. *)
(***************************************************************************)
EXTENDS Integers, Sequences, SequencesExt

CONSTANTS
  Types,        \* column type tags
  Arity,        \* [{"tuple", "udt"} -> Nat]: tuple arity, UDT field count
  Slices,       \* the frame slices a column may carry
  MaxColumns,   \* columns of a row
  Null          \* Option::None

\* ColumnType::Collection { .. }
CollectionTypes == {"list", "set", "map"}

(***************************************************************************)
(* CassRawValue::deserialize.                                              *)
(***************************************************************************)

\* Types for which an empty slice is kept as it is: collections, UDTs,
\* duration, counter, and the string and byte types.
NonEmptiable == CollectionTypes \cup {"udt", "duration", "counter", "ascii", "text", "blob"}

\* i32::from_be_bytes of four bytes: big-endian, two's complement.
I32FromBeBytes(b) ==
  LET lead == IF b[1] >= 128 THEN b[1] - 256 ELSE b[1]
  IN FoldLeft(LAMBDA acc, x : acc * 256 + x, lead, Tail(b))

\* Mutant: a negative length header is taken as a count.
determine_value_item_count_unchecked(typ, slice) ==
  IF slice = Null THEN [ok |-> TRUE, count |-> Null]
  ELSE IF typ \in CollectionTypes
  THEN IF Len(slice) < 4 THEN [ok |-> FALSE, count |-> Null]
       ELSE [ok |-> TRUE, count |-> I32FromBeBytes(SubSeq(slice, 1, 4))]
  ELSE IF typ \in {"tuple", "udt"} THEN [ok |-> TRUE, count |-> Arity[typ]]
  ELSE [ok |-> TRUE, count |-> Null]

\* Mutant: the length header is read one byte short.
determine_value_item_count_short(typ, slice) ==
  IF slice = Null THEN [ok |-> TRUE, count |-> Null]
  ELSE IF typ \in CollectionTypes
  THEN IF Len(slice) < 3 THEN [ok |-> FALSE, count |-> Null]
       ELSE LET n == I32FromBeBytes(SubSeq(slice, 1, 3))
            IN IF n < 0 THEN [ok |-> FALSE, count |-> Null] ELSE [ok |-> TRUE, count |-> n]
  ELSE IF typ \in {"tuple", "udt"} THEN [ok |-> TRUE, count |-> Arity[typ]]
  ELSE [ok |-> TRUE, count |-> Null]

\* determine_value_item_count: none without a slice; a collection's count
\* is its BE i32 length header (TooFewBytes under 4 bytes, NegativeLength
\* below 0); a tuple's or UDT's is the arity of its type; none otherwise.
determine_value_item_count(typ, slice) ==
  IF slice = Null THEN [ok |-> TRUE, count |-> Null]
  ELSE IF typ \in CollectionTypes
  THEN IF Len(slice) < 4 THEN [ok |-> FALSE, count |-> Null]
       ELSE LET n == I32FromBeBytes(SubSeq(slice, 1, 4))
            IN IF n < 0 THEN [ok |-> FALSE, count |-> Null] ELSE [ok |-> TRUE, count |-> n]
  ELSE IF typ \in {"tuple", "udt"} THEN [ok |-> TRUE, count |-> Arity[typ]]
  ELSE [ok |-> TRUE, count |-> Null]

\* The match on (typ, v): an empty slice of an emptiable type is null.
Normalise(typ, v) ==
  IF typ \notin NonEmptiable /\ v /= Null /\ v = <<>> THEN Null ELSE v

\* [ok, value]: value is the CassRawValue {typ, slice, item_count}.
CassRawValue_deserialize(typ, v) ==
  LET slice == Normalise(typ, v)
      ic == determine_value_item_count(typ, slice)
  IN IF ic.ok THEN [ok |-> TRUE, value |-> [typ |-> typ, slice |-> slice, item_count |-> ic.count]]
     ELSE [ok |-> FALSE, value |-> Null]

\* cass_value_is_null and cass_value_item_count (unwrap_or(0)).
cass_value_is_null(value) == value.slice = Null

cass_value_item_count(value) == IF value.item_count = Null THEN 0 ELSE value.item_count

(***************************************************************************)
(* CassRawRow::deserialize: one step per column of the ColumnIterator.     *)
(***************************************************************************)
Columns == [typ : Types, slice : Slices]

VARIABLES
  row,          \* the columns of the frame row: [typ, slice]
  columns,      \* the CassRawValues decoded so far
  outcome       \* "decoding", "ok" or "error"

vars == <<row, columns, outcome>>

TypeOK ==
  /\ row \in Seq(Columns) /\ Len(row) \in 1..MaxColumns
  /\ columns \in Seq([typ : Types, slice : Slices \cup {Null}, item_count : Nat \cup {Null}])
  /\ outcome \in {"decoding", "ok", "error"}

Init ==
  /\ row \in UNION {[1..n -> Columns] : n \in 1..MaxColumns}
  /\ columns = <<>>
  /\ outcome = "decoding"

\* The next column decodes and is pushed.
DecodeColumn ==
  LET c == row[Len(columns) + 1]
      d == CassRawValue_deserialize(c.typ, c.slice)
  IN /\ outcome = "decoding"
     /\ Len(columns) < Len(row)
     /\ d.ok
     /\ columns' = Append(columns, d.value)
     /\ UNCHANGED <<row, outcome>>

\* Mutant: a failing column ends the row as if it were the last one.
DecodeColumnFailedSwallowed ==
  LET c == row[Len(columns) + 1]
  IN /\ outcome = "decoding"
     /\ Len(columns) < Len(row)
     /\ ~CassRawValue_deserialize(c.typ, c.slice).ok
     /\ outcome' = "ok"
     /\ UNCHANGED <<row, columns>>

\* The next column fails: the `?` returns ColumnDeserializationFailed.
DecodeColumnFailed ==
  LET c == row[Len(columns) + 1]
  IN /\ outcome = "decoding"
     /\ Len(columns) < Len(row)
     /\ ~CassRawValue_deserialize(c.typ, c.slice).ok
     /\ outcome' = "error"
     /\ UNCHANGED <<row, columns>>

\* The column iterator is exhausted: Ok(Self { columns }).
RowDecoded ==
  /\ outcome = "decoding"
  /\ Len(columns) = Len(row)
  /\ outcome' = "ok"
  /\ UNCHANGED <<row, columns>>

Next == DecodeColumn \/ DecodeColumnFailed \/ RowDecoded

Spec == Init /\ [][Next]_vars
=============================================================================
