---------------------------- MODULE MCRawValue ----------------------------
(***************************************************************************)
(* Model-checking harness for RawValue: every row of one or two columns   *)
(* over a few column types and every slice of up to four bytes drawn from *)
(* {0, 255} (zero, positive and negative length headers, too-short and    *)
(* empty slices), decoded against the contract of spec.md 4.4.            *)
(***************************************************************************)
EXTENDS RawValue

MCTypes == {"int", "text", "counter", "list", "map", "tuple", "udt"}
MCArity == [tuple |-> 2, udt |-> 3]
MCSlices == {Null} \cup UNION {[1..n -> {0, 255}] : n \in 0..4}

(***************************************************************************)
(* Reference, from spec.md 4.4: an empty slice is null unless the type is  *)
(* a collection, UDT, duration, counter, ascii, text or blob; a           *)
(* collection's count is its signed big-endian 32-bit header, which must   *)
(* exist and be non-negative (top bit clear); tuples and UDTs count the    *)
(* slots of their type; everything else reports 0.                         *)
(***************************************************************************)
KeepsEmpty == {"list", "set", "map", "udt", "duration", "counter", "ascii", "text", "blob"}

RefNull(c) == c.slice = Null \/ (c.slice = <<>> /\ c.typ \notin KeepsEmpty)

RefHeader(s) == s[1] * 16777216 + s[2] * 65536 + s[3] * 256 + s[4]

RefDecodes(c) ==
  RefNull(c) \/ c.typ \notin {"list", "set", "map"}
  \/ (Len(c.slice) >= 4 /\ c.slice[1] < 128)

RefItemCount(c) ==
  CASE RefNull(c) -> 0
    [] c.typ \in {"list", "set", "map"} -> RefHeader(c.slice)
    [] c.typ \in {"tuple", "udt"} -> Arity[c.typ]
    [] OTHER -> 0

(***************************************************************************)
(* Properties.                                                             *)
(***************************************************************************)

\* Every column CassRawRow::deserialize has decoded is one the contract
\* lets decode, and cass_value_is_null and cass_value_item_count report on
\* it what the contract says: empty-to-null normalisation by type, the
\* length header read as a signed big-endian i32, the arity of tuples and
\* UDTs, 0 otherwise; a kept slice is the frame's own.
DecodedColumnsAgree ==
  \A i \in 1..Len(columns) :
    /\ RefDecodes(row[i])
    /\ cass_value_is_null(columns[i]) = RefNull(row[i])
    /\ cass_value_item_count(columns[i]) = RefItemCount(row[i])
    /\ ~RefNull(row[i]) => columns[i].slice = row[i].slice

\* A row decodes only when all of its columns do, and then to all of them;
\* the first column that cannot decode fails the whole row (spec.md 4.3:
\* the error reaches the caller, never a shorter row).
RowOutcome ==
  /\ outcome = "ok" => Len(columns) = Len(row) /\ \A i \in 1..Len(row) : RefDecodes(row[i])
  /\ outcome = "error" => ~RefDecodes(row[Len(columns) + 1])
=============================================================================
