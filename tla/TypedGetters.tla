---------------------------- MODULE TypedGetters ----------------------------
(***************************************************************************)
(* The typed value getters of scylla-rust-wrapper (src/.../query_result.rs *)
(* 631-940): cass_value_get_<T>(value, out) -> CassError.                  *)
(*                                                                         *)
(* Most getters call CassValue::get_non_null::<T>, which answers NULL_VALUE *)
(* for an absent slice before it type-checks T against the value's type;  *)
(* get_int64, get_uuid and get_string first match on the type tag, and     *)
(* get_bytes hands out any non-null slice.                                 *)
(*                                                                         *)
(* A slice is Null, empty, or one symbolic byte: "w" for bytes that are a  *)
(* valid encoding of the column type, "m" for bytes that are not (a wrong  *)
(* width, bad UTF-8).  Empty slices are first normalised as the raw value *)
(* decoder does (RawValue).                                                *)
(***************************************************************************)
EXTENDS Naturals, Sequences

CONSTANTS
  Null          \* an absent slice, and a null CassValue pointer

Types == {"ascii", "text", "blob", "boolean", "tinyint", "smallint", "int",
          "bigint", "counter", "time", "timestamp", "date", "float", "double",
          "uuid", "timeuuid", "inet", "decimal", "duration", "varint", "list"}

Slices == {Null, <<>>, <<"w">>, <<"m">>}

RV == INSTANCE RawValue WITH
        Types <- Types, Arity <- [t \in {"tuple", "udt"} |-> 0], Slices <- Slices,
        MaxColumns <- 1, row <- <<>>, columns <- <<>>, outcome <- "decoding"

(***************************************************************************)
(* The types each getter's Rust type T accepts (T::type_check), and its    *)
(* deserialization: an empty slice kept by the raw decoder is a valid      *)
(* string or blob and malformed for every other type.                      *)
(***************************************************************************)

Accepts ==
  [float |-> {"float"}, double |-> {"double"}, bool |-> {"boolean"},
   int8 |-> {"tinyint"}, int16 |-> {"smallint"}, uint32 |-> {"date"},
   int32 |-> {"int"}, int64 |-> {"bigint", "counter", "time", "timestamp"},
   uuid |-> {"uuid", "timeuuid"}, inet |-> {"inet"}, decimal |-> {"decimal"},
   string |-> {"ascii", "text"}, duration |-> {"duration"}, bytes |-> Types]

Getters == DOMAIN Accepts

\* The getters that match on val.value.typ() before get_non_null.
Dispatching == {"int64", "uuid", "string"}

Deserializes(typ, slice) == slice = <<"w">> \/ (slice = <<>> /\ typ \in {"ascii", "text", "blob"})

\* Mutant: the bytes are decoded before T is type-checked.
get_non_null_decode_first(accepts, typ, slice) ==
  IF slice = Null THEN "NULL_VALUE"
  ELSE IF ~Deserializes(typ, slice) THEN "INVALID_DATA"
  ELSE IF typ \notin accepts THEN "INVALID_VALUE_TYPE"
  ELSE "OK"

\* CassValue::get_non_null with the error's to_cass_error.
get_non_null(accepts, typ, slice) ==
  IF slice = Null THEN "NULL_VALUE"
  ELSE IF typ \notin accepts THEN "INVALID_VALUE_TYPE"
  ELSE IF Deserializes(typ, slice) THEN "OK" ELSE "INVALID_DATA"

\* cass_value_get_<getter> on a value of column type `typ` whose frame
\* slice is `v`, or on a null pointer (val_ptr_to_ref_ensure_non_null).
cass_value_get(getter, typ, v) ==
  LET slice == RV!Normalise(typ, v) IN
  IF v = Null /\ typ = Null THEN "NULL_VALUE"
  ELSE IF getter = "bytes" THEN (IF slice = Null THEN "NULL_VALUE" ELSE "OK")
  ELSE IF getter \in Dispatching /\ typ \notin Accepts[getter] THEN "INVALID_VALUE_TYPE"
  ELSE get_non_null(Accepts[getter], typ, slice)

(***************************************************************************)
(* One call: the caller picks a getter and a value, the getter returns.    *)
(***************************************************************************)
VARIABLES
  call,         \* [getter, typ, slice]; typ = Null for a null pointer
  status        \* the CassError returned, or "pending"

vars == <<call, status>>

Calls == [getter : Getters, typ : Types, slice : Slices]
           \cup [getter : Getters, typ : {Null}, slice : {Null}]

Init ==
  /\ call \in Calls
  /\ status = "pending"

Return ==
  /\ status = "pending"
  /\ status' = cass_value_get(call.getter, call.typ, call.slice)
  /\ UNCHANGED call

Spec == Init /\ [][Return]_vars

(***************************************************************************)
(* Reference: the status taxonomy of spec.md 4.4 and 6.                    *)
(***************************************************************************)

\* The representations spec.md 4.4 and 6 give each getter.
RefAccepts ==
  LET one(t) == {t} IN
  [float |-> one("float"), double |-> one("double"), bool |-> one("boolean"),
   int8 |-> one("tinyint"), int16 |-> one("smallint"), uint32 |-> one("date"),
   int32 |-> one("int"), int64 |-> {"bigint", "counter", "time", "timestamp"},
   uuid |-> {"uuid", "timeuuid"}, inet |-> one("inet"), decimal |-> one("decimal"),
   string |-> {"ascii", "text"}, duration |-> one("duration"), bytes |-> Types]

\* A null pointer or an absent value is NULL_VALUE, whatever the type (the
\* cpp-driver ABI tests for null before anything else, and so does
\* get_non_null here); then a type the getter has no representation for is
\* INVALID_VALUE_TYPE, malformed bytes are INVALID_DATA (the raw bytes
\* getter reinterprets nothing), anything else OK.
Reference(getter, typ, v) ==
  LET slice == RV!Normalise(typ, v) IN
  IF typ = Null \/ slice = Null THEN "NULL_VALUE"
  ELSE IF typ \notin RefAccepts[getter] THEN "INVALID_VALUE_TYPE"
  ELSE IF getter = "bytes" \/ Deserializes(typ, slice) THEN "OK" ELSE "INVALID_DATA"

\* Every getter on a non-null value returns the status the taxonomy gives:
\* a typecheck failure is never reported as INVALID_DATA, and the 64-bit
\* getter accepts bigint, counter, time and timestamp.
NonNullGettersFollowTaxonomy ==
  status /= "pending" /\ RV!Normalise(call.typ, call.slice) /= Null =>
    status = Reference(call.getter, call.typ, call.slice)

\* Every getter returns the taxonomy's status on a null value too: NULL_VALUE,
\* whichever getter is called on whichever column type, as every getter
\* built on get_non_null does (get_int64, get_uuid and get_string check the
\* type tag before null).
GettersFollowTaxonomy ==
  status /= "pending" => status = Reference(call.getter, call.typ, call.slice)
=============================================================================
