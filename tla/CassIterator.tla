---------------------------- MODULE CassIterator ----------------------------
(***************************************************************************)
(* The iterator engine of scylla-rust-wrapper (src/.../iterator.rs): the   *)
(* CassIterator tagged variant, its constructors, cass_iterator_next, the  *)
(* current-element accessors cass_iterator_get_* and cass_iterator_free.   *)
(*                                                                         *)
(* The C caller is the environment: it creates, advances, reads and frees  *)
(* iterators over immutable results, rows, values and schema metadata, in *)
(* any order and with several iterators alive at once.  The data walked is *)
(* abstracted to small sequences of model values given as constants.       *)
(***************************************************************************)
EXTENDS Naturals, Sequences

CONSTANTS
  Handles,      \* iterator handles the caller may hold at once
  Results,      \* CassResult objects
  Rows,         \* CassRow objects
  Values,       \* (Legacy)CassValue objects
  SchemaColls,  \* maps of schema metadata an iterator can walk
  ResultData,   \* [Results -> [rows : BOOLEAN, frame : Seq([row, ok])]]
  RowData,      \* [Rows -> Seq(Values)]: the columns of a row
  ValueData,    \* [Values -> [type, null, items]]
  SchemaData,   \* [SchemaColls -> [variant, entries]], entries in map order
  MaxOverrun,   \* calls of cass_iterator_next explored past the end
  NullArgs,     \* may the caller pass a null pointer to a constructor?
  Null,         \* the null pointer / RefFFI::null()
  NoIter,       \* a handle slot with no live iterator
  NoPos         \* position: None

ASSUME MaxOverrun \in Nat /\ NullArgs \in BOOLEAN

VARIABLES
  iters,        \* the Box<CassIterator> behind each handle
  lastNext,     \* what cass_iterator_next last returned on each handle
  ret,          \* what the last API call returned to the caller
  panicked      \* a panic unwound into extern "C" (the process aborts)

vars == <<iters, lastNext, ret, panicked>>

CollectionTypes == {"list", "set", "map"}

SchemaVariants ==
  {"KeyspacesMeta", "TablesMeta", "UserTypes", "MaterializedViewsMeta", "ColumnsMeta"}

\* Vec::get(pos) / Iterator::nth(pos), 0-based.
Nth(s, pos) == IF pos + 1 \in 1..Len(s) THEN s[pos + 1] ELSE Null

(***************************************************************************)
(* query_result.rs: cass_value_is_collection and cass_value_item_count.    *)
(* The item count was precomputed by the raw-value decoder: the collection *)
(* length for collections, the arity for tuples and UDTs, none (0) for     *)
(* null values and for every other type.                                  *)
(***************************************************************************)
cass_value_is_collection(v) == ValueData[v].type \in CollectionTypes

cass_value_item_count(v) ==
  IF ValueData[v].null \/ ValueData[v].type \notin CollectionTypes \cup {"tuple", "udt"}
  THEN 0
  ELSE Len(ValueData[v].items)

Positional(variant, arg, count) ==
  [variant |-> variant, arg |-> arg, count |-> count, position |-> NoPos]

IteratorStates ==
  [variant : {"Result"}, arg : Results, rows : BOOLEAN, taken : Nat,
   current : Rows \cup {Null}]
  \cup
  [variant : {"Row", "Collection", "Map", "Tuple", "Udt"} \cup SchemaVariants,
   arg : Rows \cup Values \cup SchemaColls, count : Nat, position : Nat \cup {NoPos}]

TypeOK ==
  /\ iters \in [Handles -> IteratorStates \cup {NoIter}]
  /\ lastNext \in [Handles -> BOOLEAN \cup {NoPos}]
  /\ ret \in Handles \cup BOOLEAN \cup {Null}
  /\ panicked \in BOOLEAN

Init ==
  /\ iters = [h \in Handles |-> NoIter]
  /\ lastNext = [h \in Handles |-> NoPos]
  /\ ret = Null
  /\ panicked = FALSE

(***************************************************************************)
(* Constructors.  Each boxes a fresh iterator with no position and hands   *)
(* its pointer to the caller, or returns a null pointer.                   *)
(***************************************************************************)
Install(h, it) ==
  /\ iters[h] = NoIter
  /\ iters' = [iters EXCEPT ![h] = it]
  /\ lastNext' = [lastNext EXCEPT ![h] = NoPos]
  /\ ret' = h
  /\ UNCHANGED panicked

ReturnNull(h) ==
  /\ iters[h] = NoIter
  /\ ret' = Null
  /\ UNCHANGED <<iters, lastNext, panicked>>

cass_iterator_from_result(h, res) ==
  Install(h, [variant |-> "Result", arg |-> res, rows |-> ResultData[res].rows,
              taken |-> 0, current |-> Null])

cass_iterator_from_row(h, r) == Install(h, Positional("Row", r, Len(RowData[r])))

\* The value pointers a caller passes: a value, or null when it may.
ValueArgs == Values \cup (IF NullArgs THEN {Null} ELSE {})

\* RefFFI/ArcFFI/BoxFFI::as_ref(ptr).unwrap() on a null pointer panics.
UnwrapNull(h) ==
  /\ iters[h] = NoIter
  /\ panicked' = TRUE
  /\ UNCHANGED <<iters, lastNext, ret>>

\* Mutant: a map is iterated by entries instead of by keys and values.
cass_iterator_from_collection_entries(h, v) ==
  \/ /\ v = Null
     /\ UnwrapNull(h)
  \/ /\ v /= Null
     /\ cass_value_is_collection(v)
     /\ Install(h, Positional("Collection", v, cass_value_item_count(v)))
  \/ /\ v /= Null
     /\ ~cass_value_is_collection(v)
     /\ ReturnNull(h)

\* is_collection is computed first, by cass_value_is_collection, which
\* unwraps the pointer; only then come the RefFFI::is_null check and the
\* early return of a null iterator.  A map yields its keys and values in
\* turn: twice as many positions.
cass_iterator_from_collection(h, v) ==
  \/ /\ v = Null
     /\ UnwrapNull(h)
  \/ /\ v /= Null
     /\ cass_value_is_collection(v)
     /\ LET n == cass_value_item_count(v)
        IN Install(h, Positional("Collection", v,
                                 IF ValueData[v].type = "map" THEN n * 2 ELSE n))
  \/ /\ v /= Null
     /\ ~cass_value_is_collection(v)
     /\ ReturnNull(h)

\* from_tuple, from_map and fields_from_user_type: only for a non-null
\* value of that type (`if let Some(Value::CollectionValue(..))`).
DecodedAs(v, type) == ValueData[v].type = type /\ ~ValueData[v].null

FromDecoded(h, v, type, variant) ==
  \/ /\ DecodedAs(v, type)
     /\ Install(h, Positional(variant, v, Len(ValueData[v].items)))
  \/ /\ ~DecodedAs(v, type)
     /\ ReturnNull(h)

cass_iterator_from_tuple(h, v) == FromDecoded(h, v, "tuple", "Tuple")

cass_iterator_from_map(h, v) == FromDecoded(h, v, "map", "Map")

cass_iterator_fields_from_user_type(h, v) == FromDecoded(h, v, "udt", "Udt")

\* The seven schema constructors: the count is the length of the map.
cass_iterator_from_schema_meta(h, c) ==
  Install(h, Positional(SchemaData[c].variant, c, Len(SchemaData[c].entries)))

\* The other constructors begin with as_ref(ptr).unwrap() of their
\* argument and have no null check at all.
ConstructWithNull(h) ==
  /\ NullArgs
  /\ UnwrapNull(h)

(***************************************************************************)
(* cass_iterator_next.                                                     *)
(***************************************************************************)

\* CassRowIterator::next and its twins (legacy collection, map, UDT and
\* the schema iterators): the position moves even when it leaves the range.
PositionalNext(it) ==
  LET new_pos == IF it.position = NoPos THEN 0 ELSE it.position + 1
  IN <<[it EXCEPT !.position = new_pos], new_pos < it.count>>

\* CassResultIterator::next.  The row iterator of the driver consumes one
\* row of the frame per call; a row that fails to deserialize is logged and
\* reported as "no row", and the following call reads the row after it.
ResultNext(it) ==
  IF ~it.rows
  THEN <<it, FALSE>>
  ELSE IF it.taken = Len(ResultData[it.arg].frame)
       THEN <<[it EXCEPT !.current = Null], FALSE>>
       ELSE LET slot == ResultData[it.arg].frame[it.taken + 1]
            IN <<[it EXCEPT !.taken = @ + 1,
                            !.current = IF slot.ok THEN slot.row ELSE Null],
                 slot.ok>>

\* Exploration bound: positional iterators may be advanced MaxOverrun
\* times past their end.
WithinBound(it) ==
  IF it.variant = "Result" THEN TRUE
  ELSE IF it.position = NoPos THEN TRUE
  ELSE it.position < it.count + MaxOverrun

Step(h, result) ==
  /\ iters' = [iters EXCEPT ![h] = result[1]]
  /\ lastNext' = [lastNext EXCEPT ![h] = result[2]]
  /\ ret' = result[2]
  /\ UNCHANGED panicked

cass_iterator_next(h) ==
  /\ iters[h] /= NoIter
  /\ WithinBound(iters[h])
  /\ \/ /\ iters[h].variant = "Result"
        /\ Step(h, ResultNext(iters[h]))
     \/ /\ iters[h].variant /= "Result"
        /\ Step(h, PositionalNext(iters[h]))

cass_iterator_free(h) ==
  /\ iters[h] /= NoIter
  /\ iters' = [iters EXCEPT ![h] = NoIter]
  /\ lastNext' = [lastNext EXCEPT ![h] = NoPos]
  /\ ret' = Null
  /\ UNCHANGED panicked

(***************************************************************************)
(* Accessors: read the current element, never move.  Each is defined for  *)
(* its own variants and yields null for any other.                        *)
(***************************************************************************)
Is(h, variants) == iters[h] /= NoIter /\ iters[h].variant \in variants

Positioned(h) == Is(h, {"Row", "Collection", "Map", "Tuple", "Udt"} \cup SchemaVariants)
                 /\ iters[h].position /= NoPos

cass_iterator_get_row(h) ==
  IF Is(h, {"Result"}) /\ iters[h].rows THEN iters[h].current ELSE Null

cass_iterator_get_column(h) ==
  IF Is(h, {"Row"}) /\ Positioned(h)
  THEN Nth(RowData[iters[h].arg], iters[h].position)
  ELSE Null

\* Mutant: keys at odd positions and values at even ones.
cass_iterator_get_value_swapped(h) ==
  IF Is(h, {"Collection", "Tuple"}) /\ Positioned(h) /\ ~ValueData[iters[h].arg].null
  THEN LET d == ValueData[iters[h].arg]
           pos == iters[h].position
       IN IF d.type = "map"
          THEN LET entry == Nth(d.items, pos \div 2)
               IN IF entry = Null THEN Null ELSE entry[2 - (pos % 2)]
          ELSE Nth(d.items, pos)
  ELSE Null

\* Lists, sets and tuples by position (a null tuple field reads as null);
\* a map as key, value, key, value, ...
cass_iterator_get_value(h) ==
  IF Is(h, {"Collection", "Tuple"}) /\ Positioned(h) /\ ~ValueData[iters[h].arg].null
  THEN LET d == ValueData[iters[h].arg]
           pos == iters[h].position
       IN IF d.type = "map"
          THEN LET entry == Nth(d.items, pos \div 2)
               IN IF entry = Null THEN Null ELSE entry[1 + (pos % 2)]
          ELSE Nth(d.items, pos)
  ELSE Null

MapEntry(h) ==
  IF Is(h, {"Map"}) /\ Positioned(h) /\ ~ValueData[iters[h].arg].null
  THEN Nth(ValueData[iters[h].arg].items, iters[h].position)
  ELSE Null

cass_iterator_get_map_key(h) == IF MapEntry(h) = Null THEN Null ELSE MapEntry(h)[1]

cass_iterator_get_map_value(h) == IF MapEntry(h) = Null THEN Null ELSE MapEntry(h)[2]

UdtField(h) ==
  IF Is(h, {"Udt"}) /\ Positioned(h) /\ ~ValueData[iters[h].arg].null
  THEN Nth(ValueData[iters[h].arg].items, iters[h].position)
  ELSE Null

\* <<error code, field name>>
cass_iterator_get_user_type_field_name(h) ==
  IF UdtField(h) = Null THEN <<"BAD_PARAMS", Null>> ELSE <<"OK", UdtField(h)[1]>>

cass_iterator_get_user_type_field_value(h) ==
  IF UdtField(h) = Null THEN Null ELSE UdtField(h)[2]

\* cass_iterator_get_keyspace_meta, _table_meta, _user_type, _column_meta
\* and _materialized_view_meta: the nth entry of the walked map.
SchemaEntry(h, variant) ==
  IF Is(h, {variant}) /\ Positioned(h)
  THEN Nth(SchemaData[iters[h].arg].entries, iters[h].position)
  ELSE Null

cass_iterator_get_keyspace_meta(h) == SchemaEntry(h, "KeyspacesMeta")

cass_iterator_get_table_meta(h) == SchemaEntry(h, "TablesMeta")

cass_iterator_get_user_type(h) == SchemaEntry(h, "UserTypes")

cass_iterator_get_column_meta(h) == SchemaEntry(h, "ColumnsMeta")

cass_iterator_get_materialized_view_meta(h) == SchemaEntry(h, "MaterializedViewsMeta")

(***************************************************************************)
(* The caller.                                                             *)
(***************************************************************************)
Next ==
  /\ ~panicked
  /\ \E h \in Handles :
       \/ \E res \in Results : cass_iterator_from_result(h, res)
       \/ \E r \in Rows : cass_iterator_from_row(h, r)
       \/ \E v \in ValueArgs : cass_iterator_from_collection(h, v)
       \/ \E v \in Values : cass_iterator_from_tuple(h, v)
       \/ \E v \in Values : cass_iterator_from_map(h, v)
       \/ \E v \in Values : cass_iterator_fields_from_user_type(h, v)
       \/ \E c \in SchemaColls : cass_iterator_from_schema_meta(h, c)
       \/ ConstructWithNull(h)
       \/ cass_iterator_next(h)
       \/ cass_iterator_free(h)

Spec == Init /\ [][Next]_vars
=============================================================================
