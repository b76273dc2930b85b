--------------------------- MODULE MCCassIterator ---------------------------
(***************************************************************************)
(* Model-checking harness for CassIterator: a small world of results,     *)
(* rows, values and schema maps, the refinement of the abstract Cursor     *)
(* protocol, and the agreement of what the accessors return with the       *)
(* element the protocol says is current.                                   *)
(***************************************************************************)
EXTENDS CassIterator, SequencesExt

(***************************************************************************)
(* The world.  res1 holds three rows, the second of which fails to        *)
(* deserialize; res2 is a Rows result with no rows; res3 is a NonRows     *)
(* (DDL/DML) result.                                                      *)
(***************************************************************************)
MCResults == {"res1", "res2", "res3"}
MCRows == {"row1", "row2", "row3"}
MCValues == {"vint", "vlist", "vset", "vmap", "vnullmap", "vtuple", "vudt"}
MCSchemaColls == {"schema_keyspaces", "ks_tables", "ks_user_types", "ks_views",
                  "t1_columns", "t1_views", "mv1_columns"}

MCResultData ==
  [res1 |-> [rows |-> TRUE,
             frame |-> <<[row |-> "row1", ok |-> TRUE],
                         [row |-> "row2", ok |-> FALSE],
                         [row |-> "row3", ok |-> TRUE]>>],
   res2 |-> [rows |-> TRUE, frame |-> <<>>],
   res3 |-> [rows |-> FALSE, frame |-> <<>>]]

MCRowData ==
  [row1 |-> <<"vint", "vlist">>,
   row2 |-> <<"vmap", "vtuple">>,
   row3 |-> <<"vudt", "vset">>]

MCValueData ==
  [vint     |-> [type |-> "int", null |-> FALSE, items |-> <<>>],
   vlist    |-> [type |-> "list", null |-> FALSE, items |-> <<"e1", "e2">>],
   vset     |-> [type |-> "set", null |-> FALSE, items |-> <<"e3">>],
   vmap     |-> [type |-> "map", null |-> FALSE,
                 items |-> <<<<"k1", "e1">>, <<"k2", "e2">>>>],
   vnullmap |-> [type |-> "map", null |-> TRUE, items |-> <<>>],
   vtuple   |-> [type |-> "tuple", null |-> FALSE, items |-> <<"e1", Null>>],
   vudt     |-> [type |-> "udt", null |-> FALSE,
                 items |-> <<<<"f1", "e2">>, <<"f2", Null>>>>]]

MCSchemaData ==
  [schema_keyspaces |-> [variant |-> "KeyspacesMeta", entries |-> <<"ks">>],
   ks_tables        |-> [variant |-> "TablesMeta", entries |-> <<"t1", "t2">>],
   ks_user_types    |-> [variant |-> "UserTypes", entries |-> <<>>],
   ks_views         |-> [variant |-> "MaterializedViewsMeta", entries |-> <<"mv1">>],
   t1_columns       |-> [variant |-> "ColumnsMeta", entries |-> <<"c1", "c2", "c3">>],
   t1_views         |-> [variant |-> "MaterializedViewsMeta", entries |-> <<"mv1">>],
   mv1_columns      |-> [variant |-> "ColumnsMeta", entries |-> <<"c1", "c2">>]]

(***************************************************************************)
(* Reference: what each constructor promises to walk, written from the    *)
(* API contract rather than from the iterator code.                       *)
(***************************************************************************)
Src(variant, arg) == [variant |-> variant, arg |-> arg]

IterSources ==
  {Src("Result", r) : r \in Results}
  \cup {Src("Row", r) : r \in Rows}
  \cup {Src("Collection", v) : v \in {w \in Values : ValueData[w].type \in {"list", "set", "map"}}}
  \cup {Src("Tuple", v) : v \in {w \in Values : ValueData[w].type = "tuple" /\ ~ValueData[w].null}}
  \cup {Src("Map", v) : v \in {w \in Values : ValueData[w].type = "map" /\ ~ValueData[w].null}}
  \cup {Src("Udt", v) : v \in {w \in Values : ValueData[w].type = "udt" /\ ~ValueData[w].null}}
  \cup {Src(SchemaData[c].variant, c) : c \in SchemaColls}

\* Lists, sets: their items; a map walked as a collection: k1, v1, k2, v2...
SourceElems(s) ==
  CASE s.variant = "Result" ->
         [i \in 1..Len(ResultData[s.arg].frame) |-> ResultData[s.arg].frame[i].row]
    [] s.variant = "Row" -> RowData[s.arg]
    [] s.variant = "Collection" ->
         IF ValueData[s.arg].type = "map" THEN FlattenSeq(ValueData[s.arg].items)
                                          ELSE ValueData[s.arg].items
    [] s.variant \in {"Tuple", "Map", "Udt"} -> ValueData[s.arg].items
    [] OTHER -> SchemaData[s.arg].entries

SourceGood(s, i) == s.variant /= "Result" \/ ResultData[s.arg].frame[i].ok

(***************************************************************************)
(* Refinement mapping: a positional iterator has consumed position+1      *)
(* elements (at most count) and has a current element while its position  *)
(* is in range; a result iterator has consumed `taken` rows of the frame  *)
(* and has a current element while it holds a row.                        *)
(***************************************************************************)
Walked(it) ==
  IF it.variant = "Result" THEN it.taken
  ELSE IF it.position = NoPos THEN 0
  ELSE IF it.position + 1 < it.count THEN it.position + 1 ELSE it.count

HasCurrent(it) ==
  IF it.variant = "Result" THEN it.current /= Null
  ELSE it.position /= NoPos /\ it.position < it.count

AbsCursor ==
  [h \in Handles |->
     IF iters[h] = NoIter THEN NoIter
     ELSE [src |-> Src(iters[h].variant, iters[h].arg),
           walked |-> Walked(iters[h]), ok |-> HasCurrent(iters[h])]]

Abs == INSTANCE Cursor WITH cursor <- AbsCursor, Sources <- IterSources,
         Elems <- SourceElems, Good <- SourceGood

\* What a caller reading handle h with the accessor of its variant sees.
CurrentElement(h) ==
  LET v == iters[h].variant IN
  CASE v = "Result" -> cass_iterator_get_row(h)
    [] v = "Row" -> cass_iterator_get_column(h)
    [] v \in {"Collection", "Tuple"} -> cass_iterator_get_value(h)
    [] v = "Map" ->
         IF cass_iterator_get_map_key(h) = Null THEN Null
         ELSE <<cass_iterator_get_map_key(h), cass_iterator_get_map_value(h)>>
    [] v = "Udt" ->
         IF cass_iterator_get_user_type_field_name(h)[1] /= "OK" THEN Null
         ELSE <<cass_iterator_get_user_type_field_name(h)[2],
                cass_iterator_get_user_type_field_value(h)>>
    [] v = "KeyspacesMeta" -> cass_iterator_get_keyspace_meta(h)
    [] v = "TablesMeta" -> cass_iterator_get_table_meta(h)
    [] v = "UserTypes" -> cass_iterator_get_user_type(h)
    [] v = "ColumnsMeta" -> cass_iterator_get_column_meta(h)
    [] v = "MaterializedViewsMeta" -> cass_iterator_get_materialized_view_meta(h)

(***************************************************************************)
(* Properties.                                                             *)
(***************************************************************************)

\* Every sequence of create / next / free calls on any mix of iterators is
\* a behaviour of the abstract cursor: each iterator walks exactly the
\* elements its constructor promises, in order, each once, and a row that
\* fails to decode is reported as a false next and never exposed.
CursorRefinement == Abs!Spec

\* The accessors of cass_iterator_get_* return exactly the element the
\* protocol makes current, and cass_iterator_next returned true exactly
\* when one is: null before the first next and after a false next, never
\* a stale element (spec.md 3, 4.2).
CurrentAgrees ==
  \A h \in Handles :
    iters[h] /= NoIter =>
      /\ CurrentElement(h) = Abs!Current(h)
      /\ lastNext[h] \in BOOLEAN => lastNext[h] = HasCurrent(iters[h])

\* Once cass_iterator_next has returned false on an iterator, it returns
\* false on every later call: a decode failure is treated as the end of
\* the iteration (spec.md 4.2 and 7).
EndIsSticky ==
  [][\A h \in Handles :
       lastNext[h] = FALSE /\ lastNext'[h] \in BOOLEAN => lastNext'[h] = FALSE]_vars

=============================================================================
