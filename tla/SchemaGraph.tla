----------------------------- MODULE SchemaGraph -----------------------------
(***************************************************************************)
(* The ownership graph of a schema snapshot (src/.../metadata.rs).         *)
(*                                                                         *)
(* A CassSchemaMeta is a Box owning one CassKeyspaceMeta, whose tables and *)
(* views maps hold Arc<CassTableMeta> and Arc<CassMaterializedViewMeta>.  *)
(* A table's views map holds further Arcs to its views, and a view refers *)
(* back to its base table through a Weak, so that the table <-> view      *)
(* references form no cycle of strong counts.                              *)
(*                                                                         *)
(* The heap maps every allocation to its strong count, the allocations    *)
(* its own Arcs keep alive, and the allocation its Weak points to.  Each   *)
(* snapshot reuses the allocation ids of the previous one, whose counts    *)
(* are all zero again when it has been freed without a leak.               *)
(***************************************************************************)
EXTENDS Naturals, Sequences, SequencesExt

CONSTANTS
  TableNames,   \* tables of the keyspace in the driver's metadata
  ViewNames,    \* materialized views of the keyspace
  Null          \* std::ptr::null(), and a Weak::new() that points nowhere

TId(t) == <<"table", t>>
VId(v) == <<"view", v>>

Allocs == {TId(t) : t \in TableNames} \cup {VId(v) : v \in ViewNames}

VARIABLES
  schema,       \* the Box<CassSchemaMeta>: [tables, views] of ids, or Null
  heap          \* [Allocs -> [strong, owns, weak]]

vars == <<schema, heap>>

Freed == [strong |-> 0, owns |-> {}, weak |-> Null]

TypeOK ==
  /\ schema = Null
     \/ /\ DOMAIN schema.tables \subseteq TableNames
        /\ DOMAIN schema.views \subseteq ViewNames
  /\ heap \in [Allocs -> [strong : Nat, owns : SUBSET Allocs, weak : Allocs \cup {Null}]]

Init ==
  /\ schema = Null
  /\ heap = [a \in Allocs |-> Freed]

(***************************************************************************)
(* Building a snapshot.                                                    *)
(***************************************************************************)

Build(tables, base) ==
  LET present == {v \in DOMAIN base : base[v] \in tables} IN
  [a \in Allocs |->
     IF a[1] = "table" /\ a[2] \in tables
     THEN [strong |-> 1, owns |-> {VId(v) : v \in {w \in present : base[w] = a[2]}},
           weak |-> Null]
     ELSE IF a[1] = "view" /\ a[2] \in DOMAIN base
     THEN [strong |-> IF a[2] \in present THEN 2 ELSE 1, owns |-> {},
           weak |-> IF a[2] \in present THEN TId(base[a[2]]) ELSE Null]
     ELSE Freed]

\* The session hands the caller a new snapshot of the driver's metadata.
cass_session_get_schema_meta ==
  /\ schema = Null
  /\ \E tables \in SUBSET TableNames, views \in SUBSET ViewNames :
       \E base \in [views -> TableNames] :
         /\ heap' = Build(tables, base)
         /\ schema' = [tables |-> [t \in tables |-> TId(t)],
                       views |-> [v \in views |-> VId(v)]]

(***************************************************************************)
(* Freeing it: the drop glue of Box<CassSchemaMeta>.                       *)
(***************************************************************************)

\* Dropping the Arcs in `work` one by one: an allocation whose strong count
\* reaches zero is dropped in turn, and with it the Arcs it owns.
RECURSIVE Release(_, _)
Release(h, work) ==
  IF work = <<>> THEN h
  ELSE LET a == Head(work)
           n == h[a].strong - 1
       IN Release([h EXCEPT ![a].strong = n],
                  Tail(work) \o (IF n = 0 THEN SetToSeq(h[a].owns) ELSE <<>>))

cass_schema_meta_free ==
  /\ schema /= Null
  /\ heap' = Release(heap, SetToSeq({schema.tables[t] : t \in DOMAIN schema.tables}
                                    \cup {schema.views[v] : v \in DOMAIN schema.views}))
  /\ schema' = Null

Next == cass_session_get_schema_meta \/ cass_schema_meta_free

Spec == Init /\ [][Next]_vars

(***************************************************************************)
(* Accessors of a live snapshot.                                           *)
(***************************************************************************)

\* cass_keyspace_meta_table_by_name / materialized_view_by_name.
TableByName(t) == IF t \in DOMAIN schema.tables THEN schema.tables[t] ELSE Null

ViewByName(v) == IF v \in DOMAIN schema.views THEN schema.views[v] ELSE Null

\* The views a table's views map holds (cass_table_meta_materialized_view
\* at every index below cass_table_meta_materialized_view_count).
TableViews(table) == heap[table].owns

\* cass_table_meta_materialized_view_by_name: the table's views map.
cass_table_meta_materialized_view_by_name(table, v) ==
  IF VId(v) \in heap[table].owns THEN VId(v) ELSE Null

cass_table_meta_materialized_view_count(table) == Cardinality(heap[table].owns)

\* Weak::upgrade: the base table while some Arc keeps it alive, else null.
cass_materialized_view_meta_base_table(view) ==
  LET w == heap[view].weak IN
  IF w /= Null /\ heap[w].strong > 0 THEN w ELSE Null
=============================================================================
