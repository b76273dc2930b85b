------------------------------ MODULE TableMeta ------------------------------
(***************************************************************************)
(* Table metadata of scylla-rust-wrapper (src/.../metadata.rs):            *)
(* create_table_metadata builds a CassTableMeta from the rust-driver's     *)
(* Table, and cass_table_meta_column serves the fixed column order of     *)
(* spec.md 3: partition keys by position, clustering keys by position,    *)
(* then every other column by name.  columns_metadata is a HashMap whose   *)
(* iteration order is whatever the hasher gives; the column iterator and  *)
(* cass_materialized_view_meta_column walk it in that order.              *)
(*                                                                         *)
(* Column names are abstracted to integers: their order is the byte order *)
(* of the names that sort_unstable uses.                                  *)
(***************************************************************************)
EXTENDS Naturals, Sequences, SequencesExt, FiniteSets

CONSTANTS
  Names,        \* column names, totally ordered
  NoMeta,       \* no CassTableMeta built
  Null          \* std::ptr::null()

Kinds == {"PartitionKey", "Clustering", "Regular", "Static"}

\* The rust-driver's Table: the kind of every column, and the partition and
\* clustering keys as vectors ordered by position.
DriverTables ==
  UNION {
    UNION {
      { [columns |-> kinds, partition_key |-> pk, clustering_key |-> ck] :
          pk \in SetToSeqs({n \in S : kinds[n] = "PartitionKey"}),
          ck \in SetToSeqs({n \in S : kinds[n] = "Clustering"}) } :
      kinds \in {f \in [S -> Kinds] : \E n \in S : f[n] = "PartitionKey"} }
    : S \in SUBSET Names }

VARIABLES
  driver,       \* the Table the rust-driver hands over
  meta,         \* the CassTableMeta built from it, or NoMeta
  hashOrder     \* iteration order of meta.columns_metadata

vars == <<driver, meta, hashOrder>>

\* Vec::get(pos) / Iterator::nth(pos), 0-based.
Nth(s, pos) == IF pos + 1 \in 1..Len(s) THEN s[pos + 1] ELSE Null

TypeOK ==
  /\ driver \in DriverTables
  /\ meta = NoMeta
     \/ /\ meta.columns_metadata \in UNION {[S -> Kinds] : S \in SUBSET Names}
        /\ {meta.partition_keys, meta.clustering_keys,
            meta.non_key_sorted_columns} \subseteq Seq(Names)
  /\ hashOrder \in Seq(Names)

Init ==
  /\ driver \in DriverTables
  /\ meta = NoMeta
  /\ hashOrder = <<>>

\* Mutant: static columns are filtered out with the key columns.
NonKeySortedStaticDropped(columns) ==
  SetToSortSeq({n \in DOMAIN columns : columns[n] = "Regular"}, <)

\* Every column that is neither partition nor clustering key (regular and
\* static ones), sorted by name.
NonKeySorted(columns) ==
  SetToSortSeq({n \in DOMAIN columns :
                  columns[n] \notin {"PartitionKey", "Clustering"}}, <)

\* create_table_metadata; the HashMap it fills iterates in any order.
create_table_metadata ==
  /\ meta = NoMeta
  /\ meta' = [columns_metadata |-> driver.columns,
              partition_keys |-> driver.partition_key,
              clustering_keys |-> driver.clustering_key,
              non_key_sorted_columns |-> NonKeySorted(driver.columns)]
  /\ hashOrder' \in SetToSeqs(DOMAIN driver.columns)
  /\ UNCHANGED driver

\* cass_schema_meta_free drops the tree; the next schema snapshot is built
\* from whatever Table the driver then holds.
cass_schema_meta_free ==
  /\ meta /= NoMeta
  /\ meta' = NoMeta
  /\ hashOrder' = <<>>
  /\ driver' \in DriverTables

\* cass_table_meta_column: the index is looked up in the partition keys,
\* then (reduced by their count) in the clustering keys, then in the
\* sorted remaining columns; past the end it is null.
cass_table_meta_column(index) ==
  IF index < Len(meta.partition_keys)
  THEN meta.partition_keys[index + 1]
  ELSE LET i2 == index - Len(meta.partition_keys) IN
       IF i2 < Len(meta.clustering_keys)
       THEN meta.clustering_keys[i2 + 1]
       ELSE Nth(meta.non_key_sorted_columns, i2 - Len(meta.clustering_keys))

cass_table_meta_column_count == Cardinality(DOMAIN meta.columns_metadata)

cass_table_meta_partition_key_count == Len(meta.partition_keys)

cass_table_meta_clustering_key_count == Len(meta.clustering_keys)

\* A key name's entry in columns_metadata, or null.
ColumnMetaOf(name) ==
  IF name /= Null /\ name \in DOMAIN meta.columns_metadata THEN name ELSE Null

cass_table_meta_partition_key(index) == ColumnMetaOf(Nth(meta.partition_keys, index))

cass_table_meta_clustering_key(index) == ColumnMetaOf(Nth(meta.clustering_keys, index))

\* columns_metadata.get(name); a null name gives null.
cass_table_meta_column_by_name(name) == ColumnMetaOf(name)

\* cass_iterator_get_column_meta after index+1 calls of cass_iterator_next
\* on cass_iterator_columns_from_table_meta, and
\* cass_materialized_view_meta_column: the nth entry of the HashMap.
IteratorColumn(index) == Nth(hashOrder, index)

cass_materialized_view_meta_column(index) == Nth(hashOrder, index)

\* view_metadata.columns_metadata.get(name); a null name gives null.
cass_materialized_view_meta_column_by_name(name) == ColumnMetaOf(name)

cass_materialized_view_meta_column_count == Cardinality(DOMAIN meta.columns_metadata)

Next == create_table_metadata \/ cass_schema_meta_free

Spec == Init /\ [][Next]_vars

(***************************************************************************)
(* Reference order of spec.md 3, from the driver's Table: key columns in   *)
(* position order, then every other column in name order.                 *)
(***************************************************************************)
ReferenceOrder ==
  driver.partition_key \o driver.clustering_key \o
    SortSeq(SetToSeq({n \in DOMAIN driver.columns :
                        driver.columns[n] \in {"Regular", "Static"}}), <)

\* cass_table_meta_column(i) is the i-th column of the reference order for
\* every i, and null one past the last column.
ColumnOrderContract ==
  meta /= NoMeta =>
    \A i \in 0..Len(ReferenceOrder) :
      cass_table_meta_column(i) = Nth(ReferenceOrder, i)

\* The column iterator of a table yields the columns in the order of
\* cass_table_meta_column, as the cpp-driver's does (spec.md 3, 4.5).
ColumnIteratorFollowsContract ==
  meta /= NoMeta =>
    \A i \in 0..Len(ReferenceOrder) :
      IteratorColumn(i) = cass_table_meta_column(i)

=============================================================================
