---------------------------- MODULE MCSchemaGraph ----------------------------
(***************************************************************************)
(* SchemaGraph under TLC: a keyspace of up to three tables and two views,  *)
(* with views whose base table is in the snapshot and views whose base     *)
(* table is not, built and freed over and over.                            *)
(***************************************************************************)
EXTENDS SchemaGraph

=============================================================================
