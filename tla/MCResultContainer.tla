------------------------- MODULE MCResultContainer -------------------------
(***************************************************************************)
(* ResultContainer under TLC: a table of an int key and a list, altered to *)
(* add an int column between them (SELECT * orders regular columns by     *)
(* name), and cells that are well formed, empty, an int of the wrong       *)
(* width, or a list whose length header is cut short.                      *)
(***************************************************************************)
EXTENDS ResultContainer, SequencesExt

MCSchemaVersions ==
  << << [name |-> <<"k">>, typ |-> "int"], [name |-> <<"v">>, typ |-> "list"] >>,
     << [name |-> <<"k">>, typ |-> "int"], [name |-> <<"u">>, typ |-> "int"],
        [name |-> <<"v">>, typ |-> "list"] >> >>

MCAsciiLowercase == [c \in {"K"} |-> "k"]

\* The names a caller looks columns up by: every string of up to three
\* characters over a double quote, k, K and v.
LookupNames == BoundedSeq({DQ, "k", "K", "v"}, 3)

MCCellSlices ==
  [t \in {"int", "list"} |->
     IF t = "int" THEN {<<>>, <<0, 0, 0, 1>>, <<0, 1>>} ELSE {<<0, 0, 0, 0>>, <<0>>}]

\* The rows a caller can hold a CassRow of: the first row and the row the
\* result iterator is on.
HeldRows ==
  {r \in {cass_result_first_row, IF iter = NoIter THEN Null ELSE iter.current} : r /= Null}

\* Every value of a held row has the type its metadata column gives it:
\* cass_value_type (value_type, from the metadata) and the typed getters
\* (value.typ, the type the frame was decoded with) agree.
ValueTypesAgree ==
  \A r \in HeldRows : \A i \in DOMAIN r : r[i].value_type = r[i].value.typ

\* The first row exists exactly when the result iterator's first
\* cass_iterator_next returns true (spec.md 4.3: a first row that fails to
\* decode fails the construction).
FirstRowIffIteratorFirst ==
  IsRows /\ iter /= NoIter /\ iter.taken = 1 =>
    (iter.last = TRUE <=> cass_result_first_row /= Null)

\* spec.md 6: a lookup by name is case-insensitive, unless the name is
\* quoted in double quotes; then the name between them is matched exactly.
RefLookup(row, name) ==
  LET quoted == Len(name) >= 2 /\ name[1] = DQ /\ name[Len(name)] = DQ
      key == IF quoted THEN SubSeq(name, 2, Len(name) - 1) ELSE name
  IN FirstColumnMatching(row, ColumnsNamed(key, quoted))

\* cass_row_get_column_by_name on every held row and every name returns
\* what the quoting rule gives.  A lone double quote is not a quoted name
\* (there is no closing quote), so it is looked up like any other and not
\* found; the code takes it for quoted and panics in its strip_suffix.
ByNameLookupFollowsQuoting ==
  \A r \in HeldRows, name \in LookupNames :
    cass_row_get_column_by_name(r, name) = RefLookup(r, name)
=============================================================================
