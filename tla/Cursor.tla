------------------------------- MODULE Cursor -------------------------------
(***************************************************************************)
(* The iteration protocol every CassIterator promises (spec.md 4.2), as an *)
(* abstract specification.  A cursor walks the elements of its source in   *)
(* order.  It is Unstarted until the first Advance; each Advance consumes  *)
(* one element and makes it current, and returns whether it did.  At the   *)
(* end, Advance returns false and nothing is current.                      *)
(*                                                                         *)
(* An element may fail to decode.  The failed element is consumed, Advance *)
(* returns false for it and nothing is current, and the next Advance goes  *)
(* on with the element after it.  spec.md reads more into the false: that  *)
(* a decode failure is "treated as end-of-iteration" and that Advance      *)
(* keeps returning false after it; MCCassIterator states that reading as   *)
(* EndIsSticky.                                                            *)
(***************************************************************************)
EXTENDS Naturals, Sequences

CONSTANTS
  Handles,      \* cursor handles held by the caller
  Sources,      \* what a cursor can be created over
  Elems(_),     \* Elems(s): the elements of source s, in iteration order
  Good(_, _),   \* Good(s, i): element i of s decodes
  Null,         \* what reading the current element yields when none is
  NoIter        \* a handle that holds no cursor

VARIABLE cursor

TypeOK ==
  cursor \in [Handles -> {NoIter} \cup
                [src : Sources, walked : Nat, ok : BOOLEAN]]

Init == cursor = [h \in Handles |-> NoIter]

Create(h, s) ==
  /\ cursor[h] = NoIter
  /\ cursor' = [cursor EXCEPT ![h] = [src |-> s, walked |-> 0, ok |-> FALSE]]

\* The next element exists and decodes: it becomes current.
AdvanceOnto(h) ==
  LET c == cursor[h] IN
  /\ c /= NoIter
  /\ c.walked < Len(Elems(c.src))
  /\ Good(c.src, c.walked + 1)
  /\ cursor' = [cursor EXCEPT ![h].walked = @ + 1, ![h].ok = TRUE]

\* The next element fails to decode: Advance returns false.
AdvanceFailed(h) ==
  LET c == cursor[h] IN
  /\ c /= NoIter
  /\ c.walked < Len(Elems(c.src))
  /\ ~Good(c.src, c.walked + 1)
  /\ cursor' = [cursor EXCEPT ![h].walked = @ + 1, ![h].ok = FALSE]

\* Past the last element: Advance returns false, again and again.
AdvanceAtEnd(h) ==
  LET c == cursor[h] IN
  /\ c /= NoIter
  /\ c.walked = Len(Elems(c.src))
  /\ cursor' = [cursor EXCEPT ![h].ok = FALSE]

Free(h) ==
  /\ cursor[h] /= NoIter
  /\ cursor' = [cursor EXCEPT ![h] = NoIter]

Next ==
  \E h \in Handles :
     \/ \E s \in Sources : Create(h, s)
     \/ AdvanceOnto(h)
     \/ AdvanceFailed(h)
     \/ AdvanceAtEnd(h)
     \/ Free(h)

Spec == Init /\ [][Next]_cursor

\* The element a reader of cursor h sees now.
Current(h) ==
  IF cursor[h] /= NoIter /\ cursor[h].ok
  THEN Elems(cursor[h].src)[cursor[h].walked]
  ELSE Null
=============================================================================
