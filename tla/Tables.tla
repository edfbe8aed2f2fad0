------------------------------- MODULE Tables -------------------------------
(***************************************************************************)
(* A SQLite table as the registers of this project see it: a function from *)
(* the ids on file to rows.  No table of the schema is AUTOINCREMENT, so   *)
(* the id of a new row is one past the largest on file, and the id of a    *)
(* deleted row can come back.                                              *)
(***************************************************************************)
EXTENDS Integers

With(t, id, row) == [i \in DOMAIN t \cup {id} |-> IF i = id THEN row ELSE t[i]]
Without(t, ids)  == [i \in DOMAIN t \ ids |-> t[i]]
NoRows           == [i \in {} |-> {}]

\* The id SQLite gives the next row.
NextId(t) == IF DOMAIN t = {} THEN 1 ELSE 1 + CHOOSE m \in DOMAIN t : \A i \in DOMAIN t : i <= m
=============================================================================
