------------------------------ MODULE Database -------------------------------
(***************************************************************************)
(* Tables t1 and t2 of OrderBook.db: add_row and delete_row of src/db.cpp  *)
(* under the schema of src/database.sh and the trigger of                  *)
(* src/triggers.sql.  A database is a record: t1 is the sequence of its    *)
(* rows in rowid order, which is the order SELECT * returns them in, and   *)
(* t2 a set of rows.                                                       *)
(***************************************************************************)
EXTENDS OrderBook

DB == [t1 : Seq(Order), t2 : SUBSET Order]

EmptyDB == [t1 |-> << >>, t2 |-> {}]

InT1(db, id) == Holds(db.t1, id)
InT2(db, id) == \E o \in db.t2 : o.order_id = id

\* Mutant: without the trigger.
AddRowOnly(db, o) ==
  IF InT1(db, o.order_id) THEN db ELSE [db EXCEPT !.t1 = Append(@, o)]

\* INSERT INTO t1: the trigger first copies the row into t2.  The order id is
\* the primary key of both tables, and either conflict aborts the whole
\* statement, the trigger's insertion included.
AddRow(db, o) ==
  IF InT1(db, o.order_id) \/ InT2(db, o.order_id) THEN db
  ELSE [t1 |-> Append(db.t1, o), t2 |-> db.t2 \cup {o}]

\* DELETE FROM t1 WHERE t1key = id
DeleteRow(db, id) == [db EXCEPT !.t1 = RemoveOrder(@, id)]
=============================================================================
