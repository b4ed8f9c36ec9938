------------------------------- MODULE Reports -------------------------------
(***************************************************************************)
(* What src/rpt.cpp reads from the database: t3, the sequence of trades in *)
(* the order in which their rows were added, and t2, the set of all orders.*)
(* ORDER BY only lays out the lines and is left out.                       *)
(***************************************************************************)
EXTENDS Integers, Sequences, FiniteSets, FiniteSetsExt

\* Trader and instrument report: one line for a fill and an order that it names.
trader_rpt(t3, t2) ==
  {line \in (1 .. Len(t3)) \X t2 :
     line[2].t1key \in {t3[line[1]].orderid1, t3[line[1]].orderid2}}

instrument_rpt(t3, t2) == trader_rpt(t3, t2)

\* GROUP BY symbol
RowsOf(t3, symbol) == {i \in 1 .. Len(t3) : t3[i].symbol = symbol}

\* Mutant: the price of the row that was added last.
LastRow(rows, t3) == t3[Max(rows)].price

\* A plain column beside MAX(timestamp) is taken from the row of the maximum.
Close(rows, t3) ==
  t3[CHOOSE i \in rows : \A j \in rows : t3[j].timestamp <= t3[i].timestamp].price

trade_values(t3) ==
  [symbol \in {t3[i].symbol : i \in 1 .. Len(t3)} |->
     LET rows == RowsOf(t3, symbol)
     IN  [min    |-> Min({t3[i].price : i \in rows}),
          max    |-> Max({t3[i].price : i \in rows}),
          close  |-> Close(rows, t3),
          volume |-> MapThenSumSet(LAMBDA i : t3[i].quantity, rows)]]

SideVolume(t2, sides) ==
  LET orders == {o \in t2 : o.side \in sides}
  IN  MapThenSumSet(LAMBDA o : o.quantity, orders)

summary_rpt(t3, t2) ==
  [orders |-> Cardinality(t2), trades |-> Len(t3),
   buy |-> SideVolume(t2, {0}), sell |-> SideVolume(t2, {1}),
   total |-> SideVolume(t2, {0, 1}),
   values |-> trade_values(t3)]
=============================================================================
