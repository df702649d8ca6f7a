------------------------------ MODULE MCTables ------------------------------
EXTENDS Tables

\* Of three ranks two are servers: the first two, in the order they registered
\* in, and the last and the first.
Swapped == [i \in 0..1 |-> 1 - i]
Apart   == [i \in 0..1 |-> 2 * (1 - i)]

\* Rows on both servers, in no order, and one row, the second of its server.
Some == <<2, 1, 0>>
Two == <<2, 0>>
One == <<2>>

KeysOf(k, type) ==
  CASE k = "array" -> {WholeTable}
    [] k = "kv" -> {Some, One}
    [] k \in LogReg -> {Some, One} \cup (IF type = "Get" THEN {WholeTable} ELSE {})
    [] k \in Sparse -> {WholeTable} \cup (IF type = "Add" THEN {One} ELSE {})
    [] OTHER -> {WholeTable, Two}

\* A delta for every row that is named; an Add of a whole sparse table also
\* with a row of zeros.
RowsOf(k, keys) ==
  {Named(keys)} \cup (IF k \in Sparse /\ keys = WholeTable THEN {{1}} ELSE {})

Gets == UNION {{<<k, "Get", keys>> : keys \in KeysOf(k, "Get")} : k \in Kinds}
Adds == UNION {UNION {{<<k, "Add", keys, rows>> : rows \in RowsOf(k, keys)} :
                        keys \in KeysOf(k, "Add")} : k \in Kinds}

CareCalls == Gets \cup Adds
RowCalls  == CareCalls \cup {<<k, "Get", One>> : k \in Sparse}

Requests == [w \in Worker |-> IF w = 0 THEN 2 ELSE 1]
=============================================================================
