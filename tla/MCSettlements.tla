---------------------------- MODULE MCSettlements ----------------------------
(* A receipt, a bank line and two invoices: both fit the first invoice. *)
EXTENDS Settlements, TLC

CONSTANTS r1, l1, i1, i2, h1, h2, b1, b2

MCInvoices == <<i1, i2>>
MCAmount == (r1 :> 3) @@ (l1 :> 2)
MCTotal == (i1 :> 2) @@ (i2 :> 4)
MCRef == {<<r1, i1>>, <<l1, i1>>}
MCAlike == {<<r1, i2>>}

\* Deliveries of Daraja's, a failed payment, and one from elsewhere.
MCCallbacks ==
    [receipt : {r1}, allowed : {TRUE}, signature : {"none"}, code : {0}, complete : {TRUE}]
    \cup
    [receipt : {r1}, allowed : {TRUE}, signature : {"good"}, code : {1}, complete : {FALSE}]
    \cup
    [receipt : {r1}, allowed : {FALSE}, signature : {"good"}, code : {0}, complete : {TRUE}]

Symmetry == Permutations({h1, h2}) \cup Permutations({b1, b2}) \cup Permutations(Users)
=============================================================================
