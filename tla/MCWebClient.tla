------------------------------ MODULE MCWebClient ------------------------------
(***************************************************************************)
(* A small instance of every section of the web client.                    *)
(***************************************************************************)
EXTENDS WebClient

CONSTANT firstRow

Card(c, v) == [id |-> c, visible |-> v]
MCLayout == <<Card("c2", TRUE), Card("old", TRUE), Card("c2", FALSE), Card("c1", FALSE)>>

MCMatches == [f \in {"all", "some"} |-> IF f = "all" THEN {1, 2} ELSE {2}]

MCKindOf == [r \in {1, 3} |-> IF r = 3 THEN "split" ELSE "outcome"]

MCRowsOf == [f1 |-> <<"x", "y">>, f2 |-> <<"y", "x">>]

MCSaved == {[asset |-> "a", type |-> "sell", date |-> 1, manual |-> m] : m \in BOOLEAN}

MCMembersOf == [g1 |-> {"ben", "me"}]
MCFirstOf == [g1 |-> "ben"]
Shared(x, p) ==
  [id |-> x, group |-> None, parts |-> [q \in {"me", "ben", "cat"} |-> IF q = "ben" THEN 0 ELSE 1],
   payer |-> p, extras |-> TRUE]
MCExpenseOf == [x1 |-> Shared("x1", "me"), x2 |-> Shared("x2", "cat")]

Between(p, a, o) == [with |-> p, account |-> a, open |-> o]
MCBooks ==
  {{Between("ben", "a1", TRUE), Between("ben", "a2", FALSE), Between("cat", "a2", FALSE)},
   {Between("ben", "a1", TRUE), Between("ben", "a2", TRUE), Between("cat", None, TRUE)}}

MCPrefCatalog == <<"c1", "c2">>
MCPrefLayouts0 == {MCLayout}
MCFormRows == {firstRow}
MCCachePages == {"/dashboard", "/accounts"}
=============================================================================
