-------------------------- MODULE MCAssuredReports --------------------------
(***************************************************************************)
(* Two books of the same totals; prices shown, hidden in one step or two,  *)
(* or no longer mentioned; graphs with a source named twice.               *)
(***************************************************************************)
EXTENDS AssuredReports

SomeKeys == {<<"", "USDA">>}

Customer(id, amount) == [user |-> id, balances |-> Keyed("", [USDA |-> amount])]

Evenly   == <<Customer("alice", 2), Customer("bob", 2)>>
Unevenly == <<Customer("alice", 1), Customer("bob", 3)>>

Meta(prices) ==
  [Metadata("solvency.liabilities", "venue", Zulu(0), 0) EXCEPT !.prices = prices]

Priced   == Meta(Keyed("", [USDA |-> 1]))
Unpriced == Meta(<< >>)

Told(audience, prices) ==
  [audience |-> audience, fields |-> [root_sums |-> "published", mark_prices |-> prices]]

Silent(audience) == [audience |-> audience, fields |-> [root_sums |-> "published"]]

Plan(inputs, meta, manifests) == [inputs |-> inputs, meta |-> meta, manifests |-> manifests]

SomePlans ==
  {Plan(Evenly, Priced, << >>),
   Plan(Evenly, Priced, <<Told("public", "published"), Silent("regulator")>>),
   Plan(Unevenly, Priced, <<Silent("public")>>),
   Plan(Evenly, Unpriced, <<Told("public", "committed")>>),
   Plan(Unevenly, Unpriced, <<Told("public", "withheld")>>),
   Plan(Evenly, Priced, <<Told("public", "published"), Silent("public")>>)}

SomeTrusted ==
  [publisher |-> "venue", attestors |-> [custodian |-> "third-party", registrar |-> "issuer"]]

Node1  == Source("s", "participant", None)
Feed   == Source("s", "off-ledger", "a vendor's close")
Other  == Source("t", "template", None)
From(ids) == <<Derivation("root_sums", ids), Derivation("mark_prices", <<"t">>)>>

SomeGraphs ==
  {[sources |-> <<Node1, Other>>, derivations |-> From(<<"s">>)],
   [sources |-> <<Feed, Other>>, derivations |-> From(<<"s">>)],
   [sources |-> <<Node1, Feed, Other>>, derivations |-> From(<<"s">>)]}
=============================================================================
