------------------------------- MODULE Golden -------------------------------
(***************************************************************************)
(* The fixtures of the conformance corpus                                  *)
(* (rust/solvency-report/src/golden.rs), made by the publishers of Reports *)
(* as the repository makes them.  Amounts are small numbers in the same    *)
(* order as the originals; an identifier is its name; seconds are counted  *)
(* from the golden snapshot.                                               *)
(***************************************************************************)
EXTENDS Reports, TLC

Publisher == "golden"           \* signer
Stranger  == "foreign"          \* the key of seed 0x5a
Custodian == "custodian"        \* the key of seed 55

Day == 86400

Owed(amounts)       == Keyed("", amounts)
User(id, balances)  == [user |-> id, balances |-> balances]
Subject(id, maps)   == [subject |-> id, maps |-> maps]

-----------------------------------------------------------------------------
\* leaves
Customers ==
  <<User("alice", Owed([USDA |-> 100])),
    User("bob",   Owed([CBTC |-> 1, USDA |-> 2])),
    User("carol", Owed(<< >>))>>

\* The same, with no figures beside the tree.
BareMeta == Metadata("solvency.liabilities", "golden::publisher", Zulu(0), 42)

\* metadata
Meta ==
  [BareMeta EXCEPT !.prices = Owed([CBTC |-> 50]), !.badDebt = Owed([USDA |-> 3]),
                   !.houseAccounts = 1, !.houseTotals = Owed([USDA |-> 1000])]

For(profile) == [Meta EXCEPT !.profile = profile]
BareFor(profile) == [BareMeta EXCEPT !.profile = profile]

\* A publication as a report and the proof at one place.
Fixture(published, i) == [report |-> published.signed, proof |-> published.proofs[i]]

\* fixture: the second customer's path has two steps, the first to the left.
GoldenBook == Publish(Customers, Meta, Publisher)
Golden1    == Fixture(GoldenBook, 2)

-----------------------------------------------------------------------------
\* manifest
PublicManifest ==
  [audience |-> "public",
   fields   |-> [f \in KnownFields |-> CASE f \in ResidentFields -> "published"
                                         [] f = "customer_balances" -> "committed"
                                         [] f = "customer_identities" -> "withheld"]]

\* fixture_v2
Golden2 == Fixture(Publish(Customers, [Meta EXCEPT !.manifest = PublicManifest], Publisher), 2)

\* manifest_edge_fixtures: prices promised and not there; a manifest on v1; none on v2.
PublishedButAbsent ==
  Fixture(Publish(Customers, [Meta EXCEPT !.prices = Owed(<< >>), !.manifest = PublicManifest],
                  Publisher), 2)

V1WithManifest    == [Golden1.report EXCEPT !.report.meta.manifest = PublicManifest]
V2WithoutManifest == [Golden2.report EXCEPT !.report.meta.manifest = None]

-----------------------------------------------------------------------------
\* assurance_fixture: a custodian vouches for the totals of the golden report.
CustodianAttests == Attested(Golden1.report, "root_sums", "third-party", Custodian)

\* provenance_fixture: totals from the ledger, prices from a vendor.
GoldenSources ==
  <<Source("participant-primary", "participant", None),
    Source("holding-template", "template", None),
    Source("price-vendor", "off-ledger", "vendor close")>>

GoldenDerivations ==
  <<Derivation("root_sums", <<"participant-primary", "holding-template">>),
    Derivation("mark_prices", <<"price-vendor">>)>>

\* sign_provenance
GraphOf(sources, derivations) ==
  SignedGraph(Provenance(Golden1.report, sources, derivations), Publisher)

GoldenGraph == GraphOf(GoldenSources, GoldenDerivations)

-----------------------------------------------------------------------------
\* repo_fixture
Leg(id, collateral, exposure) ==
  Subject(id, Keyed("collateral", [USDA |-> collateral]) @@ Keyed("exposure", [USDA |-> exposure]))

Repo ==
  Fixture(PublishV2(<<Leg("leg-1", 110, 100), Leg("leg-2", 55, 50), Leg("leg-3", 22, 20)>>,
                    BareFor("collateral.repo"), Publisher), 1)

\* coverage_fixture, shortfall_fixture: custody of both assets, and of one only.
CustodyPosition(id, amounts) == Subject(id, Keyed("held", amounts))

Paired(custody, liabilities) ==
  [custody |-> custody, liabilities |-> liabilities,
   statement |-> CoverageStatement(custody, liabilities)]

Covered ==
  Paired(PublishV2(<<CustodyPosition("custody-1", [USDA |-> 120]),
                     CustodyPosition("custody-2", [CBTC |-> 2])>>,
                   BareFor("coverage.custody"), Publisher).signed,
         Golden1.report)

Shortfall ==
  Paired(PublishV2(<<CustodyPosition("custody-1", [USDA |-> 120])>>,
                   For("coverage.custody"), Publisher).signed,
         Golden1.report)

\* stale_pairing_fixture: 2026-08-09 beside 2026-05-01.
AsOf(profile, day, offset) ==
  [For(profile) EXCEPT !.time = Zulu(day * Day), !.offset = offset]

StalePairing ==
  Paired(PublishV2(<<CustodyPosition("position-0", [USDA |-> 500])>>,
                   AsOf("coverage.custody", 220, 900), Publisher).signed,
         Publish(<<User("user-0", Owed([USDA |-> 1]))>>,
                 AsOf("solvency.liabilities", 120, 100), Publisher).signed)

-----------------------------------------------------------------------------
\* anchor_fixture
Genesis == AnchorOf(Golden1.report, None)

\* group_fixture, chain_fixture, entity_sums_fixture: the golden book as one
\* entity, with these totals, and a second entity of fixed values.
GroupOf(sums) ==
  PublishGroupReport(<<[EntityOf("entity-a", Golden1.report) EXCEPT !.sums = sums],
                 [id |-> "entity-b", root |-> Garbled, sums |-> Owed([USDA |-> 42])]>>,
               Meta, Publisher)

GoldenGroup    == GroupOf(Golden1.report.report.sums)
DisagreesGroup == GroupOf(Owed([CBTC |-> 1, USDA |-> 101]))

\* foreign_signer_fixture
Foreign == Fixture(Publish(Customers, Meta, Stranger), 2)

\* understated_fixture: half the total, signed, with the proof bound to it.
Lying(golden, lie) ==
  [report |-> Signing(lie, Publisher), proof |-> [golden.proof EXCEPT !.digest = Digest(lie)]]

Understated == Lying(Golden1, [Golden1.report.report EXCEPT !.sums[<<"", "USDA">>] = 51])

\* astral_fixture: asset names, in whatever order they sort.
Astral ==
  LET both == Owed([FF01 |-> 1, U10000 |-> 2])
  IN Fixture(Publish(<<User("astral-a", both), User("astral-b", both)>>, Meta, Publisher), 1)

-----------------------------------------------------------------------------
\* eligibility_fixture: every holder complies, and all but one.
Holder(id, complies) == Subject(id, Keyed("attested", [accredited |-> IF complies THEN One ELSE 0]))

Eligible(third) ==
  Fixture(PublishV2(<<Holder("holder-1", TRUE), Holder("holder-2", TRUE), Holder("holder-3", third)>>,
                    For("eligibility.holder"), Publisher), 1)

\* fund_fixture: units and entitlement, and units alone.
FundBook(maps) ==
  LET Of(id, units, entitlement) ==
        Subject(id, [key \in {k \in {<<"units", "CLASS_A">>, <<"entitlement", "USDA">>} : k[1] \in maps} |->
                       IF key[1] = "units" THEN units ELSE entitlement])
  IN Fixture(PublishV2(<<Of("holder-a", 10, 25), Of("holder-b", 4, 10)>>,
                       For("fund.nav"), Publisher), 1)

\* dvp_fixture: a complete trade, and one never paid for.
Trades ==
  PublishV2(<<Subject("trade-1", Keyed("delivered", [BOND |-> 100]) @@ Keyed("paid", [USDA |-> 99])),
              Subject("trade-2", Keyed("delivered", [BOND |-> 200]))>>,
            For("settlement.dvp"), Publisher)

-----------------------------------------------------------------------------
\* pack_fixture: two files and their signed index.  Contents are their names
\* and, if altered, a newline.
Content(name, newlines) == [of |-> name, newlines |-> newlines]

Members == [name \in {<<"report.json">>, <<"proof.json">>} |-> Content(name, 0)]

SignedPack(pack) == [pack |-> pack, signature |-> Sign(Publisher, pack)]

GoldenPack ==
  SignedPack([version |-> "pack-v1", digest |-> Digest(Golden1.report.report), entries |-> Members])
=============================================================================
