--------------------------- MODULE MCProjectSetup ---------------------------
(* Small instances of ProjectSetup for TLC.                                *)
EXTENDS SetupRefinement

ThreeAPIs == <<"dns", "iam", "compute">>

SomeClaim == [ns |-> <<"ns">>, name |-> <<"claim">>]

\* A zone's region is the link to it; the last part of a name is a digit.
Zone(name, region) == [name |-> name, region |-> <<"regions/">> \o region]

Account == <<"account">>
OldAccount == <<"old account">>

ConfigMap(account) ==
  [found |-> TRUE, billingAccount |-> account, parentFolderID |-> <<"folder">>]

\* No config map, one without an account, and two that are complete.
SomeConfigMaps ==
  { [ConfigMap(<<>>) EXCEPT !.found = FALSE], ConfigMap(<<>>),
    ConfigMap(Account), ConfigMap(Append(Account, "newline")) }

UsEast1 == <<"us-east", "1">>
UsZones == {Zone("us-east1-b", UsEast1), Zone("us-west1-a", <<"us-west", "1">>)}

EuropeWest1 == <<"europe-west", "1">>
EuropeZones ==
  {Zone("europe-west1-b", EuropeWest1), Zone("europe-west10-a", <<"europe-west", "1", "0">>)}
=============================================================================
