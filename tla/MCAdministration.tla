------------------------- MODULE MCAdministration -------------------------
EXTENDS Administration, TLC
CONSTANTS db, k1, k2, p1, p2, r1, r2
OneName == {db}
TwoKeys == {k1, k2}
TwoProfiles == {p1, p2}
TwoRequests == {r1, r2}
Alike == Permutations(TwoKeys) \cup Permutations(TwoRequests)

SomeAdapters == {"local", "kubernetes", "unknown"}

\* A configuration that both known adapters accept, one that only local does,
\* and one that neither does.
Plain ==
  [environment |-> TRUE, literal |-> FALSE, embedded |-> FALSE, url |-> FALSE, pipeline |-> TRUE,
   shaped |-> TRUE, namespace |-> "default", namespaces |-> {Nothing}, prefix |-> "sdpstudio-",
   prefixes |-> {Nothing}, account |-> "", accounts |-> {Nothing}, template |-> TRUE,
   references |-> {}, allowed |-> {Nothing}]
Cloud == [Plain EXCEPT !.namespaces = {"team"}]
Literal == [Plain EXCEPT !.literal = TRUE]
SomeConfigs == {Plain, Cloud, Literal}
NoPlugins == {}
=============================================================================
