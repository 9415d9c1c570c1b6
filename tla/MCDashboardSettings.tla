------------------------- MODULE MCDashboardSettings -------------------------
\* Instances for TLC: the URL of the server, its host, and a secret.
EXTENDS DashboardSettings, FiniteSets

CONSTANTS url, domain, secret, good, odd, bad

\* "odd" is an URL that does not parse, or an empty host; "bad" is an URL whose port is
\* no number, or a host that is no string.
MCValid == [k \in Keys |-> CASE k = url -> {good, odd, bad} [] k = domain -> {good, odd}
                             [] k = secret -> {good, odd, bad, Mask}]
MCUsable == [k \in Keys |-> IF k = url THEN {good, odd} ELSE Values]
MCDefault == [k \in Keys |-> IF k = url THEN good ELSE odd]
MCHostOf == [v \in Values |-> IF v = odd THEN Unset ELSE good]

Only(k, v) == [Nothing EXCEPT ![k] = v]
MCEnvironments == {Nothing, Only(domain, odd), Only(domain, good), Only(url, good)}
MCHandFiles == {f \in Partial : f[secret] \in {Unset, good}} \cup {Garbage}
MCBodies ==
  {v \in [Keys -> {Unset, good, odd, bad, Mask}] :
     /\ Cardinality({k \in Keys : v[k] # Unset}) <= 1
     /\ v[secret] \in {Unset, Mask, good} /\ v[url] # Mask /\ v[domain] # Mask}
=============================================================================
