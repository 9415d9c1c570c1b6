-------------------------- MODULE MCDashboardUsers --------------------------
\* Instances for TLC: interchangeable people and interchangeable visitors.
EXTENDS DashboardUsers, TLC

Symmetry == Permutations(People) \cup Permutations(Visitors)
=============================================================================
