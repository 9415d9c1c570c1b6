---------------------------- MODULE MCAcmeOrders ----------------------------
EXTENDS AcmeOrders, TLC

\* Handlers and identifiers are interchangeable: no action or property of the
\* safety runs tells one from another.
Symmetry == Permutations(Handlers) \cup Permutations(Idents)
=============================================================================
