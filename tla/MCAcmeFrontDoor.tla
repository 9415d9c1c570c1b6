--------------------------- MODULE MCAcmeFrontDoor ---------------------------
EXTENDS AcmeFrontDoor, TLC

\* Nothing tells one key, message or handler from another.
Symmetry == Permutations(Keys) \cup Permutations(Messages) \cup Permutations(Handlers)
=============================================================================
