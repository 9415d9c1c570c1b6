------------------------ MODULE MCUpstreamFulfilment ------------------------
\* Instances for TLC: a name and its wildcard, whose challenges share a TXT record.
EXTENDS UpstreamFulfilment

CONSTANTS x, wild, rx

MCRecordOf == [i \in {x, wild} |-> rx]
=============================================================================
