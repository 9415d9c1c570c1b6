------------------------ MODULE MCCertificateRecords ------------------------
\* Instances for TLC: certificates for a name, alone and after a wildcard that strips to
\* it, of a managed host, of ACME clients and of the server itself.
EXTENDS CertificateRecords

CONSTANTS host, name, wildcard

MCBare == [i \in {name, wildcard} |-> name]
MCOneName == {<<name>>}
MCNameLists == {<<name>>, <<wildcard, name>>}
=============================================================================
