-------------------------- MODULE ServiceKeysProofs --------------------------
(***************************************************************************)
(* The service's certificate and the upstream account's key, for any       *)
(* domains, secrets, threads, failures and crashes.                        *)
(***************************************************************************)
EXTENDS ServiceKeys, FiniteSetTheorems, SequenceTheorems, TLAPS

\* An issue has room for its certificate.
Issuing ==
  /\ pc \in {"ordering", "issuing"} => Len(certs) < MaxCerts
  /\ changes \in Nat

\* The account's keys are ones that were made.
Minted ==
  /\ memory # None => memory \in 1 .. minted
  /\ keys[Account] # None => keys[Account].key \in 1 .. minted

Typed == TypeOK /\ Issuing /\ Minted

\* A key of the service is as old as its certificate, of its domain.
KeysIssued == \A d \in Domains : keys[d] # None => keys[d].key \in DOMAIN certs

\* Whoever holds the newest key: the certificate on its way to the file,
KeyIsNewest(c) ==
  /\ keys[certs[c].domain] # None /\ keys[certs[c].domain].key = c
  /\ \A d \in Domains : keys[d] # None => keys[d].key <= c
InHand ==
  pc \in {"opening", "writing", "recording"} =>
    certs[job.cert].domain = job.domain /\ KeyIsNewest(job.cert)

\* then the file.
InFile ==
  /\ pc = "recording" => file = job.cert
  /\ file = Torn => pc = "writing" \/ cut
  /\ pc \in {"idle", "ordering", "issuing"} /\ ~cut /\ Readable => file \in rows /\ KeyIsNewest(file)

\* Until the domain has changed twice its key, if there is one, is the newest.
DomainIsNewest ==
  /\ changes = 0 =>
       /\ \A d \in Domains : keys[d] # None => d = domain
       /\ pc # "idle" => job.domain = domain
  /\ changes < 2 /\ domain # None /\ keys[domain] # None =>
       /\ pc # "idle" => job.domain = domain
       /\ \A d \in Domains : keys[d] # None => keys[d].key <= keys[domain].key

\* Keys are under the secret, as long as it stays.
Unlocked == ~moved => \A d \in Domains : keys[d] # None => keys[d].under = secret

\* Ages of certificates change, their domains do not.
LEMMA Aged ==
  ASSUME Typed, Readable
  PROVE  LET new == [certs EXCEPT ![file].old = TRUE]
         IN  /\ new \in Seq(Cert) /\ Len(new) = Len(certs) /\ DOMAIN new = DOMAIN certs
             /\ \A c \in DOMAIN certs : new[c].domain = certs[c].domain
<1> DEFINE new == [certs EXCEPT ![file].old = TRUE]
<1>1. certs \in Seq(Cert) /\ file \in DOMAIN certs /\ certs[file] \in Cert
  BY DEF Typed, TypeOK, Readable
<1>2. [certs[file] EXCEPT !.old = TRUE] \in Cert
  BY <1>1 DEF Cert
<1>3. new = [certs EXCEPT ![file] = [certs[file] EXCEPT !.old = TRUE]]
  OBVIOUS
<1>4. new \in Seq(Cert) /\ Len(new) = Len(certs) /\ DOMAIN new = DOMAIN certs
  BY <1>1, <1>2, <1>3, ExceptSeq
<1>5. \A c \in DOMAIN certs : new[c].domain = certs[c].domain
  BY <1>1 DEF Cert
<1> QED
  BY <1>4, <1>5

LEMMA IssuedForDomain ==
  ASSUME Typed, NEW c \in DOMAIN certs
  PROVE  certs[c].domain \in Domains
<1>1. certs[c] \in Cert
  BY DEF Typed, TypeOK
<1> QED
  BY <1>1 DEF Cert

\* A further certificate.
LEMMA Another ==
  ASSUME Typed, NEW c \in Cert
  PROVE  LET new == Append(certs, c)
         IN  /\ new \in Seq(Cert) /\ Len(new) = Len(certs) + 1
             /\ DOMAIN new = DOMAIN certs \cup {Len(certs) + 1}
             /\ new[Len(certs) + 1] = c
             /\ \A b \in DOMAIN certs : new[b] = certs[b]
             /\ Len(certs) + 1 \notin DOMAIN certs
  BY AppendProperties DEF Typed, TypeOK
-----------------------------------------------------------------------------
LEMMA TypeInit == Init => Typed
<1> SUFFICES ASSUME Init PROVE Typed
  OBVIOUS
<1>1. FirstDomain \in Domains /\ FirstSecret \in Secrets
  BY KeysAssumption DEF FirstDomain, FirstSecret
<1>2. certs \in Seq(Cert) /\ Len(certs) = 0 /\ DOMAIN certs = {}
  BY DEF Init
<1> QED
  BY <1>1, <1>2, KeysAssumption DEF Init, Typed, TypeOK, Issuing, Minted, Names, Orderers, PC

\* What somebody's order does to the service: its own goes on, or is given up.
LEMMA OrderMoves ==
  ASSUME Typed, NEW t \in Orderers, Order(t)
  PROVE  /\ \/ UNCHANGED <<pc, job>>
            \/ pc = "ordering" /\ pc' = "issuing" /\ job' = job
            \/ pc = "ordering" /\ pc' = "idle" /\ job' = None
         /\ UNCHANGED <<settings, file, certs, rows, cut, server, ghosts, faults>>
         /\ \A d \in Domains : keys'[d] = keys[d]
<1>1. t = Self /\ ~LookUpAccountKey(t) => pc = "ordering"
  BY DEF Order, UseAccountKey, StoreAccountKey, AccountKeyRefused, Orders, Typed, TypeOK
<1>2. UNCHANGED keys \/ Put(Account, minted + 1)
  BY DEF Order, UseAccountKey, LookUpAccountKey, StoreAccountKey, AccountKeyRefused
<1>3. \A d \in Domains : keys'[d] = keys[d]
  BY <1>2, KeysAssumption DEF Put, Typed, TypeOK, Names
<1>4. CASE LookUpAccountKey(t)
  BY <1>3, <1>4 DEF LookUpAccountKey, service
<1>5. CASE ~LookUpAccountKey(t)
  BY <1>1, <1>3, <1>5 DEF Order, UseAccountKey, StoreAccountKey, AccountKeyRefused, GoesOn,
     GivesUp, Goto
<1> QED
  BY <1>4, <1>5

\* And to the account's key.
LEMMA OrderKeys ==
  ASSUME Typed, NEW t \in Orderers, Order(t)
  PROVE  /\ memory' \in Nat \cup {None} /\ minted' \in Nat /\ used' \subseteq 1 .. minted'
         /\ keys' \in [Names -> Key \cup {None}]
         /\ memory' # None => memory' \in 1 .. minted'
         /\ keys'[Account] # None => keys'[Account].key \in 1 .. minted'
         /\ apc' \in [Orderers -> {"idle", "minting", "keeping"}]
         /\ apc'[Self] # "idle" => pc' = "ordering"
<1> USE KeysAssumption DEF Typed, Minted, TypeOK
<1>1. Self \in Orderers /\ Account \in Names
  BY DEF Orderers, Names
<1>2. CASE UseAccountKey(t)
  <2>1. AccountKey \in 1 .. minted
    BY <1>2 DEF UseAccountKey, AccountKey
  <2>2. apc'[Self] = "idle" \/ UNCHANGED <<pc, job>>
    BY <1>2 DEF UseAccountKey, GoesOn, Orders
  <2> QED
    BY <1>2, <2>1, <2>2 DEF UseAccountKey
<1>3. CASE LookUpAccountKey(t)
  BY <1>1, <1>3 DEF LookUpAccountKey, Orders, service
<1>4. CASE StoreAccountKey(t)
  <2>1. minted + 1 \in Nat \ {0} /\ 1 .. minted \subseteq 1 .. (minted + 1)
    OBVIOUS
  <2>2. keys' \in [Names -> Key \cup {None}]
    BY <1>4, <2>1 DEF StoreAccountKey, Put, Key
  <2>3. /\ memory' \in Nat \cup {None} /\ memory' # None => memory' \in 1 .. (minted + 1)
        /\ keys'[Account] # None => keys'[Account].key \in 1 .. (minted + 1)
    BY <1>1, <1>4, <2>1 DEF StoreAccountKey, Put
  <2>4. apc' \in [Orderers -> {"idle", "minting", "keeping"}] /\ apc'[t] = "idle"
        /\ t # Self => apc'[Self] = apc[Self] /\ pc' = pc
    BY <1>1, <1>4 DEF StoreAccountKey, GoesOn
  <2> QED
    BY <1>4, <2>1, <2>2, <2>3, <2>4 DEF StoreAccountKey
<1>5. CASE AccountKeyRefused(t)
  <2>1. apc' \in [Orderers -> {"idle", "minting", "keeping"}] /\ apc'[t] = "idle"
        /\ t # Self => apc'[Self] = apc[Self] /\ pc' = pc
    BY <1>1, <1>5 DEF AccountKeyRefused, GivesUp
  <2> QED
    BY <1>5, <2>1 DEF AccountKeyRefused
<1> QED
  BY <1>2, <1>3, <1>4, <1>5 DEF Order

LEMMA TypeOrder ==
  ASSUME Typed, NEW t \in Orderers, Order(t)
  PROVE  Typed'
  BY OrderMoves, OrderKeys, KeysAssumption
     DEF Typed, Issuing, Minted, TypeOK, PC, settings, ghosts

LEMMA TypeStep == Typed /\ [Next]_vars => Typed'
<1> SUFFICES ASSUME Typed, [Next]_vars PROVE Typed'
  OBVIOUS
<1> USE KeysAssumption DEF Typed, Issuing, Minted
<1> USE DEF settings, service, account, ghosts
<1>1. CASE Check
  BY <1>1 DEF Check, TypeOK, Goto, EnsuresNow, Due, PC
<1>2. CASE Issue
  <2> DEFINE c == Len(certs) + 1
             new == [domain |-> job.domain, old |-> FALSE]
  <2>1. job \in [domain: Domains, cert: Nat] /\ new \in Cert /\ Len(certs) \in Nat
        /\ secret \in Secrets
    BY <1>2 DEF Issue, TypeOK, Cert
  <2>6. apc[Self] = "idle" /\ Self \in Orderers
    BY <1>2 DEF Issue, TypeOK, Orderers
  <2>2. certs' \in Seq(Cert) /\ Len(certs') = c /\ DOMAIN certs' = DOMAIN certs \cup {c}
    BY <1>2, <2>1, Another DEF Issue
  <2>3. keys' \in [Names -> Key \cup {None}]
    BY <1>2, <2>1 DEF Issue, Put, TypeOK, Key, Names
  <2>4. job' \in [domain: Domains, cert: Nat] /\ job'.cert = c
    BY <1>2, <2>1 DEF Issue, Goto
  <2>5. keys'[Account] = keys[Account]
    BY <1>2, <2>1 DEF Issue, Put, TypeOK, Names
  <2> HIDE DEF c
  <2> QED
    BY <1>2, <2>2, <2>3, <2>4, <2>5, <2>6 DEF Issue, TypeOK, Goto, PC, c
<1>3. CASE OpenFile
  BY <1>3 DEF OpenFile, TypeOK, Goto, PC
<1>4. CASE WriteFile
  BY <1>4 DEF WriteFile, TypeOK, Goto, PC
<1>5. CASE RecordRow
  BY <1>5 DEF RecordRow, TypeOK, Goto, PC
<1>6. CASE EnsureFails
  BY <1>6 DEF EnsureFails, CutShort, TypeOK, Goto, PC, Orderers
<1>7. CASE Start
  BY <1>7 DEF Start, TypeOK
<1>8. CASE NothingDue
  BY <1>8 DEF NothingDue, TypeOK
<1>9. CASE Serve
  BY <1>9 DEF Serve, TypeOK
<1>10. CASE Stop
  BY <1>10 DEF Stop, Forget, TypeOK, Orderers
<1>11. CASE Crash
  BY <1>11 DEF Crash, CutShort, Goto, Forget, TypeOK, PC, Orderers
<1>12. ASSUME NEW t \in Orderers, Order(t) PROVE Typed'
  BY <1>12, TypeOrder
<1>13. CASE IssueRefused
  BY <1>13 DEF IssueRefused, TypeOK, Goto, PC
<1>14. Self \in Orderers /\ Threads \subseteq Orderers
  BY DEF Orderers
<1>15. ASSUME NEW d \in Domains \cup {None}, ChangeDomain(d) PROVE Typed'
  BY <1>15 DEF ChangeDomain, TypeOK
<1>16. ASSUME NEW s \in Secrets \cup {None}, ChangeSecret(s) PROVE Typed'
  BY <1>16 DEF ChangeSecret, TypeOK
<1>17. CASE Age
  BY <1>17, Aged DEF Age, TypeOK
<1>18. CASE UNCHANGED vars
  BY <1>18 DEF vars, TypeOK
<1> QED
  BY <1>1, <1>2, <1>3, <1>4, <1>5, <1>6, <1>7, <1>8, <1>9, <1>10, <1>11, <1>12, <1>13,
     <1>14, <1>15, <1>16, <1>17, <1>18 DEF Next, Ensure
-----------------------------------------------------------------------------
Pairs == KeysIssued /\ InHand /\ InFile /\ DomainIsNewest /\ Unlocked

\* Steps that touch neither the service's keys nor its certificate.
LEMMA Elsewhere ==
  ASSUME Typed, Pairs,
         \A d \in Domains : keys'[d] = keys[d],
         DOMAIN certs' = DOMAIN certs,
         \A c \in DOMAIN certs : certs'[c].domain = certs[c].domain,
         UNCHANGED <<file, rows, pc, job, cut, domain, secret, changes>>,
         moved => moved'
  PROVE  Pairs'
<1>1. \A c \in DOMAIN certs : certs[c].domain \in Domains
  BY IssuedForDomain
<1>2. \A c \in DOMAIN certs : KeyIsNewest(c) => KeyIsNewest(c)'
  BY <1>1 DEF KeyIsNewest
<1>3. KeysIssued'
  BY DEF Pairs, KeysIssued
<1>4. InHand'
  BY <1>2 DEF Pairs, InHand, Typed, TypeOK
<1>5. InFile'
  BY <1>2 DEF Pairs, InFile, Typed, TypeOK, Readable
<1>6. DomainIsNewest'
  BY DEF Pairs, DomainIsNewest, Typed, TypeOK
<1>7. Unlocked'
  BY DEF Pairs, Unlocked
<1> QED
  BY <1>3, <1>4, <1>5, <1>6, <1>7 DEF Pairs

LEMMA PairsOrder ==
  ASSUME Typed, Pairs, NEW t \in Orderers, Order(t)
  PROVE  Pairs'
<1>1. CASE UNCHANGED <<pc, job>>
  BY <1>1, OrderMoves, Elsewhere DEF settings, ghosts
<1>2. CASE ~UNCHANGED <<pc, job>>
  <2>1. /\ pc = "ordering"
        /\ \/ pc' = "issuing" /\ job' = job
           \/ pc' = "idle" /\ job' = None
    BY <1>2, OrderMoves
  <2>2. /\ UNCHANGED <<domain, secret, file, certs, rows, cut, moved, changes>>
        /\ \A d \in Domains : keys'[d] = keys[d]
    BY OrderMoves DEF settings, ghosts
  <2>3. \A c \in DOMAIN certs : KeyIsNewest(c) => KeyIsNewest(c)'
    BY <2>2, IssuedForDomain DEF KeyIsNewest
  <2>4. KeysIssued' /\ Unlocked'
    BY <2>2 DEF Pairs, KeysIssued, Unlocked
  <2>5. InHand' /\ InFile'
    BY <2>1, <2>2, <2>3 DEF Pairs, InHand, InFile, Typed, TypeOK, Readable
  <2>6. DomainIsNewest'
    BY <2>1, <2>2 DEF Pairs, DomainIsNewest, Typed, TypeOK
  <2> QED
    BY <2>4, <2>5, <2>6 DEF Pairs
<1> QED
  BY <1>1, <1>2

LEMMA PairsInit == Init => Pairs
  BY KeysAssumption
     DEF Init, Pairs, KeysIssued, InHand, InFile, DomainIsNewest, Unlocked, Readable, Names,
         Torn, PC

\* A new certificate brings the newest key, for the domain the issue began with.
LEMMA PairsIssue == Typed /\ Pairs /\ Issue => Pairs'
<1> SUFFICES ASSUME Typed, Pairs, Issue PROVE Pairs'
  OBVIOUS
<1> DEFINE c == Len(certs) + 1
           k == [key |-> c, under |-> secret]
<1>1. /\ job \in [domain: Domains, cert: Nat] /\ pc = "issuing" /\ Len(certs) \in Nat
      /\ secret \in Secrets
  BY DEF Issue, Typed, TypeOK
<1>2. /\ DOMAIN certs' = DOMAIN certs \cup {c} /\ c \notin DOMAIN certs
      /\ certs'[c].domain = job.domain
      /\ \A b \in DOMAIN certs : certs'[b] = certs[b] /\ b < c
  BY <1>1, Another DEF Issue, Cert, Typed, TypeOK
<1>3. /\ keys'[job.domain] = k
      /\ \A d \in Domains : d # job.domain => keys'[d] = keys[d]
  BY <1>1 DEF Issue, Put, Typed, TypeOK, Names
<1>4. pc' = "opening" /\ job'.cert = c /\ job'.domain = job.domain
      /\ UNCHANGED <<domain, secret, file, rows, cut, changes, moved>>
  BY <1>1 DEF Issue, Goto, settings, ghosts
<1>5. k # None /\ k.key = c /\ k.under = secret
  BY <1>1, KeysAssumption DEF Key, Typed, TypeOK, Issuing
<1> HIDE DEF c, k
<1>6. \A d \in Domains : keys'[d] # None => keys'[d].key <= c
  BY <1>2, <1>3, <1>5, <1>1 DEF Pairs, KeysIssued, c
<1>7. KeysIssued'
  BY <1>2, <1>3, <1>5 DEF Pairs, KeysIssued
<1>8. InHand'
  BY <1>1, <1>2, <1>3, <1>4, <1>5, <1>6 DEF InHand, KeyIsNewest
<1>9. InFile'
  BY <1>1, <1>4 DEF Pairs, InFile
<1>10. DomainIsNewest'
  <2>1. changes = 0 => job.domain = domain
    BY <1>1 DEF Pairs, DomainIsNewest
  <2>2. changes = 0 => \A d \in Domains : keys'[d] # None => d = domain
    BY <1>1, <1>3, <2>1 DEF Pairs, DomainIsNewest
  <2>3. changes < 2 /\ domain # None /\ domain # job.domain => keys[domain] = None
    BY <1>1 DEF Pairs, DomainIsNewest
  <2>4. domain \in Domains \cup {None}
    BY DEF Typed, TypeOK
  <2>5. domain # None /\ domain # job.domain => keys'[domain] = keys[domain]
    BY <1>3, <2>4
  <2>6. changes < 2 /\ domain # None /\ keys'[domain] # None => domain = job.domain
    BY <2>3, <2>5
  <2> QED
    BY <1>3, <1>4, <1>5, <1>6, <2>1, <2>2, <2>6 DEF DomainIsNewest
<1>11. Unlocked'
  BY <1>3, <1>4, <1>5 DEF Pairs, Unlocked
<1> QED
  BY <1>7, <1>8, <1>9, <1>10, <1>11 DEF Pairs

LEMMA PairsStep == Typed /\ Pairs /\ [Next]_vars => Pairs'
<1> SUFFICES ASSUME Typed, Pairs, [Next]_vars PROVE Pairs'
  OBVIOUS
<1> USE DEF settings, service, account, ghosts
<1>1. CASE Check
  BY <1>1 DEF Check, Goto, Due, EnsuresNow, Pairs, KeysIssued, InHand, InFile, DomainIsNewest,
     Unlocked, KeyIsNewest, Readable, Typed, TypeOK, Issuing
<1>2. CASE Issue
  BY <1>2, PairsIssue
<1>3. CASE OpenFile
  BY <1>3 DEF OpenFile, Goto, Pairs, KeysIssued, InHand, InFile, DomainIsNewest, Unlocked,
     KeyIsNewest
<1>4. CASE WriteFile
  BY <1>4, KeysAssumption DEF WriteFile, Goto, Pairs, KeysIssued, InHand, InFile,
     DomainIsNewest, Unlocked, KeyIsNewest, Typed, TypeOK, Torn
<1>5. CASE RecordRow
  BY <1>5 DEF RecordRow, Goto, Pairs, KeysIssued, InHand, InFile, DomainIsNewest, Unlocked,
     KeyIsNewest, Typed, TypeOK, Torn
<1>6. ASSUME CutShort, UNCHANGED <<settings, keys, file, certs, rows, changes>>,
             moved => moved'
      PROVE  Pairs'
  BY <1>6 DEF CutShort, Goto, Pairs, KeysIssued, InHand, InFile, DomainIsNewest, Unlocked,
     KeyIsNewest, Readable, Typed, TypeOK, PC
<1>7. CASE EnsureFails
  BY <1>6, <1>7 DEF EnsureFails
<1>8. CASE Crash
  BY <1>6, <1>8 DEF Crash, Forget
<1>9. CASE Stop
  BY <1>9, Elsewhere DEF Stop, Forget
<1>10. CASE Start \/ NothingDue \/ Serve
  BY <1>10, Elsewhere DEF Start, NothingDue, Serve
<1>11. ASSUME NEW t \in Orderers, Order(t) PROVE Pairs'
  BY <1>11, PairsOrder
<1>12. CASE IssueRefused
  BY <1>12 DEF IssueRefused, Goto, Pairs, KeysIssued, InHand, InFile, DomainIsNewest, Unlocked,
     KeyIsNewest, Readable, Typed, TypeOK, PC
<1>17. Self \in Orderers /\ Threads \subseteq Orderers
  BY DEF Orderers
<1>13. ASSUME NEW d \in Domains \cup {None}, ChangeDomain(d) PROVE Pairs'
  BY <1>13 DEF ChangeDomain, Pairs, KeysIssued, InHand, InFile, DomainIsNewest, Unlocked,
     KeyIsNewest, Readable, Typed, Issuing
<1>14. ASSUME NEW s \in Secrets \cup {None}, ChangeSecret(s) PROVE Pairs'
  BY <1>14 DEF ChangeSecret, Pairs, KeysIssued, InHand, InFile, DomainIsNewest, Unlocked,
     KeyIsNewest, Readable, Typed, Issuing
<1>15. CASE Age
  <2>1. DOMAIN certs' = DOMAIN certs /\ \A c \in DOMAIN certs : certs'[c].domain = certs[c].domain
    BY <1>15, Aged DEF Age
  <2> QED
    BY <1>15, <2>1, Elsewhere DEF Age
<1>16. CASE UNCHANGED vars
  BY <1>16, Elsewhere DEF vars
<1> QED
  BY <1>1, <1>2, <1>3, <1>4, <1>5, <1>7, <1>8, <1>9, <1>10, <1>11, <1>12, <1>13, <1>14, <1>15,
     <1>16, <1>17 DEF Next, Ensure

\* A server fails to start only for a reason.
Excused == server = "failed" => cut \/ moved \/ changes >= 2

LEMMA ExcusedStep == Typed /\ Pairs /\ Excused /\ [Next]_vars => Excused'
<1> SUFFICES ASSUME Typed, Pairs, Excused, [Next]_vars, server' = "failed"
             PROVE  cut' \/ moved' \/ changes' >= 2
  BY DEF Excused
<1> USE DEF settings, service, account, ghosts
<1>1. CASE Serve
  <2> SUFFICES ASSUME ~cut, ~moved, changes < 2 PROVE FALSE
    BY <1>1 DEF Serve, Typed, Issuing
  <2>1. /\ pc = "idle" /\ domain # None /\ file # None /\ keys[domain] # None
        /\ Locked(domain) \/ keys[domain].key # file
    BY <1>1 DEF Serve
  <2>2. domain \in Domains
    BY <2>1 DEF Typed, TypeOK
  <2>3. ~Locked(domain)
    BY <2>2 DEF Locked, Pairs, Unlocked
  <2>4. Readable /\ file \in DOMAIN certs /\ certs[file].domain \in Domains
    <3>1. file # Torn /\ file \in {None, Torn} \cup DOMAIN certs
      BY <2>1 DEF Pairs, InFile, Typed, TypeOK
    <3> QED
      BY <2>1, <3>1, IssuedForDomain DEF Readable
  <2>5. KeyIsNewest(file)
    BY <2>1, <2>4 DEF Pairs, InFile
  <2>6. keys[domain].key <= file /\ file <= keys[domain].key
    BY <2>1, <2>2, <2>4, <2>5 DEF KeyIsNewest, Pairs, DomainIsNewest
  <2>7. keys[domain].key \in Nat /\ file \in Nat
    BY <2>1, <2>2, <2>4 DEF Pairs, KeysIssued, Typed, TypeOK
  <2> QED
    BY <2>1, <2>3, <2>6, <2>7
<1>2. CASE server = "failed"
  BY <1>2 DEF Excused, Next, vars, Ensure, Check, Issue, OpenFile, WriteFile, RecordRow,
     EnsureFails, CutShort, Start, NothingDue, Serve, Stop, Crash, Forget, Order, UseAccountKey,
     LookUpAccountKey, StoreAccountKey, AccountKeyRefused, IssueRefused, ChangeDomain,
     ChangeSecret, Age, EnsuresNow, Typed, TypeOK, Issuing
<1>3. CASE server # "failed" /\ ~Serve
  BY <1>3 DEF Next, vars, Ensure, Check, Issue, OpenFile, WriteFile, RecordRow,
     EnsureFails, CutShort, Start, NothingDue, Stop, Crash, Forget, Order, UseAccountKey,
     LookUpAccountKey, StoreAccountKey, AccountKeyRefused, IssueRefused, ChangeDomain,
     ChangeSecret, Age
<1> QED
  BY <1>1, <1>2, <1>3
-----------------------------------------------------------------------------
\* One of them makes the account's key, and all use it.
OneKey ==
  ~raced /\ ~moved =>
    /\ used \subseteq {AccountKey}
    /\ AccountKey = None => used = {}
    /\ \A t \in Orderers : apc[t] # "idle" =>
         /\ AccountKey = None /\ \A u \in Orderers : apc[u] # "idle" => u = t
         /\ apc[t] = IF secret # None THEN "minting" ELSE "keeping"

LEMMA OneKeyStep == Typed /\ OneKey /\ [Next]_vars => OneKey'
<1> SUFFICES ASSUME Typed, OneKey, [Next]_vars, ~raced', ~moved' PROVE OneKey'
  BY DEF OneKey
<1> USE DEF settings, service, account, ghosts
<1>1. ASSUME UNCHANGED <<AccountKey, used, apc, raced, moved, secret>> PROVE OneKey'
  BY <1>1 DEF OneKey
<1>2. ASSUME keys'[Account] = keys[Account], UNCHANGED <<secret, memory>>
      PROVE  UNCHANGED AccountKey
  BY <1>2 DEF AccountKey
<1>3. CASE Issue
  <2>1. keys'[Account] = keys[Account]
    BY <1>3, KeysAssumption DEF Issue, Put, Typed, TypeOK, Names
  <2> QED
    BY <1>1, <1>2, <1>3, <2>1 DEF Issue
<1>4. CASE Stop \/ Crash
  <2>1. memory = None /\ memory' = None /\ UNCHANGED <<keys, secret, used, raced>> /\ ~moved
    BY <1>4 DEF Stop, Crash, Forget
  <2>2. AccountKey' = AccountKey
    BY <2>1 DEF AccountKey
  <2>3. \A t \in Orderers : apc'[t] = "idle"
    BY <1>4 DEF Stop, Crash, Forget
  <2> QED
    BY <2>1, <2>2, <2>3 DEF OneKey
<1>12. CASE EnsureFails
  <2>1. AccountKey' = AccountKey /\ UNCHANGED <<secret, used, raced, moved>>
    BY <1>2, <1>12 DEF EnsureFails
  <2>2. \A t \in Orderers : apc'[t] = apc[t] \/ apc'[t] = "idle"
    BY <1>12 DEF EnsureFails, Typed, TypeOK
  <2> QED
    BY <2>1, <2>2 DEF OneKey
<1>5. ASSUME NEW t \in Orderers, UseAccountKey(t) PROVE OneKey'
  <2>1. AccountKey' = AccountKey /\ used' = used \cup {AccountKey} /\ AccountKey # None
    BY <1>2, <1>5 DEF UseAccountKey
  <2> QED
    BY <1>5, <2>1 DEF UseAccountKey, OneKey
<1>6. ASSUME NEW t \in Orderers, LookUpAccountKey(t) PROVE OneKey'
  <2>1. AccountKey' = AccountKey /\ AccountKey = None
    BY <1>2, <1>6 DEF LookUpAccountKey
  <2>2. \A u \in Orderers : apc[u] = "idle"
    BY <1>6 DEF LookUpAccountKey
  <2>3. /\ \A u \in Orderers : apc'[u] # "idle" => u = t
        /\ apc'[t] = IF secret # None THEN "minting" ELSE "keeping"
    BY <1>6, <2>2 DEF LookUpAccountKey, Typed, TypeOK
  <2> QED
    BY <1>6, <2>1, <2>3 DEF LookUpAccountKey, OneKey
<1>7. ASSUME NEW t \in Orderers, StoreAccountKey(t) PROVE OneKey'
  <2>1. /\ used = {} /\ \A u \in Orderers : apc[u] # "idle" => u = t
        /\ apc[t] = IF secret # None THEN "minting" ELSE "keeping"
    BY <1>7 DEF StoreAccountKey, OneKey
  <2>2. AccountKey' = minted + 1
    <3>1. CASE secret # None
      BY <1>7, <2>1, <3>1, KeysAssumption
         DEF StoreAccountKey, AccountKey, Put, Typed, TypeOK, Names, Key
    <3>2. CASE secret = None
      BY <1>7, <2>1, <3>2 DEF StoreAccountKey, AccountKey
    <3> QED
      BY <3>1, <3>2
  <2>3. minted + 1 # None
    BY KeysAssumption DEF Typed, TypeOK
  <2>4. used' = {minted + 1} /\ \A u \in Orderers : apc'[u] = "idle"
    BY <1>7, <2>1 DEF StoreAccountKey, Typed, TypeOK
  <2> QED
    BY <2>2, <2>3, <2>4 DEF OneKey
<1>11. ASSUME NEW t \in Orderers, AccountKeyRefused(t) PROVE OneKey'
  <2>1. AccountKey' = AccountKey /\ UNCHANGED <<secret, used, raced, moved>>
    BY <1>2, <1>11 DEF AccountKeyRefused
  <2>2. \A u \in Orderers : apc'[u] = apc[u] \/ apc'[u] = "idle"
    BY <1>11 DEF AccountKeyRefused, Typed, TypeOK
  <2> QED
    BY <2>1, <2>2 DEF OneKey
<1>10. Self \in Orderers /\ Threads \subseteq Orderers
  BY DEF Orderers
<1>8. CASE \E s \in Secrets \cup {None} : ChangeSecret(s)
  BY <1>8 DEF ChangeSecret
<1>9. CASE UNCHANGED <<keys, secret, memory, used, apc, raced, moved>>
  BY <1>1, <1>2, <1>9
<1> QED
  BY <1>3, <1>4, <1>5, <1>6, <1>7, <1>8, <1>9, <1>10, <1>11, <1>12
     DEF Next, vars, Ensure, Order, Check, IssueRefused, OpenFile, WriteFile, RecordRow, Start,
         NothingDue, Serve, ChangeDomain, Age
-----------------------------------------------------------------------------
\* keystore.py, selfcert.py: stores, file and rows hold values of their types, and name
\* certificates that were issued.
THEOREM TypeCorrect == Spec => []TypeOK
<1>1. Typed /\ [Next]_vars => Typed'
  BY TypeStep
<1>2. Typed => TypeOK
  BY DEF Typed
<1> QED
  BY <1>1, <1>2, TypeInit, PTL DEF Spec

\* ensure_service_certificate, main(): the served file and the stored key are a pair,
\* whatever fails, unless an issue was cut short between the two; and the server starts
\* with them.
THEOREM PairsMatch == Spec => []PairMatches
<1> DEFINE IInv == Typed /\ Pairs /\ Excused
<1>1. Init => IInv
  BY TypeInit, PairsInit DEF Init, Excused
<1>2. IInv /\ [Next]_vars => IInv'
  BY TypeStep, PairsStep, ExcusedStep
<1>3. IInv => PairMatches
  BY DEF Excused, Pairs, InFile, KeyIsNewest, PairMatches
<1> QED
  BY <1>1, <1>2, <1>3, PTL DEF Spec

\* upstream/client.py:4, "one stable upstream account across restarts".
THEOREM OneAccount == Spec => []AccountKept
<1> DEFINE IInv == Typed /\ OneKey
<1>1. Init => IInv
  BY TypeInit DEF Init, OneKey
<1>2. IInv /\ [Next]_vars => IInv'
  BY TypeStep, OneKeyStep
<1>3. OneKey => AccountKept
  <2> SUFFICES ASSUME used \subseteq {AccountKey} PROVE Cardinality(used) <= 1
    BY DEF OneKey, AccountKept
  <2>1. IsFiniteSet({AccountKey}) /\ Cardinality({AccountKey}) = 1
    BY FS_Singleton
  <2> QED
    BY <2>1, FS_Subset
<1> QED
  BY <1>1, <1>2, <1>3, PTL DEF Spec
=============================================================================
