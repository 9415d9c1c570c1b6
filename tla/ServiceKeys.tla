----------------------------- MODULE ServiceKeys -----------------------------
(***************************************************************************)
(* The server's own keys: the key store (keystore.py), the certificate of  *)
(* the service and its maintenance (selfcert.py), the start of the server  *)
(* with or without HTTPS (__main__.py, main.py), and the key of its        *)
(* account at the upstream CA.                                             *)
(*                                                                         *)
(* The certificate is a file, its key a row of the key_material table: two *)
(* stores, written one after the other.  A certificate is its number, and  *)
(* so is its key.  One server serves; it is restarted when it exits.      *)
(***************************************************************************)
EXTENDS Naturals, Sequences, FiniteSets

CONSTANTS
  Domains,     \* values of service_domain
  Secrets,     \* values of ACME_LAN_SECRET_KEY
  Account,     \* name of the account key in the key store
  Threads,     \* that order from the upstream CA for others
  Self,        \* the one that orders for the service
  None,
  MaxCerts, MaxKeys, MaxFaults, MaxChanges   \* bounds

VARIABLES
  domain, secret,   \* the settings, None when not set
  keys,             \* the key_material table: name -> key and its secret
  memory,           \* keystore._ephemeral: the account key without a secret
  file,             \* self_cert_path: a certificate, Torn, or None
  certs,            \* issued for the service: of which domain, near expiry or not
  rows,             \* those with a certificate row
  server,           \* the server
  pc, job,          \* ensure_service_certificate
  apc,              \* who orders: "idle", or making an account key, for the store
                    \* ("minting") or for the memory ("keeping")
  minted, used,     \* account keys made, and used at the CA
  cut,              \* the last issue ended between its key and its row
  raced, moved,     \* two first uses overlapped; a secret was changed, or a key forgotten
  faults, changes   \* counters: failures, changes of the domain and the secret

settings == <<domain, secret>>
service == <<file, certs, rows, pc, job, cut>>
account == <<memory, apc, minted, used, raced>>
ghosts == <<moved, changes>>
vars == <<settings, keys, service, server, account, ghosts, faults>>

Torn == 0
Names == Domains \cup {Account}
Orderers == Threads \cup {Self}
Key == [key: Nat \ {0}, under: Secrets]
PC == {"idle", "ordering", "issuing", "opening", "writing", "recording"}

ASSUME KeysAssumption ==
  /\ Account \notin Domains /\ Self \notin Threads
  /\ Domains # {} /\ Secrets # {}
  /\ None \notin Domains \cup Secrets \cup Nat \cup Key \cup [domain: Domains, cert: Nat]
  /\ {MaxCerts, MaxKeys, MaxFaults, MaxChanges} \subseteq Nat
  /\ MaxFaults + MaxChanges < MaxCerts

\* The ones it is first set to, if any.
FirstDomain == CHOOSE d \in Domains : TRUE
FirstSecret == CHOOSE s \in Secrets : TRUE

Init ==
  /\ domain \in {FirstDomain, None} /\ secret \in {FirstSecret, None}
  /\ keys = [n \in Names |-> None] /\ memory = None
  /\ file = None /\ certs = <<>> /\ rows = {}
  /\ server = "down"
  /\ pc = "idle" /\ job = None
  /\ apc = [t \in Orderers |-> "idle"] /\ minted = 0 /\ used = {}
  /\ cut = FALSE /\ raced = FALSE /\ moved = FALSE /\ faults = 0 /\ changes = 0
-----------------------------------------------------------------------------
\* The key store.

Put(name, k) == keys' = [keys EXCEPT ![name] = [key |-> k, under |-> secret]]

\* get_material raises on a key under another secret than the configured one.
Locked(name) == keys[name] # None /\ keys[name].under # secret

Fault == faults < MaxFaults /\ faults' = faults + 1
-----------------------------------------------------------------------------
\* ensure_service_certificate: at the start before serving, then by the maintainer.

\* There is one path for the certificate, whatever the domain; only the file is read.
Readable == file \notin {None, Torn}
NeedsIssueIfMissing == file = None   \* mutant: neither expiry nor garbage is looked at
NeedsIssue == Readable => certs[file].old

Goto(to, j) == pc' = to /\ job' = j

EnsuresNow == pc = "idle" /\ server \in {"starting", "http", "https"}
Due == domain # None /\ secret # None /\ NeedsIssue

Check ==
  /\ EnsuresNow /\ Due
  /\ Len(certs) < MaxCerts
  /\ Goto("ordering", [domain |-> domain, cert |-> 0])
  /\ server' = IF server = "starting" THEN "loading" ELSE server
  /\ UNCHANGED <<settings, keys, file, certs, rows, cut, account, ghosts, faults>>

\* In a thread: the order, with the account key (below), then the key into the key
\* store, under the secret of now.
IssueForgetsKey ==   \* mutant: the new key is not stored
  /\ pc = "issuing" /\ secret # None
  /\ certs' = Append(certs, [domain |-> job.domain, old |-> FALSE])
  /\ keys' = IF keys[job.domain] = None
             THEN [keys EXCEPT ![job.domain] = [key |-> Len(certs) + 1, under |-> secret]]
             ELSE keys
  /\ Goto("opening", [job EXCEPT !.cert = Len(certs) + 1])
  /\ UNCHANGED <<settings, file, rows, cut, server, account, ghosts, faults>>
Issue ==
  LET c == Len(certs) + 1
  IN
  /\ pc = "issuing" /\ secret # None
  /\ certs' = Append(certs, [domain |-> job.domain, old |-> FALSE])
  /\ Put(job.domain, c)
  /\ Goto("opening", [job EXCEPT !.cert = c])
  /\ UNCHANGED <<settings, file, rows, cut, server, account, ghosts, faults>>

\* open(path, "w") truncates, write fills.
OpenFile ==
  /\ pc = "opening"
  /\ file' = Torn
  /\ Goto("writing", job)
  /\ UNCHANGED <<settings, keys, certs, rows, cut, server, account, ghosts, faults>>

WriteFile ==
  /\ pc = "writing"
  /\ file' = job.cert
  /\ Goto("recording", job)
  /\ UNCHANGED <<settings, keys, certs, rows, cut, server, account, ghosts, faults>>

RecordRow ==
  /\ pc = "recording"
  /\ rows' = rows \cup {job.cert}
  /\ cut' = FALSE
  /\ Goto("idle", None)
  /\ UNCHANGED <<settings, keys, file, certs, server, account, ghosts, faults>>

\* No secret is left to store the key under.
IssueRefused ==
  /\ pc = "issuing" /\ secret = None
  /\ Goto("idle", None)
  /\ UNCHANGED <<settings, keys, file, certs, rows, cut, server, account, ghosts, faults>>

\* What a call that does not return leaves behind.
CutShortKeepsJob ==   \* mutant: the failed issue is not forgotten
  /\ faults < MaxFaults /\ faults' = faults + 1
  /\ cut' = (cut \/ pc \in {"opening", "writing", "recording"})
  /\ pc' = "idle" /\ UNCHANGED job
CutShort ==
  /\ faults < MaxFaults /\ faults' = faults + 1
  /\ cut' = (cut \/ pc \in {"opening", "writing", "recording"})
  /\ Goto("idle", None)

\* The CA, the disk or the database refuses; the caller logs it.
EnsureFails ==
  /\ pc # "idle"
  /\ CutShort
  /\ apc' = [apc EXCEPT ![Self] = "idle"]
  /\ UNCHANGED <<settings, keys, file, certs, rows, server, memory, minted, used, raced,
                 ghosts>>
-----------------------------------------------------------------------------
\* main().

Start ==
  /\ server \in {"down", "failed"}
  /\ server' = "starting"
  /\ UNCHANGED <<settings, keys, service, account, ghosts, faults>>

NothingDue ==
  /\ server = "starting" /\ ~Due
  /\ server' = "loading"
  /\ UNCHANGED <<settings, keys, service, account, ghosts, faults>>

\* _bootstrap_service_cert and uvicorn: a key under another secret raises, and so
\* does a file that is no certificate or the certificate of another key.
Serve ==
  /\ server = "loading" /\ pc = "idle"
  /\ server' = IF domain = None \/ file = None \/ keys[domain] = None THEN "http"
               ELSE IF ~Locked(domain) /\ keys[domain].key = file THEN "https"
               ELSE "failed"
  /\ UNCHANGED <<settings, keys, service, account, ghosts, faults>>

Forget ==
  /\ server' = "down"
  /\ memory' = None /\ apc' = [t \in Orderers |-> "idle"]
  /\ moved' = (moved \/ memory # None)
  /\ UNCHANGED <<settings, keys, file, certs, rows, minted, used, raced, changes>>

\* The lifespan waits for its tasks.
Stop ==
  /\ server \in {"http", "https"} /\ pc = "idle"
  /\ Forget
  /\ UNCHANGED <<pc, job, cut, faults>>

Crash ==
  /\ server \notin {"down", "failed"}
  /\ CutShort
  /\ Forget
-----------------------------------------------------------------------------
\* load_or_create_account_key, by everyone who orders (upstream/client.py).

AccountKey == IF secret = None THEN memory
              ELSE IF keys[Account] = None THEN None ELSE keys[Account].key

Orders(t) ==
  /\ apc[t] = "idle"
  /\ IF t = Self THEN pc = "ordering" ELSE server \in {"http", "https"}

\* The service's own order goes on, or is given up; the others are not followed.
GoesOn(t) == IF t = Self THEN Goto("issuing", job) ELSE UNCHANGED <<pc, job>>
GivesUp(t) == IF t = Self THEN Goto("idle", None) ELSE UNCHANGED <<pc, job>>

UseAccountKey(t) ==
  /\ Orders(t)
  /\ AccountKey # None /\ ~(secret # None /\ Locked(Account))
  /\ used' = used \cup {AccountKey}
  /\ GoesOn(t)
  /\ UNCHANGED <<settings, keys, file, certs, rows, cut, server, memory, apc, minted, raced,
                 ghosts, faults>>

LookUpAccountKey(t) ==
  /\ Orders(t)
  /\ AccountKey = None
  /\ apc' = [apc EXCEPT ![t] = IF secret # None THEN "minting" ELSE "keeping"]
  /\ raced' = (raced \/ \E u \in Orderers : apc[u] # "idle")
  /\ UNCHANGED <<settings, keys, service, server, memory, minted, used, ghosts, faults>>

StoreAccountKeyNowhere(t) ==   \* mutant: the key is not stored
  /\ apc[t] # "idle"
  /\ apc[t] = "minting" => secret # None
  /\ minted < MaxKeys \/ t = Self
  /\ minted' = minted + 1
  /\ used' = used \cup {minted + 1}
  /\ apc' = [apc EXCEPT ![t] = "idle"]
  /\ GoesOn(t)
  /\ UNCHANGED <<settings, keys, memory, file, certs, rows, cut, server, raced, ghosts, faults>>
StoreAccountKey(t) ==
  LET k == minted + 1
  IN
  /\ apc[t] # "idle"
  /\ minted < MaxKeys \/ t = Self
  /\ minted' = k
  /\ used' = used \cup {k}
  /\ apc' = [apc EXCEPT ![t] = "idle"]
  /\ \/ apc[t] = "minting" /\ secret # None /\ Put(Account, k) /\ UNCHANGED memory
     \/ apc[t] = "keeping" /\ memory' = k /\ UNCHANGED keys
  /\ GoesOn(t)
  /\ UNCHANGED <<settings, file, certs, rows, cut, server, raced, ghosts, faults>>

\* CredentialError: the key is there under another secret, or there is no secret any
\* more to store the new one under.
AccountKeyRefused(t) ==
  /\ \/ Orders(t) /\ secret # None /\ Locked(Account)
     \/ apc[t] = "minting" /\ secret = None
  /\ apc' = [apc EXCEPT ![t] = "idle"]
  /\ GivesUp(t)
  /\ UNCHANGED <<settings, keys, file, certs, rows, cut, server, memory, minted, used, raced,
                 ghosts, faults>>
-----------------------------------------------------------------------------
\* The operator and the calendar.

\* The dashboard's settings, or the file before a start.
ChangeDomain(d) ==
  /\ server \notin {"starting", "loading"}
  /\ changes < MaxChanges
  /\ d # domain
  /\ domain' = d /\ changes' = changes + 1
  /\ UNCHANGED <<secret, keys, service, server, account, moved, faults>>

\* From the dashboard, too.
ChangeSecret(s) ==
  /\ server \notin {"starting", "loading"}
  /\ changes < MaxChanges
  /\ s # secret
  /\ secret' = s /\ moved' = TRUE /\ changes' = changes + 1
  /\ UNCHANGED <<domain, keys, service, server, account, faults>>

\* renew_before_days before its end; only while it can be renewed in the model.
Age ==
  /\ Readable /\ ~certs[file].old
  /\ Len(certs) + (MaxFaults - faults) + (MaxChanges - changes)
       + (IF pc \in {"ordering", "issuing"} THEN 1 ELSE 0) < MaxCerts
  /\ certs' = [certs EXCEPT ![file].old = TRUE]
  /\ UNCHANGED <<settings, keys, file, rows, pc, job, cut, server, account, ghosts, faults>>
-----------------------------------------------------------------------------
Order(t) ==
  UseAccountKey(t) \/ LookUpAccountKey(t) \/ StoreAccountKey(t) \/ AccountKeyRefused(t)

Ensure == Check \/ Order(Self) \/ Issue \/ IssueRefused \/ OpenFile \/ WriteFile \/ RecordRow

Next ==
  \/ Ensure \/ EnsureFails
  \/ Start \/ NothingDue \/ Serve \/ Stop \/ Crash
  \/ \E t \in Threads : Order(t)
  \/ \E d \in Domains \cup {None} : ChangeDomain(d)
  \/ \E s \in Secrets \cup {None} : ChangeSecret(s)
  \/ Age

\* The maintainer loops, the container restarts a server that exits
\* (docs/DEPLOYMENT.md:75), and time passes.
Spec ==
  /\ Init /\ [][Next]_vars
  /\ WF_vars(Ensure) /\ WF_vars(Start \/ NothingDue \/ Serve) /\ WF_vars(Age)
-----------------------------------------------------------------------------
Cert == [domain: Domains, old: BOOLEAN]

\* The stores hold values of their types; the file and the rows name certificates
\* that were issued.
TypeOK ==
  /\ domain \in Domains \cup {None} /\ secret \in Secrets \cup {None}
  /\ keys \in [Names -> Key \cup {None}]
  /\ memory \in Nat \cup {None}
  /\ certs \in Seq(Cert) /\ Len(certs) <= MaxCerts
  /\ file \in {None, Torn} \cup DOMAIN certs
  /\ rows \subseteq DOMAIN certs
  /\ server \in {"down", "failed", "starting", "loading", "http", "https"}
  /\ pc \in PC /\ (pc = "idle" <=> job = None)
  /\ pc # "idle" => job \in [domain: Domains, cert: Nat] /\ server \notin {"down", "failed"}
  /\ pc \in {"opening", "writing", "recording"} => job.cert \in DOMAIN certs
  /\ apc \in [Orderers -> {"idle", "minting", "keeping"}]
  /\ apc[Self] # "idle" => pc = "ordering"
  /\ minted \in Nat /\ used \subseteq 1 .. minted

\* The certificate in the file and the key in the key store are a pair, and the file
\* has its row, unless an issue was cut short in between.  So the server starts; but
\* for another secret, and for a domain that went away and came back: its key is there
\* still, next to the file of the other domain.
PairMatches ==
  /\ server = "failed" => cut \/ moved \/ changes >= 2
  /\ pc = "idle" /\ ~cut /\ Readable =>
       file \in rows /\ keys[certs[file].domain].key = file

\* upstream/client.py:4: one stable upstream account across restarts.  Threads order
\* with one key, unless two first uses overlapped, or the operator set no secret or
\* another one.
AccountKept == ~raced /\ ~moved => Cardinality(used) <= 1

\* A certificate that is missing, unreadable or near its end is replaced, however
\* often the CA refused before.  And a server that does not start, because key and
\* certificate do not match, starts when the certificate is due.  Both need a secret,
\* the one that the key of the upstream account is under, if there is such a key.
Aging == file = None \/ file = Torn \/ (Readable /\ certs[file].old)
Recovers ==
  /\ Aging /\ domain # None /\ secret # None ~>
       ~Aging \/ domain = None \/ secret = None \/ Locked(Account)
  /\ server = "failed" ~>
       server \in {"http", "https"} \/ secret = None \/ Locked(Account)

\* docs/MAINTENANCE.md:79-80, on a new secret key: "let the upstream-account and
\* self-TLS keys regenerate".
KeysRegenerate == secret # None /\ Locked(Account) ~> secret = None \/ ~Locked(Account)

\* docs/MAINTENANCE.md:77-79 lets the keys regenerate after the secret key is
\* rotated, and docs/DEPLOYMENT.md:245 has a server without one stay on HTTP: the
\* secret never keeps the server from starting.
SecretNeverStopsIt ==
  [][server = "loading" /\ server' = "failed" => ~Locked(domain)]_vars
=============================================================================
