# Verification of acme-lan

acme-lan is an ACME server (RFC 8555) for a local network.  It validates clients
on the LAN itself, obtains their certificates from an upstream CA over dns-01 or
http-01, and renews and installs certificates on managed hosts.  This directory
holds TLA+ models of its parts, TLC configurations that check them on small
instances, and TLAPS proofs for every instance.

Paths below are relative to `src/src/acme_lan/` unless they say otherwise.

## 1. Inventory

All of the server is one asyncio process: coroutines interleave at every `await`,
blocking work (validators, the upstream, device dialogs) runs in worker threads
that a coroutine awaits.  State that matters is in SQLite, reached through one
SQLAlchemy session per request or per background tick.  Three facts about these
sessions (`db.py`) decide most of what can go wrong:

* `expire_on_commit=False`: a row stays, in the session, as it was loaded;
* a commit writes only the attributes that differ from what was loaded, by
  primary key, whatever the row holds by then (the last writer wins);
* an UPDATE of a row that was deleted raises; a DELETE of one only warns.

| Component | State | Operations | Interacts with | Hard behaviour | Correct when |
|---|---|---|---|---|---|
| Orders and authorizations: `acme/orders.py`, `acme/authz.py` | `acme_order`, `authorization`, `challenge`, `certificate` | newOrder, poll, finalize, answer a challenge | validators, upstream, maintenance | two requests for one order at every await; a restart while the upstream works; retries | nothing is issued without validation; a valid order has its certificate; every end has a cause; work in progress has a worker |
| Front door: `acme/nonce.py`, `jws.py`, `accounts.py`, `common.py` | `nonce`, `account` | newNonce, verify a message, newAccount, account update | every ACME handler | duplicated and delayed messages; two registrations at once; stale account rows | no replay; an account changes only by its own key; deactivation is final |
| Maintenance: `maintenance.py`, run by an external job | the same tables | purge orders, purge nonces | the running server | decides on a SELECT, deletes at a later commit | finished and running orders are kept |
| Download and revocation: `acme/certificates.py` | `certificate`, `acme_order` | download, revoke | upstream | order purged, certificate kept | only the owner downloads, only the owner or the key revokes |
| Upstream fulfilment: `upstream/`, `dns/`, `ca/` | TXT records, edge responses, upstream account key | order, publish, poll, clean up, revoke | DNS API, CA, edge proxy | partial publication, clean-up after failure, several orders for a name, providers that keep two values | every challenge is published while the CA looks, and nothing is left behind |
| Managed hosts: `hosts.py`, `scheduler.py`, `management/hosts_api.py` | `managed_host`, `certificate`, devices | create, update, delete, renew, scheduled tick | upstream, devices, stores | one session per tick, with rows as old as the tick; manual and scheduled renewals and edits overlap; failures and restarts between issue, install and record; devices that never answer | devices match the tables; due hosts get renewed, others do not |
| Deployment: `deploy/` | files and trustpoints on devices | fetch a CSR, install, reload | device shell, SSH | several writes, one of which fails | a device is left with a pair that matches, or the failure is reported |
| Certificate stores: `certstore/` | key bundles in the database or a vault | store, fetch, delete | hosts, management | stored but not recorded | a recorded key can be fetched |
| Lifecycle, notifier, audit: `certlifecycle.py`, `notifications.py`, `certaudit.py` | `retired`, `expiry_warned_at` | retire, warn, list expiring, audit | channels, management | sent, but not committed | warned about once; retired ones are left alone |
| Management API: `management/api.py` | none of its own | lists, key retrieval, health | all tables | which certificate supersedes which | listings agree with the tables |
| Service certificate and key store: `selfcert.py`, `keystore.py`, `__main__.py` | certificate file, key table | issue, write, load at start-up | upstream | crash between the key and the file | the server starts with a matching pair |
| Users, sessions, single sign-on: `users.py`, `oidc.py`, `management/auth*.py` | `user`, `session`, login states | set up, sign in and out, administer users | dashboard, OIDC provider | checks before an await (first user, last user); rows loaded at the login gate | a revoked session stays so; the last user stays (section 4) |
| Settings and migrations: `configfile.py`, `management/settings_api.py`, `migrations_data.py` | a file, the schema | rewrite, migrate once | start-up | crash while writing | old or new, never half |
| Start-up: `main.py` | the background tasks | start, stop | scheduler, notifier, maintainer | shutdown waits for ticks | |
| Profiles, encodings, credentials, secret backends | rows read or rendered | create, read, delete | | none of its own | |
| Dashboard: `web/` | client-side only | | management API | none the server relies on | |

`PROJECT.json` lists the same components with their status, every hazard at its
line, and for each definition the lines of code it stands for.

## 2. Modules

| Module | What it is |
|---|---|
| `OrderLifecycle` | what an order promises: the moves between its statuses |
| `AcmeOrders` | the handlers that touch orders, and the maintenance job |
| `AcmeOrdersProofs` | its theorems, for any overlap of requests, and that it implements `OrderLifecycle` |
| `AcmeFrontDoor`, `AcmeFrontDoorProofs` | nonces, the checks of a signed message, accounts; its theorems |
| `HostRenewal`, `HostRenewalProofs` | hosts, devices, the scheduler, manual renewals; its theorems |
| `UpstreamFulfilment`, `UpstreamFulfilmentProofs` | obtaining a certificate: DNS providers, the edge, the upstream CA, private CAs; revocation; its theorems |
| `IosDeployment`, `IosDeploymentProofs` | the dialogs with a Cisco IOS device, command by command; its theorems |
| `CertificateRecords`, `CertificateRecordsProofs` | rows of certificates, retirement, the notifier, the list and the audit; its theorems |
| `ServiceKeys`, `ServiceKeysProofs` | the server's own certificate, the key store, the start of the server; its theorems |
| `DashboardUsers` | users, sessions, the login gate, single sign-on |
| `DashboardSettings` | settings from defaults, a file and the environment, and their editing |
| `DashboardProofs` | the theorems about users and about settings |
| `MC...` | what TLC needs of some of them (symmetry, small functions) |

The components meet at narrow interfaces, and each model has the other side as a
choice: an order is handed an account that was verified; finalize and a renewal
ask the upstream for a certificate and get one, or an error, which is all that
`UpstreamFulfilment` lets its callers see; a renewal of `HostRenewal` writes a
device in the coarse steps that `IosDeployment` takes apart; `CertificateRecords`
takes the rows of both as given.

Operators marked `mutant:` are not part of the specifications.  Each is a
plausible bug in the operator next to it (a lost commit, a forgotten guard, a
stale row written whole); with it in place a property has to fail, which shows
that the property can.

### 2.1 AcmeOrders

State: `ordStatus`, `ordError`, `ordCert`, `certs`, `authz` and `chall` are the
columns the handlers decide on.  `pc[h]` says where request `h` waits and
`mem[h]` is the row of its session: `loaded` as read, `attr` as changed since.
`doomed[p]` is what a maintenance process selected and has not deleted yet.
`proved`, `refuted`, `issued`, `stranded` are history: what validators and the
upstream did, and which requests died with the upstream asked.  `overlaps[o]` counts
how often work on an order began while other work on it was under way.

| Code | Actions |
|---|---|
| `new_order` | `NewOrder` |
| `order_detail` (poll) | `Poll`, `Recompute`, `SaveChecked` or `MeetNoRow` |
| `finalize_order` | `Finalize`, `Recompute`, then `SaveChecked` (not ready), `RejectCsr`, or `StartProcessing`, `UpstreamIssues` or `UpstreamFails`, and `SaveCertificate`, `RejectChain` or `SaveFailure`; `MeetNoRow` at each commit |
| `respond_challenge` | `Respond`, `LoadAuthz` or `TurnDown`, `Accept` or `Refuse`, `SaveAnswer` |
| `purge_expired_orders` | `PurgeScan`, `PurgeDelete` |
| the clock, a restart | `Expire`, `Crash` |

`recompute_order_status` is `Derived`: it returns early on the *loaded* status and
otherwise reads the authorizations as they are.  `SaveChecked` writes only if the
result differs from what was loaded.  That is the UPDATE SQLAlchemy makes, and it is
how a poll undoes a finalize.

Nothing in the code serialises the work on an order, and nothing in the model does.
Each request and each purge says when it begins on an order (`Begin`) whether anybody
else is at it (`Quiet`), and the count goes up if so.  It is a measure for the
properties, in no guard: `IssuedPerOverlap` says that an order is issued for once and
once more per overlap, and `OrderLifecycle` is told which orders were `overlapped`.  An
order that was not moves as that module says and no other way; one that was may also
`Slip`, as a session wrote back what it had read before: its status is still one of the
five, it is not there before it is created or again once it is deleted, and it is valid
only with a certificate.  That is what is left of the lifecycle under any overlap.

Left out: identifiers are positions in the list (a wildcard and a plain name are
two), the CSR and profile checks are one choice (`RejectCsr`), serialisation of
answers, `authorization_detail` and the re-POST of a resolved challenge, which
read only.  A commit that fails because SQLite is locked is not modelled.

### 2.2 AcmeFrontDoor

State: `nonces` (the table), `accounts`, `sent` (a message is signed once and its
content never changes), and per handler where it is, its message and the account
it loaded.  `spent[n]` counts the requests nonce `n` let through.

`Send` and `Redeliver` are the network: any message with any key, kid, nonce ever
issued (or none of the server's), request and url, delivered to any number of
handlers.  `RefuseUrl`, `ConsumeNonce`/`BadNonce`, `Verify`/`RefuseKey` are
`verify_jws` in its order; `LookUpAccount`, `AmbiguousAccount`, `Register` are
`new_account`; `SaveAccount`, `RefuseUpdate` are `account_detail`;
`ServeResource` stands for the other handlers, and `Answer` mints the nonce every
answer carries.  `AmbiguousAccount` ends without one: the handler raises what no
error handler turns into an ACME error.  Signatures are perfect, so a message
that verifies was signed with the key it claims.

### 2.3 HostRenewal

State: `hosts` (the table), `device` (what is at each place of a host), `certs` (all issued),
`stored` and `rows` (those in the store, and in the certificate table),
`retired`; per worker `pc` and `job`; the scheduler's tick as `scan` and `due`,
sets of rows *as its session read them*.  `cut` marks the hosts whose last
renewal failed, was cut short or overlapped another, or was of a row that has been
edited since.

A row's `place` stands for its address, port, plugin and configuration: where a
certificate goes and how.  `names` are its domains, `mode` is its `csr_source`.
`UpdateHost` changes any of them at any time, and a renewal goes on with the row it has
loaded: with the old place and names, though the request was for the host as it is
(`RenewedAsEdited`, section 4).

| Code | Actions |
|---|---|
| `run_scheduler`, `renew_due_hosts`, `hosts_needing_renewal` | `StartTick`, `ScanHost`, `EndScan`, `NextHost`, `EndTick` |
| `renew_host` | `RenewHost` |
| `renew_and_deploy` | `Begin`, `FetchCsr` (device mode), `Issue`, `WriteCert`, `WriteKey` (local mode), `Reload`, `StoreCert`, `Save` |
| a plugin returns a failure; something raises | `DeployFails` (recorded), `Raise` (not recorded) |
| the commit meets a deleted row | `SaveGone` |
| `create_host`, `update_host`, `delete_host`, `retire_certificate` | `CreateHost`, `UpdateHost`, `DeleteHost`, `Retire` |
| the clock, a restart | `Day`, `Crash` |

Plugins: the ssh and local plugins write the chain and then the key; the
cisco_ios plugin imports both together, which is `WriteCert` and `WriteKey` with
nothing in between.  In device mode `FetchCsr` uses the key the device has or
makes a new one; or it reads a request that lies in a file, for a key that the device
does not use (`csr_path` of the local plugin), and then nothing is promised of the pair.
A host is scanned in any order (SQL gives none).  Two rows never name the same place.

`Save` writes `last_status` only if it differs from the status loaded.  If both
are errors, whose texts may differ, it is a choice.  `last_deployed_at`, the
name of a host and its stored credential decide nothing here and are left out.  The unit of time is the day, as in `.days`.

### 2.4 UpstreamFulfilment

State: `orders` at the CAs with an authorization per identifier, `zone` (the set of
values at each TXT record), `kept` (what acme-dns keeps), `port` (who listens at the
edge), per thread `pc` and `job`; `certs` and `revokes`. A TXT value is the pair of
an order and an identifier. `alone`, `failed` and `lost` are history: orders that
met no other one, orders that did not come to their end, and values whose
publication or removal failed.

| Code | Actions |
|---|---|
| `fulfil_order` | `Enroll` (a private CA), `Begin`, `NewOrder` |
| the loop that publishes; `EdgeHttpResponder` | `PublishProof`, `BindPort` |
| answering, `finalize_order` and its deadline | `AnswerChallenge`, `Finalize`, `Deadline` |
| the `finally` block | `CleanUp`, `CleanUpFails`, `Return` |
| a call that raises, before the `try` and inside it | `FailsEarly`, `Fails` |
| `publish_txt`, `remove_txt` of the three providers | `PublishTxt`, `RemoveTxt`, `Update`, `Seen` |
| `revoke_certificate` | `Revoke` |
| the CA; a restart | `Validate`; `Restart` |

A failing call takes effect or not; a value that was published by a call that then
raised is not in the list to clean up, which is why `lost` exists.  acme-dns keeps
the two newest values of one subdomain, whatever the record, and forgets by itself:
`kept` is the pair of them, the older one first.

### 2.5 IosDeployment

State: the device (`key`, `running`, `startup`), and per renewal `pc`, which is the
command that is next, and `job`.  `open` are channels, `leaked` those of failed
logins.  One action is one command.  The device does what it is told (`Done`),
rejects it in words of `ERROR_MARKERS` (`Rejected`) or in others (`Overheard`), or is
silent, with the command done or not (`FallSilent`, then `Deadline`).  `deaf` are the
renewals that did not understand an answer, `lost` the certificates whose renewal raised
after they were issued, or was cut by a restart.

| Code | Commands (`pc`) and actions |
|---|---|
| `renew_and_deploy` around the plugin | `Renew`, `Issue`, then `Store`, `Record`; `RecordRaises` (the store, or the commit of a host that was deleted), `Restart` |
| `OpenSshPtyChannel`, `login`, `_open` | `Open`, `LoginFails`, `Connect`, `Disconnect` |
| `fetch_csr` | `listing`, `generating`, `enrolling` |
| `install_cert` | `authenticating`, `importing`, then as below |
| `deploy` (PKCS#12) | `wrapping`, then as below |
| `_apply_https`, `_save` | `serving`, `ending`, `saving` |
| the `finally` blocks | `Close`, `CloseRaises` |

What a command does is `Effect`, in the operators of its name; the order is `After`.
`Reload` is the device's own: what was not saved is gone.

### 2.6 CertificateRecords

State: `certs` (the rows, numbered as issued), `served` (what an endpoint serves),
the notifier's tick as `pc`, `todo`, `told`, and `sends`, which counts warnings.

A certificate has the names it was issued for and its source: a host, this server, or
an ACME client.  `StartTick`, `Send`, `NoChannel`, `Commit` are `notify_expiring`: rows
are read once, mails go out one by one with an await each, and one commit ends the tick.
`Crash` is the loss of that commit.  `Issue`, `Retire`, `Unretire`, `Install` and `Day`
go on meanwhile.

`Expiring` is what the notifier warns of: the newest of each group, where `SameGroup` is
the key of `certlifecycle.py:54`.  `finalize_order` gives its certificates no domains, so
each certificate of an ACME client is a group of its own.  `Superseded` is what the list
hides (by primary domain, which it has from the order), `Issued`, `LatestIssued` and
`Audit` what the audit says of an endpoint (by any name, a wildcard taken for the name
under it, and the end of validity).  They are three different rules, and no property
relates them but the promise of section 4 that they break.

### 2.7 ServiceKeys

State: `keys` (the key_material table) and `file` (the certificate), the two stores
that have to agree; `memory`, the account key of a server without a secret;
`server`, and the steps of `ensure_service_certificate` in `pc` and `job`.

| Code | Actions |
|---|---|
| `ensure_service_certificate` | `Check`, `Issue` (order and key), `OpenFile` (truncates), `WriteFile`, `RecordRow`; `EnsureFails` at any of them |
| `main`, `_bootstrap_service_cert` | `Start`, `NothingDue`, `Serve`, `Stop`, `Crash` |
| `load_or_create_account_key`, for the service's own order (`Self`) and those of others | `UseAccountKey`, `LookUpAccountKey`, `StoreAccountKey`; `AccountKeyRefused` (the key is under another secret) |
| `put_material` without a secret | `IssueRefused` |
| settings, the environment, time | `ChangeDomain`, `ChangeSecret` (while the server runs, or between two starts), `Age` |

The service's own order goes through the key of the upstream account like every other
(`Order(Self)`), and ends there if that key is locked.

Key `n` is the key of certificate `n`, which is what an order with a fresh key
means.  `cut`, `raced` and `moved` are the excuses of the properties, each named in
them.

### 2.8 DashboardUsers

State: `users`, `sessions`, `states` (of OIDC) as in the tables, and per request
where it waits and the row it loaded.  `term` counts the administrator's password
resets and disablings of a user; a session has the term its login had read.

| Code | Actions |
|---|---|
| `login`, `start_session`, `logout`, `setup` | `Login`, `StartSession`, `Logout`, `FirstUser`, `CreateUser` |
| `oidc_start`, `oidc_callback`, `find_oidc_user` | `OidcStart`, `CallbackReads`, `CallbackDrops`, `Exchange`, `MatchSubject`, `MatchEmail`, `BindSubject` |
| `require_admin`, `session_user` | `Bearer`, `Cookie`, `ReadSession`, `ReadUser`, `Anonymous` |
| `add_user`, `update_user`, `delete_user`, `change_own_password` | `AddUser`, `LoadUser`, `SetPassword`, `UpdateUser`, `DeleteCounts`, `DeleteEndsSessions`, `DeleteRow`, `ChangeOwnPassword` |
| time; a request that ends early | `Expire`, `Abort` |

`LoadUser` of one's own account returns the row the login gate loaded, since both
use one session.  `update_user` with a password commits in the middle, which is why
it is two actions.  `UpdateUser` sets any e-mail address or leaves it, and ends sessions
only if the request has `disabled`; a person of the provider may come without an address
(`Claimed`).  `DeleteCounts` and `DeleteRow` are two steps: with two administrators the
table can be emptied between them (section 4).

### 2.9 DashboardSettings

State: `env`, `file`, `cache`; loads under way (`loads`) on the event loop and on
threads; the step of a PUT.  `Effective` is the order of sources in
`settings_customise_sources`.  `Typed` is what pydantic checks value by value, and
`Accepted` that with the validator that runs after it: without a service domain it takes
the host of the URL, which raises if the URL does not parse.  `Starts` says what a start
needs beyond that (`Usable`): a port that is a number, a database that opens.
`WriteSettings` is a PUT up to the replaced file,
`ResetCache` and `Cached`, or a load on the loop, the rest of it.  Its
`SettingsInit`, `SettingsNext` and `SettingsTypeOK` have names of their own, as its
theorems are next to those about users.  `EditFile` is an
operator with an editor, who may write anything, `Garbage` included;
`ChangeEnvironment` and `Exit` lie between two starts.

## 3. What TLC checks

| Run | Instance | What it shows |
|---|---|---|
| `orders_concurrent` | 1 order, 2 identifiers, 2 requests, 1 maintenance process, 1 restart, 2 issuances | any overlap of requests: nothing is issued unproved, every end has its cause, its certificate or its worker |
| `orders_retried` | 1 order, 1 identifier, 2 requests, 1 maintenance process, 1 restart, 3 issuances | one issuance and one more per overlap; refinement of `OrderLifecycle`; what is begun is resolved |
| `frontdoor` | 2 keys, 3 messages, 2 handlers, 3 nonces, 2 accounts | no replay, ownership, deactivation |
| `hosts_overlap` | 1 host, 2 places, 2 lists of names, scheduler and 1 operator, 3 certificates, 1 failure, 1 edit | what is at the place a row names is what is recorded |
| `hosts_scheduler` | 2 hosts, 2 days, no operator, 3 certificates, 1 failure, 1 edit | renewed when due, and always in the end, unless a device keeps the scheduler for ever |
| `fulfil` | 2 threads, a name and its wildcard, 1 CA and 1 private CA, each of 4 methods, 2 orders, 1 failure, 1 revocation | proofs are there when the CA looks; records and the port are given back; every call returns |
| `ios` | 2 renewals, 3 keys, 3 certificates, 2 failures, 4 configurations | reports, device and rows agree; a failure costs no certificate |
| `certs` | a host, the server and clients, 1 name, 3 certificates, 2 days, 2 failures, 1 edit | warned of once and in the end; retirement stays |
| `service` | 2 domains, 2 secrets, the service and 1 more thread, 5 certificates, 2 account keys, 2 failures, 2 changes | key and file stay a pair or become one; one account; the server recovers |
| `users` | 1 visitor, 1 administrator, 2 people, 2 users, 2 sessions, 1 edit (both parts of one PATCH), 1 OIDC state | revoked sessions are gone |
| `settings` | 3 settings (URL, service domain, a secret), 3 values, 4 environments, 2 threads, 1 edit by hand | a saved file can be loaded, and is what the server runs with |
| `fulfil_revoke` | as `fulfil`, no failure needed | `acme/certificates.py:62` is violated: see section 4 |

All of them hold but the last.  The largest has about eight million states.

Why the bounds are enough to be interesting.

* Orders share nothing but the tables, which are written by primary key, so one
  order is where the interleavings are.  Two identifiers are needed for an order
  that is half valid, two requests for every race of section 4, and a second
  issuance for the double finalization `IssuanceAccounted` is about.  A third lets
  `orders_retried` tell the issuance of an overlap from one that has no excuse; one
  identifier does there, as what matters is how often requests come back.
* Three messages let an update, a deactivation and a registration be in flight
  while two handlers race for a nonce; two keys are needed for one to name the
  other's account.  The third nonce lets all of them get through.
* `Lifetime = 2`, `RenewBefore = 1` and two days make a certificate fresh, then
  due.  `hosts_overlap` stays within one day: what is due does not matter there, as
  an operator renews at any time.  Two places and two lists of names are what a row can
  be moved from and to; with one edit a renewal under way works for the old one.  With
  two hosts one waits while the other is renewed, deleted or fails.  `Room` leaves a certificate for each renewal that
  has begun, so the bound ends renewals before they start and never halfway.
* A name and its wildcard share a TXT record, within an order and between two: all
  that can clash at a provider.  Two orders fill what acme-dns keeps, with two values
  each; and race for the edge port.
* Two renewals of a device are needed for one to replace what the other has just
  installed.  Two failures can hit any two commands of any dialogs, or a command
  and the store or the commit after it; the third certificate lets a renewal fail on a
  device that had a good one, and be repeated.
* Three certificates make a group with an old, a new and a retired one, and a source
  each; two failures, a warning that no channel took and a commit that was lost.
* Two failures make an issue that is cut short twice in a row, two changes a domain
  that goes and comes back, which is the case `PairMatches` has to except.
* One administrator and one visitor at once are two requests that hold stale rows of
  one user, and sessions of one term or the next; an edit is a PATCH, which may set
  a password and then disable.  A second administrator adds the races
  between two of them (`DashboardUsers_LastUser.cfg` has one); the theorem is for any
  number.
* The URL may be good, a string without a host, or one that a validator or the start
  fails on; the service domain empty, given or of a wrong type: all that the validator
  over both can make of them, below an environment that has either or none.  A secret
  has a mask.  Two threads load across a save.

`CHECK_DEADLOCK FALSE` is set where an instance has used up a bound or deleted its
last row, and can do no more.  Symmetry is used only in runs without liveness.

### Fairness

* Orders: weak fairness of `Handle(h)`, what the server does by itself for the
  request `h` works on.  The event loop resumes coroutines that can run;
  validators have timeouts and `fulfil_order` has a deadline, so each await ends.
  Clients, maintenance, expiry and restarts get none.  `FinalizeResolves` needs
  the fairness and still excepts orders whose request died.  Of an order that other work
  ran into it says less: a poll may have set its status back, and then it is at least not
  "processing" any more.
* Hosts: weak fairness of `Loop`, the scheduler's own steps, and for each worker of the
  steps that do not wait for a device (`Issue`, `StoreCert`, `Save`, `SaveGone`): the CA
  has a deadline and the store timeouts.  The steps at a device get none, as
  `deploy/ssh.py:100`, its SFTP calls and its line 148 wait without a timeout.  So
  `DueIsServed` says: if the scheduler is again and again not waiting for a device, every
  due host gets its turn.  Failures are bounded by `MaxFaults` and are nothing that must
  happen: finitely many failures, restarts and deletions do not keep the scheduler from a
  host.  Without the assumption it is false (`ServedInAnyCase`, section 4).
* Fulfilment: weak fairness of `Run(w)`, the next call of a thread.  Each call has
  a timeout of its own.  The CA (`Validate`) gets none: `Returns` rests on the
  deadline of `finalize_order`.
* Service keys: weak fairness of the maintainer (`Ensure`), of the start (the
  container is restarted when it exits, `docs/DEPLOYMENT.md:75`), and of `Age`, as
  time passes.  `Recovers` rests on finitely many failures and changes, and on an account
  key that is not under another secret: one that is makes every order raise.
* Certificates: weak fairness of the notifier, which loops.  Mail that no channel
  takes is a bounded failure.  This presupposes that a channel was configured when the
  server started: otherwise there is no notifier (`main.py:38`), and a channel that is
  configured later sends nothing until a restart.
* The other modules have safety properties only.

## 4. Deviations

Where the code does not do what it, its documents or its tests say.  Each is
reproduced by `tlc -config <cfg> <module>`, which finds the property named here
violated.  The first is also a run of the project.

| Configuration, module, property | What is said | What happens |
|---|---|---|
| `UpstreamFulfilment_Revoke.cfg`, `MCUpstreamFulfilment`, `RevokedAtIssuer` | `acme/certificates.py:62`: forward the revocation "to the upstream CA that actually issued the certificate" | it goes to the CA of the default profile |
| `AcmeOrders_Terminal.cfg`, `MCAcmeOrders`, `TerminalNotDowngraded` | `acme/orders.py:48`: "without downgrading terminal states" | a poll that loaded the order earlier commits "ready" over "processing" or "valid" |
| `AcmeOrders_Either.cfg`, `MCAcmeOrders`, `EitherIsEnough` | `acme/orders.py:107`: "answering either one is enough" | a second challenge that fails invalidates the authorization |
| `AcmeOrders_Purge.cfg`, `MCAcmeOrders`, `ValidOrdersKept` | `maintenance.py:22`: "Valid orders are kept" | an order made valid between the SELECT and the DELETE goes |
| `AcmeFrontDoor_Overlap.cfg`, `MCAcmeFrontDoor`, `OneAccountPerKey` | `tests/test_downstream_flow.py:41`: a key is matched to its account | two registrations at once make two accounts; the key can then neither register nor be looked up |
| `HostRenewal_Isolated.cfg`, `MCHostRenewal`, `OthersStillServed` | `scheduler.py:31`: "one host failing must not stop the rest" | a host deleted during its renewal ends the tick |
| `HostRenewal_Retired.cfg`, `MCHostRenewal`, `RetiredStopsRenewal` | `models.py:114`: retiring stops auto-renewal | retirement is not looked at |
| `HostRenewal_Outcome.cfg`, `MCHostRenewal`, `OutcomeRecorded` | `hosts.py:79`: "recording the outcome" | an outcome equal to the status loaded is not written over another's |
| `HostRenewal_Silent.cfg`, `MCHostRenewal`, `ServedInAnyCase` | `scheduler.py:31`: "one host failing must not stop the rest" | a device that falls silent holds the ssh plugin, and the tick, for ever |
| `HostRenewal_Stale.cfg`, `MCHostRenewal`, `RenewedAsEdited` | `hosts.py:79`: "issue a fresh certificate for ``host`` and deploy it" | the tick renews by the row of its start: a host that was moved since gets its certificate at the old place, recorded as deployed |
| `DashboardUsers_LastUser.cfg`, `MCDashboardUsers`, `LastUserStays` | `management/auth_api.py:238`: "Refusing to delete the last user; you would be locked out" | two administrators delete the two last users at once, each having counted two |
| `DashboardUsers_Adopt.cfg`, `MCDashboardUsers`, `LocalAccountAdopted` | `users.py:79`: a local account is adopted "rather than creating a duplicate" | an account without an e-mail address is not found; its person gets a second one |
| `ServiceKeys_Secret.cfg`, `ServiceKeys`, `SecretNeverStopsIt` | `docs/MAINTENANCE.md:77`: after a rotated secret the service's key regenerates; `docs/DEPLOYMENT.md:245`: without one the server stays on HTTP | a key under another secret raises at the start, and the server exits until the certificate is due |
| `ServiceKeys_Rotate.cfg`, `ServiceKeys`, `KeysRegenerate` | `docs/MAINTENANCE.md:79`: after a rotated secret "let the upstream-account and self-TLS keys regenerate" | the account key under the old secret raises at every order; neither it nor the service's key is made anew |
| `DashboardSettings_Starts.cfg`, `MCDashboardSettings`, `SavedFileStarts` | `management/settings_api.py:185`: validated "so a bad value can't break startup" | a save is accepted that no start survives: a port in `external_url` that is no number, a database that does not open, a value hidden by today's environment that the validator refuses without it |
| `CertificateRecords_Superseded.cfg`, `MCCertificateRecords`, `SupersededIsQuiet` | `certlifecycle.py:44`: "so a superseded older cert doesn't keep firing warnings" | a certificate of an ACME client has no domains and is a group of its own: it is warned of although it was renewed |
| `CertificateRecords_Retired.cfg`, `MCCertificateRecords`, `RetiredIsQuiet` | `certlifecycle.py:5`: retired "so it stops raising expiry warnings" | a certificate retired while a tick sends is warned of all the same |
| `CertificateRecords_Unknown.cfg`, `MCCertificateRecords`, `UnknownHasNoRecord` | `certaudit.py:39`: unknown is a "serial we have no record of" | a retired certificate that is still served is reported as unknown |

Seen while reading, without a run of their own:

* `docs/DEPLOYMENT.md:181` has a changed password end sessions; that holds for a
  password an administrator sets.  `change_own_password` keeps all sessions.
* `management/settings_api.py:186` says that the environment participates in the
  validation of a save.  Arguments come before the environment, so a bad value in
  the file below an enforced option refuses every save.  And a file that is no YAML
  reads as an empty one, so the next save drops what it held.
* A service domain that is changed and changed back finds its old key next to the
  certificate of the other domain, and the server does not start until the
  certificate is due (the second half of `Recovers` is what saves it).
* The audit takes the newest certificate to be the one that ends last, the list and the
  notifier the one issued last; and each groups certificates by other names.

## 5. What is proved

For every value of the constants that the named assumptions allow (the bounds are
naturals, the sentinels are not members of the sets they stand beside), whatever
the number of orders, requests, messages, keys, hosts, places, workers, threads,
renewals, certificates, users, sessions and options.  Every invariant, and every other safety
property, that a passing run checks is a theorem:

| Theorem | States |
|---|---|
| `AcmeOrdersProofs!TypeCorrect` | `Spec => [](TypeOK /\ SessionOK)` |
| `IssuanceIsEarned`, `InvalidityIsCaused`, `ValidityIsCertified`, `ProcessingIsAttended`, `EveryCertificateIsKept` | `IssuedOnlyIfProved`, `InvalidHasCause`, `ValidHasCertificate`, `ProcessingHasWorker`, `IssuanceAccounted` |
| `IssuancesAreCounted`, `Refinement` | `IssuedPerOverlap`, and `AcmeOrders` implements `OrderLifecycle` |
| `AcmeFrontDoorProofs!TypeCorrect`, `NonceOnce`, `AccountsAreOwned`, `DeactivationIsFinal` | `TypeOK`, `NonceSpentOnce`, `ChangedByOwnKey`, `DeactivationSticks` |
| `HostRenewalProofs!TypeCorrect`, `RenewalsAreDue`, `DevicesAreAsRecorded` | `TypeOK`, `RenewedWhenDue`, `DeviceIsAsRecorded` |
| `UpstreamFulfilmentProofs!TypeCorrect`, `NothingIsLeftBehind`, `ProofsFound` | `TypeOK`, `NothingLeftBehind`, `ProofsAreFound` |
| `IosDeploymentProofs!TypeCorrect`, `CertificateIsKept`, `SuccessIsReal`, `RecordsAreKept` | `TypeOK`, `KeepsCertificate`, `SuccessIsInstalled`, `InstalledIsRecorded` |
| `CertificateRecordsProofs!TypeCorrect`, `WarningsAreOnce`, `RetirementIsTheOperators` | `TypeOK`, `WarnedOnce`, `RetirementStays` |
| `ServiceKeysProofs!TypeCorrect`, `PairsMatch`, `OneAccount` | `TypeOK`, `PairMatches`, `AccountKept` |
| `DashboardProofs!TypeCorrect`, `SessionsAreRevoked` | `TypeOK`, `SessionsRevoked` |
| `DashboardProofs!SettingsTypeCorrect`, `SavedFilesLoad`, `SavedIsUsed` | `SettingsTypeOK`, `SavedFileLoads`, `CacheIsFresh` |

How the arguments go.

* Orders.  A status is acted on long after it was read, so an invariant on the
  tables alone is not inductive.  `SessionOK` says what a session holds at each
  point, `Provenance` that every copy of "ready", "processing" or "valid", in a
  table or in a session, goes back to identifiers a validator accepted, and
  `Causes` the same of "invalid".  That validators' verdicts are never taken back
  is what makes stale copies harmless for these properties, though not for
  `TerminalNotDowngraded`.
* Orders, counting certificates.  `Accounts` makes an equation of
  `IssuanceAccounted` that holds of every order ever: what the upstream issued is the
  rows stored and the requests that hold a chain.  Each step that issues adds one to
  both sides, each that stores moves one from the requests to the rows; that both are
  finite sets is part of the invariant, as nothing else bounds the requests.
* Orders, how often.  A request may still get a certificate once it has read a status
  from which issuance may start (`Checking`) or has asked the upstream (`Asking`).
  `Afford(o)` says that what was issued for an order and what its `Hopeful` requests
  may get is at most one more than its overlaps; while the row itself would let another
  request start (`Open`), what was issued and asked for is within the overlaps alone.
  So the first request is free, and each other one began while work was under way.
* Orders, refinement.  No request is assumed to wait for another.  For an order that
  never met an overlap (`Lone`), `Alone` makes a session's copy how the row still is
  (`Fresh`), `ReadyIsAnswered` says why a "ready" never falls back to "pending", and
  `Recorded` ties the certificate to the status: each step is the exact step of
  `OrderLifecycle`.  Beginning to work where work is under way is its `Overlap`, and
  what happens to such an order later a `Slip`, which may set a status back but makes
  none valid without a certificate and brings no deleted order back.
* Front door.  A nonce that let a request through is no longer in the table, and
  no nonce is minted twice (`NonceInv`).  A verified request holds an account
  whose key is its message's (`AccountHeld`); rows never change keys.
* Hosts.  `Settled(h)` says that all certificates the scheduler recorded for `h`
  are about to expire.  It holds of every host from the moment it is found due
  until its renewal is recorded, though the tick's rows grow old: time only helps,
  and others' certificates do not matter.  This needs `TickOK`, that a host is in a
  tick once, so the renewal at hand does not unsettle one still to come.
* Devices.  `HostOK(h)` is a case split on who is at the host.  Somebody alone is, and
  then the device has as much of the new certificate as `Installing` says for that
  step, at the place and for the names that the row still says (`SameTarget`: an
  edit of those in between is a `cut`); or nobody is, and it has what is recorded; or
  `cut` says why not.  A renewal that meets another, or that works from a row somebody
  has changed since, marks the host before anything is written, so no third case is
  needed.  `KeyOK` is what makes a certificate that a step brings to the device one for
  the key that is there.
* Fulfilment.  `Accounted`: a value in the zone is on the list of the thread whose order
  it is of, or it is in `lost`, and orders are of one thread (`Owned`), so a list that
  was worked off leaves nothing of its order.  `NothingLeftBehind` follows from it and
  `PortHeld`.  `ProofsAreFound` needs more: `FoundBy` says of each method what is seen
  from outside while a thread publishes, answers and waits.  With Cloudflare that holds
  against any other orders, as values are compared; with challtestsrv and acme-dns only
  for an order that met none, which `AloneOK` keeps for as long as it is in progress.
  For acme-dns it also says which of the two values is the older, as two identifiers
  just fit.  `Attended` closes the gap between asking and looking: what is pending and
  has not failed has a thread that still waits.
* IOS dialogs.  `StageOf` says what a renewal holds where it is: before the issue no
  certificate, after it one for the key of its CSR.  `Kept` strengthens
  `KeepsCertificate` by the one command that takes a certificate away: a dialog that
  is alone and comes to it, on a device that was not misunderstood, found no key, and
  so no certificate.  `InstalledBy` is what an installation that is alone has come to,
  one conjunct per command, and it holds on while the outcome is stored and recorded
  (`Ended`).  `Recorded`: a certificate on the device has a row, is in the hands of a
  renewal, or is in `lost`, whose renewal raised or was cut by a restart; it has to speak
  of the saved configuration, too, as a reload brings it back.  `Only`, `Inside` and `Outside` reduce each
  action to the one renewal it moves.  The bounds in `TypeOK` are inductive only
  together with what has still to come (`Limits`): the certificates issued and the
  renewals that have announced one are at most `MaxCerts`, and likewise the keys.
* Certificates.  A certificate is counted when its row is marked or the tick has told
  of it.  `Accounted` bounds what was sent of each by the ticks that were lost, plus
  one if it is counted; and rows a tick works on are not marked yet.
* Service keys.  Numbers of keys are those of certificates, so the newest key of a
  domain is that of its newest certificate, which is in the file or in hand unless an
  issue was cut short; the file is of the configured domain until that was changed
  twice.  `OneKey`: as long as one thread
  at a time mints, and the secret stays, used keys are the stored one.
* Settings.  What hides a bad value from a save need not be there on the next start, so
  `FileOK` speaks of each value in the file alone: a saved file is of valid values, and
  layers of valid values are valid (`ValidLayers`).  `UpOK` adds that a running
  server can load the file again, as long as nothing it enforces hides a part of it, since
  the validator saw the same values.  `FreshInv`: a load that is not older than the
  last save holds what the file holds (`LoadsFresh`).
* Users and sessions.  Sessions carry the term their login had read, so the invariant
  speaks of rows in the hands of requests as well as in the table.  `JobAt` says what a
  request has loaded at each of its steps and that ids are of users there have been:
  an id is never used again, so an old row is never mistaken for another user's.  A
  login that was overtaken is marked as such when its session starts.

Only model-checked: liveness (`FinalizeResolves`, `DueIsServed`, `Returns`,
`Recovers`, `EveryoneIsWarned`), which is out of the prover's reach.  The properties of
section 4 are false, and TLC shows how.

## 6. Plan

Next, in this order:

1. The refinement `HostRenewal` owes to the dialogs: `IosDeployment` implements an
   abstract device that is written once per renewal, or left as it was, and
   `DeviceIsAsRecorded` rests on no more than that.
2. Action properties of fulfilment and of the users: a value is removed from a record
   only by the order it is of (Cloudflare), a disabled user is enabled only by an
   administrator.
3. Profiles: a table that is edited while orders are at work, with the listener of a
   request next to that of its order.

## 7. Not modelled

* Rendering and parsing (serializers, encodings, JSON, labels and groups of
  `settings_schema.py`), cryptography (signatures are perfect, keys are numbers),
  network I/O of validators, plugins and the TLS probe (a verdict, or a failure).
* The download of a certificate and the checks of who may revoke one: they read rows
  and change nothing.  The table of profiles, the port override of a name and the
  stored credentials: rows that are created, edited, read and deleted.
* The secret backends and the remote certificate stores: a failure to reach one is
  the `Raise` of a renewal.
* A records that are published for the edge: only the test provider does that.
* Alembic migrations, which run once before the server starts, and data migrations,
  of which there are none (`migrations_data.py:22`).
* A settings file that cannot be written: the request fails with nothing changed.  A
  commit that fails because SQLite is locked.
* The dashboard, which keeps no state the server relies on.
* `directory.py:21` advertises a keyChange endpoint no route serves.
