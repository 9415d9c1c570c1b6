---------------------------- MODULE HostRenewal ----------------------------
(***************************************************************************)
(* Certificates for managed hosts: the renewal scheduler (scheduler.py),   *)
(* the renewals operators ask for and their edits of the host table        *)
(* (management/hosts_api.py), and renew_and_deploy (hosts.py), which asks  *)
(* a CSR of the device or makes a key, has a certificate issued, installs  *)
(* it on the device, stores it and records it, in this order.              *)
(*                                                                         *)
(* The scheduler works with one database session per tick; its host rows   *)
(* are as that session read them at the start.  One action is one stretch  *)
(* between two awaits, or one write to the device.                         *)
(***************************************************************************)
EXTENDS Naturals, Sequences, FiniteSets

CONSTANTS
  Hosts,
  Places,       \* where and how a certificate is installed
  NameSets,     \* what a certificate may be for
  Scheduler,    \* the background loop
  Operators,    \* requests for a renewal, at the same time
  None, Deleted,
  Lifetime,     \* of a certificate, in days
  RenewBefore,  \* renew_before_days
  MaxDays,      \* bound: the clock
  MaxCerts,     \* bound: certificates issued
  MaxFaults,    \* bound: failures of the CA, devices or the store, and restarts
  MaxEdits      \* bound: edits of hosts and retirements

ASSUME RenewalAssumption ==
  /\ Scheduler \notin Operators
  /\ Lifetime \in Nat /\ RenewBefore \in Nat /\ MaxDays \in Nat

Workers == {Scheduler} \cup Operators
Modes == {"device", "local"}

VARIABLES
  now,      \* the day
  hosts,    \* the host table: a row, None before it is created, or Deleted
  device,   \* what is at each place: a certificate and a key, 0 for neither
  keys,     \* how many key pairs were made; they are numbered as made
  certs,    \* all certificates issued, in order
  stored,   \* those in the certificate store
  rows,     \* those in the certificate table
  retired,  \* those marked retired there
  pc,       \* where each worker is
  job,      \* the renewal it is at
  scan,     \* hosts this tick still has to look at, as read at its start
  due,      \* hosts this tick still has to renew
  cut,      \* hosts whose last renewal failed, was cut short, overlapped or
            \* used another row than the host has now
  faults,   \* failures so far
  edits     \* edits so far

table == <<hosts, edits>>
world == <<device, keys, certs, stored>>
record == <<rows, retired>>
tick == <<scan, due>>
vars == <<now, table, world, record, pc, job, tick, cut, faults>>

Statuses == {"new", "deployed", "error"}   \* last_status; "new" for none
\* A row's place stands for its address, port, deploy_plugin and config, its
\* mode for csr_source, its names for domains.
Row == [enabled: BOOLEAN, mode: Modes, place: Places, names: NameSets,
        status: Statuses]
Certificate == [host: Hosts, names: NameSets \cup {None}, key: Nat, at: Nat, by: Workers]
PC == {"idle", "scanning", "picking", "fetching", "issuing", "installing",
       "keying", "reloading", "storing", "saving"}
\* A row as a session has loaded it.
Entry == [host: Hosts, mode: Modes, place: Places, names: NameSets,
          status: Statuses]
Job == [host: Hosts, mode: Modes, place: Places, names: NameSets,
        status: Statuses,
        key: Nat, cert: Nat, ok: BOOLEAN, alone: BOOLEAN]

ASSUME NoneAssumption ==
  None # Deleted /\ None \notin Row \cup Job /\ Deleted \notin Row

Present(h) == hosts[h] \notin {None, Deleted}
Loaded(h) == [host |-> h, mode |-> hosts[h].mode, place |-> hosts[h].place,
              names |-> hosts[h].names, status |-> hosts[h].status]
\* The host's row is still the one that was loaded.
Unedited(e) ==
  /\ hosts[e.host].mode = e.mode
  /\ hosts[e.host].place = e.place
  /\ hosts[e.host].names = e.names
Of(h) == {c \in rows : certs[c].host = h}

\* hosts_needing_renewal, for one host: the certificate with the latest
\* not_after, so all of them, is about to expire, or there is none.
DueByAny(h) ==   \* mutant: an older certificate is enough
  Of(h) = {} \/ \E c \in Of(h) : certs[c].at + Lifetime <= now + RenewBefore
Due(h) == \A c \in Of(h) : certs[c].at + Lifetime <= now + RenewBefore

\* The names in the request; a device asks for those it has been set up with.
Requested(j) == IF j.mode = "local" THEN j.names ELSE None

Busy(w) == job[w] # None
At(h) == {w \in Workers : Busy(w) /\ job[w].host = h}

Init ==
  /\ now = 0
  /\ hosts = [h \in Hosts |-> None]
  /\ device = [h \in Hosts |-> [p \in Places |-> [cert |-> 0, key |-> 0]]]
  /\ keys = 0 /\ certs = <<>> /\ stored = {}
  /\ rows = {} /\ retired = {}
  /\ pc = [w \in Workers |-> "idle"]
  /\ job = [w \in Workers |-> None]
  /\ scan = {} /\ due = {}
  /\ cut = {}
  /\ faults = 0 /\ edits = 0
-----------------------------------------------------------------------------
\* Operators on the host table.  An update writes the attributes it names, so
\* it never undoes what a renewal wrote to the row; a renewal goes on with the
\* row as it loaded it.
CreateHost(h) ==
  /\ hosts[h] = None
  /\ \E row \in [enabled: BOOLEAN, mode: Modes, place: Places, names: NameSets,
                status: {"new"}] :
       hosts' = [hosts EXCEPT ![h] = row]
  /\ UNCHANGED <<now, world, record, pc, job, tick, cut, faults, edits>>

UpdateHost(h) ==
  /\ Present(h)
  /\ edits < MaxEdits
  /\ edits' = edits + 1
  /\ \/ hosts' = [hosts EXCEPT ![h].enabled = ~@] /\ cut' = cut
     \/ /\ \/ \E mode \in Modes \ {hosts[h].mode} :
                 hosts' = [hosts EXCEPT ![h].mode = mode]
           \/ \E place \in Places \ {hosts[h].place} :
                 hosts' = [hosts EXCEPT ![h].place = place]
           \/ \E names \in NameSets \ {hosts[h].names} :
                 hosts' = [hosts EXCEPT ![h].names = names]
        /\ cut' = cut \cup {h}
  /\ UNCHANGED <<now, world, record, pc, job, tick, faults>>

DeleteHost(h) ==
  /\ Present(h)
  /\ hosts' = [hosts EXCEPT ![h] = Deleted]
  /\ UNCHANGED <<now, world, record, pc, job, tick, cut, faults, edits>>

Retire(c) ==
  /\ edits < MaxEdits
  /\ edits' = edits + 1
  /\ retired' = IF c \in retired THEN retired \ {c} ELSE retired \cup {c}
  /\ UNCHANGED <<now, hosts, world, rows, pc, job, tick, cut, faults>>

Day ==
  /\ now < MaxDays
  /\ now' = now + 1
  /\ UNCHANGED <<table, world, record, pc, job, tick, cut, faults>>
-----------------------------------------------------------------------------
Room == Len(certs) + Cardinality({w \in Workers : Busy(w) /\ job[w].cert = 0})
          < MaxCerts

\* renew_and_deploy begins with the row e: in local mode build_host_csr makes a
\* key.
Begin(w, e) ==
  LET h == e.host
      alone == At(h) = {}
      new == [host |-> h, mode |-> e.mode, place |-> e.place, names |-> e.names,
              status |-> e.status,
              key |-> keys + 1, cert |-> 0, ok |-> FALSE, alone |-> alone]
  IN
  /\ Room
  /\ IF e.mode = "local"
     THEN /\ pc' = [pc EXCEPT ![w] = "issuing"]
          /\ keys' = keys + 1
     ELSE /\ pc' = [pc EXCEPT ![w] = "fetching"]
          /\ keys' = keys
  /\ job' = [v \in Workers |->
               IF v = w THEN new
               ELSE IF v \in At(h) THEN [job[v] EXCEPT !.alone = FALSE]
               ELSE job[v]]
  /\ cut' = IF alone THEN cut ELSE cut \cup {h}
  /\ UNCHANGED <<device, certs, stored>>

\* The renewal of worker w is over; the scheduler goes on with its tick.
Release(w) ==
  /\ pc' = [pc EXCEPT ![w] = IF w = Scheduler THEN "picking" ELSE "idle"]
  /\ job' = [job EXCEPT ![w] = None]

\* run_scheduler and renew_due_hosts.
StartTick ==
  /\ pc[Scheduler] = "idle"
  /\ pc' = [pc EXCEPT ![Scheduler] = "scanning"]
  /\ scan' = {Loaded(h) : h \in {g \in Hosts : Present(g) /\ hosts[g].enabled}}
  /\ UNCHANGED <<now, table, world, record, job, due, cut, faults>>

ScanHost(e) ==
  /\ pc[Scheduler] = "scanning"
  /\ scan' = scan \ {e}
  /\ due' = IF Due(e.host) THEN due \cup {e} ELSE due
  /\ UNCHANGED <<now, table, world, record, pc, job, cut, faults>>

EndScan ==
  /\ pc[Scheduler] = "scanning"
  /\ scan = {}
  /\ pc' = [pc EXCEPT ![Scheduler] = "picking"]
  /\ UNCHANGED <<now, table, world, record, job, tick, cut, faults>>

NextHost(e) ==
  /\ pc[Scheduler] = "picking"
  /\ due' = due \ {e}
  /\ Begin(Scheduler, e)
  /\ UNCHANGED <<now, table, record, scan, faults>>

EndTick ==
  /\ pc[Scheduler] = "picking"
  /\ due = {}
  /\ pc' = [pc EXCEPT ![Scheduler] = "idle"]
  /\ UNCHANGED <<now, table, world, record, job, tick, cut, faults>>

\* POST /api/hosts/{id}/renew: due, enabled or not.
RenewHost(w, h) ==
  /\ w \in Operators /\ pc[w] = "idle"
  /\ Present(h)
  /\ Begin(w, Loaded(h))
  /\ UNCHANGED <<now, table, record, tick, faults>>
-----------------------------------------------------------------------------
Step(w, from, to) == pc[w] = from /\ pc' = [pc EXCEPT ![w] = to]

\* The device makes the request, for the key it has or for a new one; or it has
\* the request in a file, made for a key that it does not use.
FetchCsr(w) ==
  LET h == job[w].host
      p == job[w].place
  IN
  /\ Step(w, "fetching", "issuing")
  /\ \/ \E key \in {device[h][p].key, keys + 1} \ {0} :
          /\ keys' = IF key > keys THEN key ELSE keys
          /\ device' = [device EXCEPT ![h][p].key = key]
          /\ job' = [job EXCEPT ![w].key = key]
          /\ cut' = cut
     \/ \E key \in 1 .. keys \ {device[h][p].key} :
          /\ job' = [job EXCEPT ![w].key = key, ![w].alone = FALSE]
          /\ cut' = cut \cup {h}
          /\ UNCHANGED <<device, keys>>
  /\ UNCHANGED <<now, table, certs, stored, record, tick, faults>>

Issue(w) ==
  /\ Step(w, "issuing", "installing")
  /\ certs' = Append(certs, [host |-> job[w].host, names |-> Requested(job[w]),
                             key |-> job[w].key, at |-> now, by |-> w])
  /\ job' = [job EXCEPT ![w].cert = Len(certs) + 1]
  /\ UNCHANGED <<now, table, device, keys, stored, record, tick, cut, faults>>

\* The local and ssh plugins write the chain first, then the key; cisco_ios
\* imports the two together.
WriteCert(w) ==
  /\ Step(w, "installing", IF job[w].mode = "local" THEN "keying" ELSE "reloading")
  /\ device' = [device EXCEPT ![job[w].host][job[w].place].cert = job[w].cert]
  /\ UNCHANGED <<now, table, keys, certs, stored, record, job, tick, cut, faults>>

WriteNoKey(w) ==   \* mutant: local mode installs the chain only
  /\ Step(w, "keying", "reloading")
  /\ UNCHANGED <<now, table, world, record, job, tick, cut, faults>>
WriteKey(w) ==
  /\ Step(w, "keying", "reloading")
  /\ device' = [device EXCEPT ![job[w].host][job[w].place].key = job[w].key]
  /\ UNCHANGED <<now, table, keys, certs, stored, record, job, tick, cut, faults>>

Reload(w) ==
  /\ Step(w, "reloading", "storing")
  /\ job' = [job EXCEPT ![w].ok = TRUE]
  /\ UNCHANGED <<now, table, world, record, tick, cut, faults>>

Fault(affected) ==
  /\ faults < MaxFaults
  /\ faults' = faults + 1
  /\ cut' = cut \cup affected

\* The plugin reports a failure: the certificate is recorded all the same.
DeployFails(w) ==
  /\ pc[w] \in {"installing", "keying", "reloading"}
  /\ Fault({job[w].host})
  /\ pc' = [pc EXCEPT ![w] = "storing"]
  /\ job' = [job EXCEPT ![w].alone = FALSE]
  /\ UNCHANGED <<now, table, world, record, tick>>

\* The device, the CA, the plugin or the store raises: nothing is recorded.
Raise(w) ==
  /\ pc[w] \in {"fetching", "issuing", "installing", "keying", "reloading", "storing"}
  /\ Fault({job[w].host})
  /\ Release(w)
  /\ UNCHANGED <<now, table, world, record, tick>>

StoreNoCert(w) ==   \* mutant: a failure of the store goes unnoticed
  /\ Step(w, "storing", "saving")
  /\ UNCHANGED <<now, table, world, record, job, tick, cut, faults>>
StoreCert(w) ==
  /\ Step(w, "storing", "saving")
  /\ stored' = stored \cup {job[w].cert}
  /\ UNCHANGED <<now, table, device, keys, certs, record, job, tick, cut, faults>>

\* One commit: the certificate's row and the host's status, which is not in the
\* UPDATE when it is the one that was loaded.  Two errors may read differently.
Outcome(j) == IF j.ok THEN "deployed" ELSE "error"

Save(w) ==
  LET j == job[w]
  IN
  /\ pc[w] = "saving"
  /\ Present(j.host)
  /\ rows' = rows \cup {j.cert}
  /\ \/ /\ ~j.ok \/ j.status # "deployed"
        /\ hosts' = [hosts EXCEPT ![j.host].status = Outcome(j)]
     \/ j.status = Outcome(j) /\ UNCHANGED hosts
  /\ cut' = IF j.alone /\ Unedited(j) THEN cut \ {j.host} ELSE cut \cup {j.host}
  /\ Release(w)
  /\ UNCHANGED <<now, edits, world, retired, tick, faults>>

\* The host's row is gone: the flush raises, the session is unusable, and reading
\* host.name to report it raises again, out of the loop over the due hosts.
SaveGoneRetried(w) ==   \* mutant: tried again and again
  /\ pc[w] = "saving"
  /\ ~Present(job[w].host)
  /\ UNCHANGED vars
SaveGone(w) ==
  /\ pc[w] = "saving"
  /\ ~Present(job[w].host)
  /\ pc' = [pc EXCEPT ![w] = "idle"]
  /\ job' = [job EXCEPT ![w] = None]
  /\ due' = IF w = Scheduler THEN {} ELSE due
  /\ UNCHANGED <<now, table, world, record, scan, cut, faults>>

\* The server stops and starts again; devices and tables stay.
Crash ==
  /\ Fault({h \in Hosts : At(h) # {}})
  /\ pc' = [w \in Workers |-> "idle"]
  /\ job' = [w \in Workers |-> None]
  /\ scan' = {} /\ due' = {}
  /\ UNCHANGED <<now, table, world, record>>
-----------------------------------------------------------------------------
\* Progress of a renewal.
Renew(w) ==
  \/ FetchCsr(w) \/ Issue(w) \/ WriteCert(w) \/ WriteKey(w) \/ Reload(w)
  \/ StoreCert(w) \/ Save(w) \/ SaveGone(w)

Loop == \/ StartTick \/ EndScan \/ EndTick
        \/ \E e \in scan : ScanHost(e)
        \/ \E e \in due : NextHost(e)

Next ==
  \/ \E h \in Hosts : CreateHost(h) \/ UpdateHost(h) \/ DeleteHost(h)
  \/ \E c \in rows : Retire(c)
  \/ \E w \in Operators, h \in Hosts : RenewHost(w, h)
  \/ \E w \in Workers : Renew(w) \/ DeployFails(w) \/ Raise(w)
  \/ Loop \/ Day \/ Crash

\* The event loop runs what can run, and the CA and the certificate store answer
\* or time out.  A device need not: the ssh plugin waits for the exit status of a
\* command, and for files, without a limit.
Fairness ==
  /\ WF_vars(Loop)
  /\ \A w \in Workers : WF_vars(Issue(w) \/ StoreCert(w) \/ Save(w) \/ SaveGone(w))

Spec == Init /\ [][Next]_vars /\ Fairness
-----------------------------------------------------------------------------
\* Tables, workers and the tick hold values of their types, a worker has a job
\* exactly while it renews, and only issued certificates are recorded.
TypeOK ==
  /\ now \in 0 .. MaxDays
  /\ hosts \in [Hosts -> Row \cup {None, Deleted}]
  /\ keys \in Nat
  /\ device \in [Hosts -> [Places -> [cert: 0 .. Len(certs), key: Nat]]]
  /\ certs \in Seq(Certificate)
  /\ stored \subseteq DOMAIN certs
  /\ retired \subseteq rows /\ rows \subseteq stored
  /\ pc \in [Workers -> PC]
  /\ job \in [Workers -> Job \cup {None}]
  /\ scan \subseteq Entry /\ due \subseteq Entry
  /\ cut \subseteq Hosts
  /\ \A w \in Workers : Busy(w) <=> pc[w] \notin {"idle", "scanning", "picking"}

\* What the tables say of a host is what its device has: when nobody is at work
\* on it, its last renewal was neither cut short, nor failed, nor overlapped by
\* another, and its row is still the one that renewal began with, then the place
\* the row names has the newest recorded certificate, for the row's names if the
\* key was made here, and the key that goes with it.
DeviceIsAsRecorded ==
  \A h \in Hosts :
    Present(h) /\ At(h) = {} /\ h \notin cut /\ Of(h) # {} =>
      LET at == device[h][hosts[h].place]
      IN  /\ at.cert \in Of(h) /\ \A d \in Of(h) : d <= at.cert
          /\ at.key = certs[at.cert].key
          /\ hosts[h].mode = "local" => certs[at.cert].names = hosts[h].names

\* The scheduler renews a host again only when the certificate it recorded for it
\* is about to expire, whatever operators renew, edit or retire meanwhile.
RenewedWhenDue ==
  \A c, d \in rows :
    c < d /\ certs[c].host = certs[d].host /\ {certs[c].by, certs[d].by} = {Scheduler}
      => certs[c].at + Lifetime <= certs[d].at + RenewBefore

\* A host that is due is renewed, unless it is disabled or deleted: no crash, no
\* failure and no other host's deletion keeps the scheduler from it for good, as
\* long as no device keeps the scheduler waiting for ever.
AtDevice(w) == pc[w] \in {"fetching", "installing", "keying", "reloading"}
Waiting(h) == Present(h) /\ hosts[h].enabled /\ Due(h) /\ Len(certs) < MaxCerts
DueIsServed ==
  ([]<>~AtDevice(Scheduler)) => \A h \in Hosts : Waiting(h) ~> ~Waiting(h)

\* scheduler.py:31: "one host failing must not stop the rest", by its silence.
ServedInAnyCase == \A h \in Hosts : Waiting(h) ~> ~Waiting(h)

\* A host is renewed as it is when its renewal begins, not as it was when the tick
\* began (hosts.py:79: "Issue a fresh certificate for ``host`` and deploy it").
RenewedAsEdited ==
  [][\A w \in Workers :
       ~Busy(w) /\ Busy(w)' /\ Present(job'[w].host) => Unedited(job'[w])]_job

\* hosts.py:79, renew_and_deploy: "Issue a fresh certificate for ``host`` and
\* deploy it, recording the outcome."
OutcomeRecorded ==
  [][\A w \in Workers :
       Busy(w) /\ pc[w] = "saving" /\ job[w].cert \in rows' =>
         hosts'[job[w].host].status = Outcome(job[w])]_<<rows, hosts>>

\* models.py:114: "retire a cert so it stops triggering expiry warnings /
\* auto-renewal".
RetiredStopsRenewal ==
  [][\A e \in due' \ due : Of(e.host) \subseteq retired => Of(e.host) = {}]_due

\* scheduler.py:31: "one host failing must not stop the rest".  A due host leaves
\* the tick only when its turn comes, or with a restart.
OthersStillServed ==
  [][faults' = faults =>
       \A e \in due \ due' : Busy(Scheduler)' /\ job'[Scheduler].host = e.host]_due
=============================================================================
