-------------------------- MODULE HostRenewalProofs --------------------------
(***************************************************************************)
(* What renewals guarantee for any number of hosts, operators, days,       *)
(* failures and restarts.                                                  *)
(***************************************************************************)
EXTENDS HostRenewal, TLAPS

\* A worker past the CA holds the certificate it was issued, for its host.
Holding == {"installing", "keying", "reloading", "storing", "saving"}
JobOK ==
  \A w \in Workers :
    Busy(w) /\ pc[w] \in Holding =>
      /\ job[w].cert \in DOMAIN certs
      /\ certs[job[w].cert].host = job[w].host
      /\ certs[job[w].cert].by = w
      /\ pc[w] = "saving" => job[w].cert \in stored

\* Where the scheduler is in its tick, which looks at each host once.
TickOK ==
  /\ pc[Scheduler] # "scanning" => scan = {}
  /\ pc[Scheduler] = "idle" => due = {}
  /\ \A e, f \in scan \cup due : e.host = f.host => e = f
  /\ Busy(Scheduler) => \A e \in due : e.host # job[Scheduler].host

\* The certificates the scheduler recorded for a host are about to expire.
Settled(h) ==
  \A c \in Of(h) :
    certs[c].by = Scheduler => certs[c].at + Lifetime <= now + RenewBefore

\* So they are for every host the tick is to renew or is renewing, and they were
\* when the certificate it holds was issued.
DueOK ==
  /\ \A e \in due : Settled(e.host)
  /\ Busy(Scheduler) => Settled(job[Scheduler].host)
  /\ Busy(Scheduler) /\ pc[Scheduler] \in Holding =>
       \A c \in Of(job[Scheduler].host) :
         certs[c].by = Scheduler =>
           /\ c < job[Scheduler].cert
           /\ certs[c].at + Lifetime <= certs[job[Scheduler].cert].at + RenewBefore

Inv == TypeOK /\ JobOK

\* The first state is typed.
LEMMA TypeInit == Init => Inv
<1> SUFFICES ASSUME Init PROVE Inv
  OBVIOUS
<1>1. TypeOK
  BY RenewalAssumption DEF Init, TypeOK, PC, Workers, Busy
<1>2. JobOK
  BY DEF Init, JobOK, Busy
<1> QED
  BY <1>1, <1>2 DEF Inv

\* An update of a job is a job.
LEMMA JobFields ==
  ASSUME NEW j \in Job
  PROVE  /\ \A n \in Nat : [j EXCEPT !.cert = n] \in Job /\ [j EXCEPT !.key = n] \in Job
         /\ \A b \in BOOLEAN : [j EXCEPT !.ok = b] \in Job /\ [j EXCEPT !.alone = b] \in Job
  BY DEF Job

\* What a worker in the middle of a renewal holds.
LEMMA Held ==
  ASSUME TypeOK, JobOK, NEW w \in Workers, pc[w] \notin {"idle", "scanning", "picking"}
  PROVE  /\ job[w] \in Job /\ job[w].host \in Hosts /\ job[w].key \in Nat
         /\ pc[w] \in Holding => job[w].cert \in 1 .. Len(certs)
<1>1. Busy(w)
  BY DEF TypeOK
<1>2. job[w] \in Job
  BY <1>1 DEF TypeOK, Busy
<1>3. job[w].host \in Hosts /\ job[w].key \in Nat
  BY <1>2 DEF Job
<1> QED
  BY <1>1, <1>2, <1>3 DEF TypeOK, JobOK

\* What the request of a device leaves: the renewal has a key, which the device
\* uses, or the renewal has left its mark.
LEMMA Fetched ==
  ASSUME TypeOK, NEW w \in Workers, FetchCsr(w), job[w] \in Job
  PROVE  /\ \A v \in Workers \ {w} : job'[v] = job[v] /\ pc'[v] = pc[v]
         /\ pc[w] = "fetching" /\ pc'[w] = "issuing"
         /\ job' \in [Workers -> Job \cup {None}] /\ job'[w] \in Job
         /\ job'[w].host = job[w].host /\ job'[w].place = job[w].place
         /\ job'[w].mode = job[w].mode /\ job'[w].cert = job[w].cert
         /\ device' \in [Hosts -> [Places -> [cert: 0 .. Len(certs), key: Nat]]]
         /\ keys' \in Nat /\ cut' \subseteq Hosts
         /\ \E key \in Nat :
              /\ job'[w].key = key
              /\ \/ /\ job'[w].alone = job[w].alone /\ cut' = cut
                    /\ device' = [device EXCEPT ![job[w].host][job[w].place].key = key]
                 \/ /\ ~job'[w].alone /\ cut' = cut \cup {job[w].host}
                    /\ UNCHANGED <<device, keys>>
<1> PICK h \in Hosts, p \in Places : h = job[w].host /\ p = job[w].place
  BY DEF Job
<1>1. device[h][p] \in [cert: 0 .. Len(certs), key: Nat] /\ keys \in Nat
  BY DEF TypeOK
<1>2. \/ \E key \in {device[h][p].key, keys + 1} \ {0} :
           /\ keys' = IF key > keys THEN key ELSE keys
           /\ device' = [device EXCEPT ![h][p].key = key]
           /\ job' = [job EXCEPT ![w].key = key]
           /\ cut' = cut
      \/ \E key \in 1 .. keys \ {device[h][p].key} :
           /\ job' = [job EXCEPT ![w].key = key, ![w].alone = FALSE]
           /\ cut' = cut \cup {h}
           /\ UNCHANGED <<device, keys>>
  BY DEF FetchCsr
<1>3. /\ \A v \in Workers \ {w} : pc'[v] = pc[v]
      /\ pc[w] = "fetching" /\ pc'[w] = "issuing"
  BY DEF FetchCsr, Step, TypeOK
<1>4. CASE \E key \in {device[h][p].key, keys + 1} \ {0} :
              /\ keys' = IF key > keys THEN key ELSE keys
              /\ device' = [device EXCEPT ![h][p].key = key]
              /\ job' = [job EXCEPT ![w].key = key]
              /\ cut' = cut
  <2>1. PICK key \in {device[h][p].key, keys + 1} \ {0} :
              /\ keys' = IF key > keys THEN key ELSE keys
              /\ device' = [device EXCEPT ![h][p].key = key]
              /\ job' = [job EXCEPT ![w].key = key]
              /\ cut' = cut
    BY <1>4
  <2>2. key \in Nat /\ keys' \in Nat
    BY <1>1, <2>1
  <2> DEFINE new == [job[w] EXCEPT !.key = key]
  <2>3. /\ new \in Job /\ new.host = h /\ new.place = p /\ new.key = key
        /\ new.mode = job[w].mode /\ new.cert = job[w].cert /\ new.alone = job[w].alone
    BY <2>2 DEF Job
  <2>4. job' = [job EXCEPT ![w] = new]
    BY <2>1
  <2> HIDE DEF new
  <2>5. /\ job' \in [Workers -> Job \cup {None}] /\ job'[w] = new
        /\ \A v \in Workers \ {w} : job'[v] = job[v]
    BY <2>3, <2>4 DEF TypeOK
  <2>6. /\ device' \in [Hosts -> [Places -> [cert: 0 .. Len(certs), key: Nat]]]
        /\ cut' \subseteq Hosts
    <3>1. [device[h][p] EXCEPT !.key = key] \in [cert: 0 .. Len(certs), key: Nat]
      BY <1>1, <2>2
    <3> QED
      BY <2>1, <3>1 DEF TypeOK
  <2> QED
    BY <1>3, <2>1, <2>2, <2>3, <2>5, <2>6
<1>5. CASE \E key \in 1 .. keys \ {device[h][p].key} :
              /\ job' = [job EXCEPT ![w].key = key, ![w].alone = FALSE]
              /\ cut' = cut \cup {h}
              /\ UNCHANGED <<device, keys>>
  <2>1. PICK key \in 1 .. keys \ {device[h][p].key} :
              /\ job' = [job EXCEPT ![w].key = key, ![w].alone = FALSE]
              /\ cut' = cut \cup {h}
              /\ UNCHANGED <<device, keys>>
    BY <1>5
  <2>2. key \in Nat
    BY <1>1, <2>1
  <2> DEFINE new == [job[w] EXCEPT !.key = key, !.alone = FALSE]
  <2>3. /\ new \in Job /\ new.host = h /\ new.place = p /\ new.key = key
        /\ new.mode = job[w].mode /\ new.cert = job[w].cert /\ ~new.alone
    BY <2>2 DEF Job
  <2>4. job' = [job EXCEPT ![w] = new]
    BY <2>1, Zenon
  <2> HIDE DEF new
  <2>5. /\ job' \in [Workers -> Job \cup {None}] /\ job'[w] = new
        /\ \A v \in Workers \ {w} : job'[v] = job[v]
    BY <2>3, <2>4 DEF TypeOK
  <2>6. /\ device' \in [Hosts -> [Places -> [cert: 0 .. Len(certs), key: Nat]]]
        /\ keys' \in Nat /\ cut' \subseteq Hosts
    BY <2>1 DEF TypeOK
  <2> QED
    BY <1>3, <2>1, <2>2, <2>3, <2>5, <2>6
<1> QED
  BY <1>2, <1>4, <1>5

\* A row that a session loads has the fields of one.
LEMMA LoadedType ==
  ASSUME TypeOK, NEW h \in Hosts, Present(h)
  PROVE  Loaded(h) \in Entry
<1>1. hosts[h] \in Row
  BY DEF TypeOK, Present
<1> QED
  BY <1>1 DEF Row, Loaded, Entry

\* A renewal that begins, by whomever, is a job of its worker.
LEMMA BeginType ==
  ASSUME TypeOK, NEW w \in Workers, NEW e \in Entry, ~Busy(w), Begin(w, e)
  PROVE  /\ job' \in [Workers -> Job \cup {None}]
         /\ pc' \in [Workers -> PC]
         /\ keys' \in Nat /\ cut' \subseteq Hosts
         /\ UNCHANGED <<device, certs, stored>>
         /\ \A v \in Workers : Busy(v)' <=> pc'[v] \notin {"idle", "scanning", "picking"}
<1> DEFINE h == e.host
           alone == At(h) = {}
           new == [host |-> h, mode |-> e.mode, place |-> e.place, names |-> e.names,
                   status |-> e.status,
                   key |-> keys + 1, cert |-> 0, ok |-> FALSE, alone |-> alone]
<1>1. new \in Job
  BY DEF Job, Entry, TypeOK
<1> HIDE DEF new
<1>2. job' = [v \in Workers |->
                IF v = w THEN new
                ELSE IF v \in At(h) THEN [job[v] EXCEPT !.alone = FALSE]
                ELSE job[v]]
  BY DEF Begin, new
<1>3. \A v \in At(h) : job[v] \in Job
  BY DEF At, Busy, TypeOK
<1>4. ASSUME NEW v \in Workers
      PROVE  /\ job'[v] \in Job \cup {None}
             /\ v # w => (Busy(v)' <=> Busy(v))
             /\ v = w => Busy(v)'
  <2>1. v \in At(h) => [job[v] EXCEPT !.alone = FALSE] \in Job /\ Busy(v)
    BY <1>3, JobFields DEF At
  <2>2. job'[v] = IF v = w THEN new
                  ELSE IF v \in At(h) THEN [job[v] EXCEPT !.alone = FALSE]
                  ELSE job[v]
    BY <1>2
  <2>3. CASE v = w
    BY <2>2, <2>3, <1>1, NoneAssumption DEF Busy
  <2>4. CASE v # w /\ v \in At(h)
    BY <2>1, <2>2, <2>4, NoneAssumption DEF Busy
  <2>5. CASE v # w /\ v \notin At(h)
    BY <2>2, <2>5 DEF Busy, TypeOK
  <2> QED
    BY <2>3, <2>4, <2>5
<1>5. job' \in [Workers -> Job \cup {None}]
  BY <1>2, <1>4
<1>6. /\ pc' \in [Workers -> PC]
      /\ \A v \in Workers \ {w} : pc'[v] = pc[v]
      /\ pc'[w] \in {"issuing", "fetching"}
  BY DEF Begin, PC, TypeOK
<1>7. \A v \in Workers : Busy(v)' <=> pc'[v] \notin {"idle", "scanning", "picking"}
  BY <1>4, <1>6 DEF TypeOK
<1>8. keys' \in Nat /\ cut' \subseteq Hosts /\ UNCHANGED <<device, certs, stored>>
  BY DEF Begin, Entry, TypeOK
<1> QED
  BY <1>5, <1>6, <1>7, <1>8

\* Every step keeps the types.
LEMMA TypeStep ==
  ASSUME TypeOK, JobOK, [Next]_vars
  PROVE  TypeOK'
<1> USE RenewalAssumption, NoneAssumption DEF TypeOK, JobOK, PC,
        Workers, Busy, Holding, Present
<1>1. ASSUME NEW h \in Hosts, CreateHost(h)
      PROVE  TypeOK'
  <2>1. PICK row \in Row : hosts' = [hosts EXCEPT ![h] = row]
    BY <1>1 DEF CreateHost, Row, Statuses
  <2> QED
    BY <1>1, <2>1 DEF CreateHost, world, record, tick
<1>2. ASSUME NEW h \in Hosts, UpdateHost(h)
      PROVE  TypeOK'
  <2>1. hosts[h] \in Row
    BY <1>2 DEF UpdateHost
  <2>2. /\ [hosts[h] EXCEPT !.enabled = ~hosts[h].enabled] \in Row
        /\ \A mode \in Modes : [hosts[h] EXCEPT !.mode = mode] \in Row
        /\ \A place \in Places : [hosts[h] EXCEPT !.place = place] \in Row
        /\ \A names \in NameSets : [hosts[h] EXCEPT !.names = names] \in Row
    BY <2>1 DEF Row
  <2>3. PICK row \in Row : hosts' = [hosts EXCEPT ![h] = row]
    BY <1>2, <2>2 DEF UpdateHost
  <2> QED
    BY <1>2, <2>3 DEF UpdateHost, world, record, tick
<1>3. ASSUME NEW h \in Hosts, DeleteHost(h)
      PROVE  TypeOK'
  BY <1>3 DEF DeleteHost, table, world, record, tick
<1>4. ASSUME NEW c \in rows, Retire(c)
      PROVE  TypeOK'
  BY <1>4 DEF Retire, table, world, record, tick
<1>5. ASSUME NEW w \in Operators, NEW h \in Hosts, RenewHost(w, h)
      PROVE  TypeOK'
  <2>1. /\ w \in Workers /\ ~Busy(w) /\ Loaded(h) \in Entry
        /\ Begin(w, Loaded(h))
    BY <1>5, LoadedType DEF RenewHost
  <2> QED
    BY <1>5, <2>1, BeginType DEF RenewHost, table, record, tick
<1>6. ASSUME NEW w \in Workers, FetchCsr(w)
      PROVE  TypeOK'
  <2>0. pc[w] \notin {"idle", "scanning", "picking"}
    BY <1>6 DEF FetchCsr, Step
  <2>1. /\ job[w] \in Job /\ job[w].host \in Hosts /\ job[w].key \in Nat
        /\ pc[w] \in Holding => job[w].cert \in 1 .. Len(certs)
    BY <2>0, Held

  <2>3. /\ job' \in [Workers -> Job \cup {None}] /\ Busy(w)' /\ pc'[w] = "issuing"
        /\ \A v \in Workers \ {w} : job'[v] = job[v] /\ pc'[v] = pc[v]
        /\ pc[w] = "fetching"
    BY <1>6, <2>1, Fetched
  <2>4. /\ device' \in [Hosts -> [Places -> [cert: 0 .. Len(certs), key: Nat]]]
        /\ keys' \in Nat /\ cut' \subseteq Hosts
    BY <1>6, <2>1, Fetched
  <2> QED
    BY <1>6, <2>3, <2>4 DEF FetchCsr, Step, table, record, tick
<1>7. ASSUME NEW w \in Workers, Issue(w)
      PROVE  TypeOK'
  <2>0. pc[w] \notin {"idle", "scanning", "picking"}
    BY <1>7 DEF Issue, Step
  <2>1. /\ job[w] \in Job /\ job[w].host \in Hosts /\ job[w].key \in Nat
        /\ pc[w] \in Holding => job[w].cert \in 1 .. Len(certs)
    BY <2>0, Held

  <2> DEFINE c == [host |-> job[w].host, names |-> Requested(job[w]),
                   key |-> job[w].key, at |-> now, by |-> w]
  <2>2. c \in Certificate
    BY <2>1 DEF Certificate, Requested, Job
  <2>3. certs' = Append(certs, c)
    BY <1>7 DEF Issue
  <2> HIDE DEF c
  <2>4. certs' \in Seq(Certificate) /\ Len(certs') = Len(certs) + 1
    BY <2>2, <2>3
  <2>5. job' \in [Workers -> Job \cup {None}] /\ Busy(w)'
    <3>1. Len(certs) + 1 \in Nat
      OBVIOUS
    <3>2. [job[w] EXCEPT !.cert = Len(certs) + 1] \in Job
      BY <2>1, <3>1, JobFields
    <3> QED
      BY <1>7, <3>2 DEF Issue
  <2>6. /\ device' \in [Hosts -> [Places -> [cert: 0 .. Len(certs'), key: Nat]]]
        /\ stored' \subseteq DOMAIN certs'
    <3>1. \A h \in Hosts, p \in Places : device[h][p] \in [cert: 0 .. Len(certs'), key: Nat]
      BY <2>4
    <3> QED
      BY <1>7, <2>4, <3>1 DEF Issue
  <2> QED
    BY <1>7, <2>1, <2>4, <2>5, <2>6 DEF Issue, Step, table, record, tick
<1>8. ASSUME NEW w \in Workers, WriteCert(w)
      PROVE  TypeOK'
  <2>0. pc[w] \notin {"idle", "scanning", "picking"}
    BY <1>8 DEF WriteCert, Step
  <2>1. /\ job[w] \in Job /\ job[w].host \in Hosts /\ job[w].key \in Nat
        /\ pc[w] \in Holding => job[w].cert \in 1 .. Len(certs)
    BY <2>0, Held

  <2>2. /\ job[w].place \in Places
        /\ device[job[w].host][job[w].place] \in [cert: 0 .. Len(certs), key: Nat]
    BY <2>1 DEF Job
  <2>3. job[w].cert \in 0 .. Len(certs)
    BY <1>8, <2>1 DEF WriteCert, Step
  <2>4. [device[job[w].host][job[w].place] EXCEPT !.cert = job[w].cert]
          \in [cert: 0 .. Len(certs), key: Nat]
    BY <2>1, <2>2, <2>3
  <2>5. device' \in [Hosts -> [Places -> [cert: 0 .. Len(certs), key: Nat]]]
    BY <1>8, <2>1, <2>2, <2>4 DEF WriteCert
  <2> QED
    BY <1>8, <2>1, <2>5 DEF WriteCert, Step, table, record, tick
<1>9. ASSUME NEW w \in Workers, WriteKey(w)
      PROVE  TypeOK'
  <2>0. pc[w] \notin {"idle", "scanning", "picking"}
    BY <1>9 DEF WriteKey, Step
  <2>1. /\ job[w] \in Job /\ job[w].host \in Hosts /\ job[w].key \in Nat
        /\ pc[w] \in Holding => job[w].cert \in 1 .. Len(certs)
    BY <2>0, Held

  <2>2. /\ job[w].place \in Places
        /\ device[job[w].host][job[w].place] \in [cert: 0 .. Len(certs), key: Nat]
    BY <2>1 DEF Job
  <2>3. job[w].cert \in 0 .. Len(certs)
    BY <1>9, <2>1 DEF WriteKey, Step
  <2>4. [device[job[w].host][job[w].place] EXCEPT !.key = job[w].key]
          \in [cert: 0 .. Len(certs), key: Nat]
    BY <2>1, <2>2, <2>3
  <2>5. device' \in [Hosts -> [Places -> [cert: 0 .. Len(certs), key: Nat]]]
    BY <1>9, <2>1, <2>2, <2>4 DEF WriteKey
  <2> QED
    BY <1>9, <2>1, <2>5 DEF WriteKey, Step, table, record, tick
<1>10. ASSUME NEW w \in Workers, Reload(w)
      PROVE  TypeOK'
  <2>0. pc[w] \notin {"idle", "scanning", "picking"}
    BY <1>10 DEF Reload, Step
  <2>1. /\ job[w] \in Job /\ job[w].host \in Hosts /\ job[w].key \in Nat
        /\ pc[w] \in Holding => job[w].cert \in 1 .. Len(certs)
    BY <2>0, Held

  <2>2. job' \in [Workers -> Job \cup {None}] /\ Busy(w)'
    BY <1>10, <2>1, JobFields, ZenonT(40) DEF Reload
  <2> QED
    BY <1>10, <2>1, <2>2 DEF Reload, Step, world, table, record, tick
<1>11. ASSUME NEW w \in Workers, StoreCert(w)
      PROVE  TypeOK'
  BY <1>11 DEF StoreCert, table, world, record, tick, Step
<1>12. ASSUME NEW w \in Workers, Save(w)
      PROVE  TypeOK'
  <2>0. pc[w] \notin {"idle", "scanning", "picking"}
    BY <1>12 DEF Save
  <2>1. /\ job[w] \in Job /\ job[w].host \in Hosts /\ job[w].key \in Nat
        /\ pc[w] \in Holding => job[w].cert \in 1 .. Len(certs)
    BY <2>0, Held

  <2>2. hosts[job[w].host] \in Row
    BY <1>12, <2>1 DEF Save
  <2>3. \A s \in {"deployed", "error"} : [hosts[job[w].host] EXCEPT !.status = s] \in Row
    BY <2>2 DEF Row, Statuses
  <2>4. PICK row \in Row : hosts' = [hosts EXCEPT ![job[w].host] = row]
    <3>1. CASE UNCHANGED hosts
      BY <2>1, <2>2, <3>1
    <3>2. CASE hosts' = [hosts EXCEPT ![job[w].host].status = Outcome(job[w])]
      BY <2>3, <3>2 DEF Outcome
    <3> QED
      BY <1>12, <3>1, <3>2 DEF Save
  <2>5. job[w].cert \in stored
    BY <1>12, <2>1 DEF Save
  <2> QED
    BY <1>12, <2>1, <2>4, <2>5 DEF Save, Release, world, tick
<1>13. ASSUME NEW w \in Workers, SaveGone(w)
      PROVE  TypeOK'
  BY <1>13 DEF SaveGone, table, world, record, tick
<1>14. ASSUME NEW w \in Workers, DeployFails(w)
      PROVE  TypeOK'
  <2>0. pc[w] \notin {"idle", "scanning", "picking"}
    BY <1>14 DEF DeployFails
  <2>1. /\ job[w] \in Job /\ job[w].host \in Hosts /\ job[w].key \in Nat
        /\ pc[w] \in Holding => job[w].cert \in 1 .. Len(certs)
    BY <2>0, Held

  <2>2. job' \in [Workers -> Job \cup {None}] /\ Busy(w)'
    BY <1>14, <2>1, JobFields, ZenonT(40) DEF DeployFails
  <2> QED
    BY <1>14, <2>1, <2>2 DEF DeployFails, Fault, world, table, record, tick
<1>15. ASSUME NEW w \in Workers, Raise(w)
      PROVE  TypeOK'
  <2>0. pc[w] \notin {"idle", "scanning", "picking"}
    BY <1>15 DEF Raise
  <2>1. /\ job[w] \in Job /\ job[w].host \in Hosts /\ job[w].key \in Nat
        /\ pc[w] \in Holding => job[w].cert \in 1 .. Len(certs)
    BY <2>0, Held

  <2> QED
    BY <1>15, <2>1 DEF Raise, Fault, Release, world, table, record, tick
<1>16. CASE StartTick
  <2>1. scan' \subseteq Entry
    <3> SUFFICES ASSUME NEW e \in scan' PROVE e \in Entry
      OBVIOUS
    <3>1. PICK h \in Hosts : e = Loaded(h) /\ Present(h)
      BY <1>16 DEF StartTick
    <3> QED
      BY <3>1, LoadedType
  <2> QED
    BY <1>16, <2>1 DEF StartTick, world, table, record
<1>17. CASE EndScan
  BY <1>17 DEF EndScan, table, world, record, tick
<1>18. CASE EndTick
  BY <1>18 DEF EndTick, table, world, record, tick
<1>19. ASSUME NEW e \in scan, ScanHost(e)
      PROVE  TypeOK'
  BY <1>19 DEF ScanHost, table, world, record, tick
<1>20. ASSUME NEW e \in due, NextHost(e)
      PROVE  TypeOK'
  <2>1. /\ Scheduler \in Workers /\ ~Busy(Scheduler) /\ e.host \in Hosts
        /\ e \in Entry /\ Begin(Scheduler, e)
    BY <1>20 DEF NextHost, Entry
  <2> QED
    BY <1>20, <2>1, BeginType DEF NextHost, table, record, tick
<1>21. CASE Day
  BY <1>21 DEF Day, table, world, record, tick
<1>22. CASE Crash
  BY <1>22 DEF Crash, table, world, record, tick, Fault
<1>23. CASE UNCHANGED vars
  BY <1>23 DEF vars, table, world, record, tick
<1> QED
  BY <1>1, <1>2, <1>3, <1>4, <1>5, <1>6, <1>7, <1>8, <1>9, <1>10, <1>11,
     <1>12, <1>13, <1>14, <1>15, <1>16, <1>17, <1>18, <1>19, <1>20, <1>21,
     <1>22, <1>23 DEF Next, Renew, Loop

\* A worker keeps the certificate it was issued until it is done with it.
LEMMA JobStep ==
  ASSUME TypeOK, JobOK, [Next]_vars
  PROVE  JobOK'
<1> USE RenewalAssumption, NoneAssumption DEF TypeOK, JobOK, PC,
        Workers, Busy, Holding, Present, Row
<1>1. ASSUME NEW h \in Hosts, CreateHost(h)
      PROVE  JobOK'
  BY <1>1 DEF CreateHost, table, world, record, tick
<1>2. ASSUME NEW h \in Hosts, UpdateHost(h)
      PROVE  JobOK'
  BY <1>2 DEF UpdateHost, table, world, record, tick
<1>3. ASSUME NEW h \in Hosts, DeleteHost(h)
      PROVE  JobOK'
  BY <1>3 DEF DeleteHost, table, world, record, tick
<1>4. ASSUME NEW c \in rows, Retire(c)
      PROVE  JobOK'
  BY <1>4 DEF Retire, table, world, record, tick
<1>5. ASSUME NEW w \in Operators, NEW h \in Hosts, RenewHost(w, h)
      PROVE  JobOK'
  BY <1>5 DEF RenewHost, table, world, record, tick, Begin
<1>6. ASSUME NEW w \in Workers, FetchCsr(w)
      PROVE  JobOK'
  <2>1. job[w] \in Job
    BY <1>6, Held DEF FetchCsr, Step
  <2>2. /\ \A v \in Workers \ {w} : job'[v] = job[v] /\ pc'[v] = pc[v]
        /\ pc'[w] \notin Holding
    BY <1>6, <2>1, Fetched DEF Holding
  <2> QED
    BY <1>6, <2>2 DEF FetchCsr
<1>7. ASSUME NEW w \in Workers, Issue(w)
      PROVE  JobOK'
  BY <1>7 DEF Issue, table, world, record, tick, Step
<1>8. ASSUME NEW w \in Workers, WriteCert(w)
      PROVE  JobOK'
  BY <1>8 DEF WriteCert, table, world, record, tick, Step
<1>9. ASSUME NEW w \in Workers, WriteKey(w)
      PROVE  JobOK'
  BY <1>9 DEF WriteKey, table, world, record, tick, Step
<1>10. ASSUME NEW w \in Workers, Reload(w)
      PROVE  JobOK'
  BY <1>10 DEF Reload, table, world, record, tick, Step
<1>11. ASSUME NEW w \in Workers, StoreCert(w)
      PROVE  JobOK'
  BY <1>11 DEF StoreCert, table, world, record, tick, Step
<1>12. ASSUME NEW w \in Workers, Save(w)
      PROVE  JobOK'
  BY <1>12 DEF Save, table, world, record, tick, Release
<1>13. ASSUME NEW w \in Workers, SaveGone(w)
      PROVE  JobOK'
  BY <1>13 DEF SaveGone, table, world, record, tick
<1>14. ASSUME NEW w \in Workers, DeployFails(w)
      PROVE  JobOK'
  BY <1>14 DEF DeployFails, table, world, record, tick, Fault
<1>15. ASSUME NEW w \in Workers, Raise(w)
      PROVE  JobOK'
  BY <1>15 DEF Raise, table, world, record, tick, Fault, Release
<1>16. CASE StartTick
  BY <1>16 DEF StartTick, table, world, record, tick
<1>17. CASE EndScan
  BY <1>17 DEF EndScan, table, world, record, tick
<1>18. CASE EndTick
  BY <1>18 DEF EndTick, table, world, record, tick
<1>19. ASSUME NEW e \in scan, ScanHost(e)
      PROVE  JobOK'
  BY <1>19 DEF ScanHost, table, world, record, tick
<1>20. ASSUME NEW e \in due, NextHost(e)
      PROVE  JobOK'
  BY <1>20 DEF NextHost, table, world, record, tick, Begin
<1>21. CASE Day
  BY <1>21 DEF Day, table, world, record, tick
<1>22. CASE Crash
  BY <1>22 DEF Crash, table, world, record, tick, Fault
<1>23. CASE UNCHANGED vars
  BY <1>23 DEF vars, table, world, record, tick
<1> QED
  BY <1>1, <1>2, <1>3, <1>4, <1>5, <1>6, <1>7, <1>8, <1>9, <1>10, <1>11,
     <1>12, <1>13, <1>14, <1>15, <1>16, <1>17, <1>18, <1>19, <1>20, <1>21,
     <1>22, <1>23 DEF Next, Renew, Loop

\* A renewal that begins leaves the jobs of the others, but for their being alone.
LEMMA BeginOthers ==
  ASSUME TypeOK, NEW w \in Workers, NEW e \in Entry, Begin(w, e)
  PROVE  /\ \A v \in Workers \ {w} :
              /\ pc'[v] = pc[v]
              /\ Busy(v) => job'[v].host = job[v].host /\ job'[v].cert = job[v].cert
              /\ Busy(v)' <=> Busy(v)
         /\ job'[w].host = e.host /\ pc'[w] \notin Holding
<1> DEFINE h == e.host
<1>1. ASSUME NEW v \in Workers \ {w}
      PROVE  /\ Busy(v) => job'[v].host = job[v].host /\ job'[v].cert = job[v].cert
             /\ Busy(v)' <=> Busy(v)
  <2>1. job'[v] = IF v \in At(h) THEN [job[v] EXCEPT !.alone = FALSE] ELSE job[v]
    BY DEF Begin
  <2>2. CASE v \in At(h)
    <3>1. job[v] \in Job /\ Busy(v)
      BY <2>2 DEF At, Busy, TypeOK
    <3>2. /\ [job[v] EXCEPT !.alone = FALSE].host = job[v].host
          /\ [job[v] EXCEPT !.alone = FALSE].cert = job[v].cert
          /\ [job[v] EXCEPT !.alone = FALSE] \in Job
      BY <3>1, JobFields DEF Job
    <3> QED
      BY <2>1, <2>2, <3>1, <3>2, NoneAssumption DEF Busy
  <2>3. CASE v \notin At(h)
    BY <2>1, <2>3 DEF Busy
  <2> QED
    BY <2>2, <2>3
<1>2. job'[w].host = h
  BY DEF Begin
<1>3. pc'[w] \notin Holding /\ \A v \in Workers \ {w} : pc'[v] = pc[v]
  BY DEF Begin, Holding, TypeOK
<1> QED
  BY <1>1, <1>2, <1>3

\* A tick looks at a host once, then renews it once.
LEMMA TickStep ==
  ASSUME TypeOK, JobOK, TickOK, [Next]_vars
  PROVE  TickOK'
<1> USE RenewalAssumption, NoneAssumption DEF TypeOK, TickOK, PC,
        Workers, Busy, Entry
<1>1. ASSUME NEW h \in Hosts, CreateHost(h)
      PROVE  TickOK'
  BY <1>1 DEF CreateHost, table, world, record, tick
<1>2. ASSUME NEW h \in Hosts, UpdateHost(h)
      PROVE  TickOK'
  BY <1>2 DEF UpdateHost, table, world, record, tick
<1>3. ASSUME NEW h \in Hosts, DeleteHost(h)
      PROVE  TickOK'
  BY <1>3 DEF DeleteHost, table, world, record, tick
<1>4. ASSUME NEW c \in rows, Retire(c)
      PROVE  TickOK'
  BY <1>4 DEF Retire, table, world, record, tick
<1>5. ASSUME NEW w \in Operators, NEW h \in Hosts, RenewHost(w, h)
      PROVE  TickOK'
  <2>1. w \in Workers /\ w # Scheduler
    BY <1>5
  <2> PICK e \in Entry : Begin(w, e)
    BY <1>5, LoadedType DEF RenewHost
  <2>2. \A v \in Workers \ {w} :
          /\ pc'[v] = pc[v]
          /\ Busy(v) => job'[v].host = job[v].host
          /\ Busy(v)' <=> Busy(v)
    BY <2>1, BeginOthers
  <2> QED
    BY <1>5, <2>1, <2>2 DEF RenewHost, table, record, tick
<1>6. ASSUME NEW w \in Workers, FetchCsr(w)
      PROVE  TickOK'
  <2>1. job[w] \in Job
    BY <1>6, Held DEF FetchCsr, Step
  <2>2. /\ \A v \in Workers \ {w} : job'[v] = job[v] /\ pc'[v] = pc[v]
        /\ pc[w] = "fetching" /\ pc'[w] = "issuing" /\ job'[w].host = job[w].host
    BY <1>6, <2>1, Fetched
  <2> QED
    BY <1>6, <2>1, <2>2 DEF FetchCsr, tick
<1>7. ASSUME NEW w \in Workers, Issue(w)
      PROVE  TickOK'
  BY <1>7 DEF Issue, table, world, record, tick, Step
<1>8. ASSUME NEW w \in Workers, WriteCert(w)
      PROVE  TickOK'
  BY <1>8 DEF WriteCert, table, world, record, tick, Step
<1>9. ASSUME NEW w \in Workers, WriteKey(w)
      PROVE  TickOK'
  BY <1>9 DEF WriteKey, table, world, record, tick, Step
<1>10. ASSUME NEW w \in Workers, Reload(w)
      PROVE  TickOK'
  BY <1>10 DEF Reload, table, world, record, tick, Step
<1>11. ASSUME NEW w \in Workers, StoreCert(w)
      PROVE  TickOK'
  BY <1>11 DEF StoreCert, table, world, record, tick, Step
<1>12. ASSUME NEW w \in Workers, Save(w)
      PROVE  TickOK'
  BY <1>12 DEF Save, table, world, record, tick, Release
<1>13. ASSUME NEW w \in Workers, SaveGone(w)
      PROVE  TickOK'
  BY <1>13 DEF SaveGone, table, world, record, tick
<1>14. ASSUME NEW w \in Workers, DeployFails(w)
      PROVE  TickOK'
  BY <1>14 DEF DeployFails, table, world, record, tick, Fault
<1>15. ASSUME NEW w \in Workers, Raise(w)
      PROVE  TickOK'
  BY <1>15 DEF Raise, table, world, record, tick, Fault, Release
<1>16. CASE StartTick
  <2>1. \A e, f \in scan' : e.host = f.host => e = f
    BY <1>16 DEF StartTick, Loaded
  <2> QED
    BY <1>16, <2>1 DEF StartTick, table, world, record, tick
<1>17. CASE EndScan
  BY <1>17 DEF EndScan, table, world, record, tick
<1>18. CASE EndTick
  BY <1>18 DEF EndTick, table, world, record, tick
<1>19. ASSUME NEW e \in scan, ScanHost(e)
      PROVE  TickOK'
  BY <1>19 DEF ScanHost, table, world, record, tick
<1>20. ASSUME NEW e \in due, NextHost(e)
      PROVE  TickOK'
  BY <1>20 DEF NextHost, table, world, record, tick, Begin
<1>21. CASE Day
  BY <1>21 DEF Day, table, world, record, tick
<1>22. CASE Crash
  BY <1>22 DEF Crash, table, world, record, tick, Fault
<1>23. CASE UNCHANGED vars
  BY <1>23 DEF vars, table, world, record, tick
<1> QED
  BY <1>1, <1>2, <1>3, <1>4, <1>5, <1>6, <1>7, <1>8, <1>9, <1>10, <1>11,
     <1>12, <1>13, <1>14, <1>15, <1>16, <1>17, <1>18, <1>19, <1>20, <1>21,
     <1>22, <1>23 DEF Next, Renew, Loop

\* Recorded certificates are issued ones, with a date.
LEMMA Recorded ==
  ASSUME TypeOK
  PROVE  \A c \in rows : c \in 1 .. Len(certs) /\ certs[c].at \in Nat
<1> SUFFICES ASSUME NEW c \in rows PROVE c \in 1 .. Len(certs) /\ certs[c].at \in Nat
  OBVIOUS
<1>1. c \in DOMAIN certs /\ certs[c] \in Certificate
  BY DEF TypeOK
<1> QED
  BY <1>1 DEF Certificate, TypeOK

\* What is due does not depend on what workers other than the scheduler do
\* between issuing and recording.
LEMMA DueFrame ==
  ASSUME DueOK, RenewedWhenDue, UNCHANGED <<now, certs, rows, due>>,
         Busy(Scheduler)' => Busy(Scheduler),
         Busy(Scheduler)' => job'[Scheduler].host = job[Scheduler].host,
         Busy(Scheduler)' /\ pc'[Scheduler] \in Holding =>
           pc[Scheduler] \in Holding /\ job'[Scheduler].cert = job[Scheduler].cert
  PROVE  DueOK' /\ RenewedWhenDue'
<1>1. RenewedWhenDue'
  BY DEF RenewedWhenDue
<1>2. \A h : Settled(h)' <=> Settled(h)
  BY DEF Settled, Of
<1>3. \A h : Of(h)' = Of(h)
  BY DEF Of
<1> HIDE DEF Settled, Of
<1> QED
  BY <1>1, <1>2, <1>3 DEF DueOK

\* No host gets into a tick, or stays in it, with a fresh certificate of the
\* scheduler's.
LEMMA DueStep ==
  ASSUME TypeOK, JobOK, TickOK, DueOK, RenewedWhenDue, [Next]_vars
  PROVE  DueOK' /\ RenewedWhenDue'
<1>1. ASSUME NEW h \in Hosts, CreateHost(h)
      PROVE  DueOK' /\ RenewedWhenDue'
  BY <1>1, DueFrame DEF CreateHost, Busy, TypeOK, Workers, Holding, world, table, record, tick
<1>2. ASSUME NEW h \in Hosts, UpdateHost(h)
      PROVE  DueOK' /\ RenewedWhenDue'
  BY <1>2, DueFrame DEF UpdateHost, Busy, TypeOK, Workers, Holding, world, table, record, tick
<1>3. ASSUME NEW h \in Hosts, DeleteHost(h)
      PROVE  DueOK' /\ RenewedWhenDue'
  BY <1>3, DueFrame DEF DeleteHost, Busy, TypeOK, Workers, Holding, world, table, record, tick
<1>4. ASSUME NEW c \in rows, Retire(c)
      PROVE  DueOK' /\ RenewedWhenDue'
  BY <1>4, DueFrame DEF Retire, Busy, TypeOK, Workers, Holding, world, table, record, tick
<1>5. ASSUME NEW w \in Operators, NEW h \in Hosts, RenewHost(w, h)
      PROVE  DueOK' /\ RenewedWhenDue'
  <2>1. /\ w \in Workers /\ w # Scheduler /\ Loaded(h) \in Entry
        /\ Begin(w, Loaded(h))
    BY <1>5, LoadedType, RenewalAssumption DEF RenewHost, Workers
  <2>2. /\ pc'[Scheduler] = pc[Scheduler]
        /\ Busy(Scheduler)' <=> Busy(Scheduler)
        /\ Busy(Scheduler) => /\ job'[Scheduler].host = job[Scheduler].host
                              /\ job'[Scheduler].cert = job[Scheduler].cert
    BY <2>1, BeginOthers DEF Workers
  <2>3. UNCHANGED <<now, certs, rows, due>>
    BY <1>5, <2>1 DEF RenewHost, Begin, record, tick
  <2> QED
    BY <2>2, <2>3, DueFrame
<1>6. ASSUME NEW w \in Workers, FetchCsr(w)
      PROVE  DueOK' /\ RenewedWhenDue'
  <2>1. pc[w] \notin {"idle", "scanning", "picking"}
    BY <1>6 DEF FetchCsr, Step
  <2>2. job[w] \in Job
    BY <2>1, Held
  <2>3. /\ job'[w].host = job[w].host
        /\ pc'[w] \in Holding => pc[w] \in Holding /\ job'[w].cert = job[w].cert
        /\ \A v \in Workers \ {w} : job'[v] = job[v] /\ pc'[v] = pc[v]
    BY <1>6, <2>2, Fetched DEF Holding
  <2>4. Busy(w)
    BY <2>2, NoneAssumption DEF Busy
  <2> QED
    BY <1>6, <2>3, <2>4, DueFrame DEF FetchCsr, Busy, Workers, world, table, record, tick
<1>7. ASSUME NEW w \in Workers, Issue(w)
      PROVE  DueOK' /\ RenewedWhenDue'
  <2>1. /\ Len(certs') = Len(certs) + 1
        /\ \A c \in 1 .. Len(certs) : certs'[c] = certs[c]
        /\ certs'[Len(certs) + 1].at = now
    BY <1>7 DEF Issue, TypeOK
  <2>0. UNCHANGED <<now, rows>> /\ \A c \in rows : certs'[c] = certs[c]
    BY <1>7, <2>1, Recorded DEF Issue, record
  <2>2. \A h : Of(h)' = Of(h) /\ (Settled(h)' <=> Settled(h))
    BY <2>0 DEF Of, Settled
  <2>3. RenewedWhenDue'
    BY <2>0 DEF RenewedWhenDue
  <2>4. pc[w] = "issuing" /\ Busy(w) /\ job[w] \in Job
    BY <1>7 DEF Issue, Step, TypeOK, Busy
  <2>5. /\ job'[w].host = job[w].host /\ job'[w].cert = Len(certs) + 1
        /\ \A v \in Workers \ {w} : job'[v] = job[v] /\ pc'[v] = pc[v]
    BY <1>7, <2>4 DEF Issue, Step, Job, TypeOK
  <2>6. CASE w = Scheduler
    <3>1. \A c \in Of(job[w].host)' :
            certs'[c].by = Scheduler =>
              /\ c < Len(certs) + 1
              /\ certs'[c].at + Lifetime <= now + RenewBefore
      <4> SUFFICES ASSUME NEW c \in Of(job[w].host), certs[c].by = Scheduler
                   PROVE  /\ c < Len(certs) + 1
                          /\ certs[c].at + Lifetime <= now + RenewBefore
        BY <2>0, <2>5 DEF Of
      <4>1. c \in 1 .. Len(certs)
        BY Recorded DEF Of
      <4>2. certs[c].at + Lifetime <= now + RenewBefore
        BY <2>4, <2>6 DEF DueOK, Settled
      <4> QED
        BY <4>1, <4>2
    <3> QED
      BY <1>7, <2>1, <2>2, <2>3, <2>4, <2>5, <2>6, <3>1, ZenonT(40) DEF DueOK, Issue, tick
  <2>7. CASE w # Scheduler
    <3>1. /\ job'[Scheduler] = job[Scheduler] /\ pc'[Scheduler] = pc[Scheduler]
          /\ Busy(Scheduler)' <=> Busy(Scheduler)
      BY <2>5, <2>7 DEF Workers, Busy
    <3>2. Busy(Scheduler) /\ pc[Scheduler] \in Holding =>
            certs'[job[Scheduler].cert] = certs[job[Scheduler].cert]
      BY <2>1, SMTT(20) DEF JobOK, Workers, TypeOK
    <3>3. \A h : \A c \in Of(h) : certs'[c] = certs[c]
      BY <2>1, Recorded DEF Of
    <3> HIDE DEF Settled, Of
    <3> QED
      BY <1>7, <2>2, <2>3, <3>1, <3>2, <3>3 DEF DueOK, Issue, tick
  <2> QED
    BY <2>6, <2>7
<1>8. ASSUME NEW w \in Workers, WriteCert(w)
      PROVE  DueOK' /\ RenewedWhenDue'
  <2>1. pc[w] \notin {"idle", "scanning", "picking"}
    BY <1>8 DEF WriteCert, Step
  <2>2. job[w] \in Job
    BY <2>1, Held
  <2>3. /\ job'[w].host = job[w].host
        /\ pc'[w] \in Holding => pc[w] \in Holding /\ job'[w].cert = job[w].cert
        /\ \A v \in Workers \ {w} : job'[v] = job[v] /\ pc'[v] = pc[v]
    BY <1>8, <2>2 DEF WriteCert, Step, Job, TypeOK, Holding
  <2>4. Busy(w)
    BY <2>2, NoneAssumption DEF Busy
  <2> QED
    BY <1>8, <2>3, <2>4, DueFrame DEF WriteCert, Busy, Workers, world, table, record, tick
<1>9. ASSUME NEW w \in Workers, WriteKey(w)
      PROVE  DueOK' /\ RenewedWhenDue'
  <2>1. pc[w] \notin {"idle", "scanning", "picking"}
    BY <1>9 DEF WriteKey, Step
  <2>2. job[w] \in Job
    BY <2>1, Held
  <2>3. /\ job'[w].host = job[w].host
        /\ pc'[w] \in Holding => pc[w] \in Holding /\ job'[w].cert = job[w].cert
        /\ \A v \in Workers \ {w} : job'[v] = job[v] /\ pc'[v] = pc[v]
    BY <1>9, <2>2 DEF WriteKey, Step, Job, TypeOK, Holding
  <2>4. Busy(w)
    BY <2>2, NoneAssumption DEF Busy
  <2> QED
    BY <1>9, <2>3, <2>4, DueFrame DEF WriteKey, Busy, Workers, world, table, record, tick
<1>10. ASSUME NEW w \in Workers, Reload(w)
      PROVE  DueOK' /\ RenewedWhenDue'
  <2>1. pc[w] \notin {"idle", "scanning", "picking"}
    BY <1>10 DEF Reload, Step
  <2>2. job[w] \in Job
    BY <2>1, Held
  <2>3. /\ job'[w].host = job[w].host
        /\ pc'[w] \in Holding => pc[w] \in Holding /\ job'[w].cert = job[w].cert
        /\ \A v \in Workers \ {w} : job'[v] = job[v] /\ pc'[v] = pc[v]
    BY <1>10, <2>2 DEF Reload, Step, Job, TypeOK, Holding
  <2>4. Busy(w)
    BY <2>2, NoneAssumption DEF Busy
  <2> QED
    BY <1>10, <2>3, <2>4, DueFrame DEF Reload, Busy, Workers, world, table, record, tick
<1>11. ASSUME NEW w \in Workers, StoreCert(w)
      PROVE  DueOK' /\ RenewedWhenDue'
  <2>1. pc[w] \notin {"idle", "scanning", "picking"}
    BY <1>11 DEF StoreCert, Step
  <2>2. job[w] \in Job
    BY <2>1, Held
  <2>3. /\ job'[w].host = job[w].host
        /\ pc'[w] \in Holding => pc[w] \in Holding /\ job'[w].cert = job[w].cert
        /\ \A v \in Workers \ {w} : job'[v] = job[v] /\ pc'[v] = pc[v]
    BY <1>11, <2>2 DEF StoreCert, Step, Job, TypeOK, Holding
  <2>4. Busy(w)
    BY <2>2, NoneAssumption DEF Busy
  <2> QED
    BY <1>11, <2>3, <2>4, DueFrame DEF StoreCert, Busy, Workers, world, table, record, tick
<1>12. ASSUME NEW w \in Workers, Save(w)
      PROVE  DueOK' /\ RenewedWhenDue'
  <2> DEFINE d == job[w].cert
             h == job[w].host
  <2>1. /\ pc[w] = "saving" /\ Busy(w) /\ pc[w] \in Holding
        /\ UNCHANGED <<now, certs, due>> /\ rows' = rows \cup {d}
        /\ pc'[w] \notin Holding /\ ~Busy(w)'
        /\ \A v \in Workers \ {w} : job'[v] = job[v] /\ pc'[v] = pc[v]
    BY <1>12 DEF Save, Release, TypeOK, Busy, Holding, world, tick
  <2>0. d \in Nat
    BY <2>1, Held DEF TypeOK
  <2>2. certs[d].host = h /\ certs[d].by = w
    BY <2>1 DEF JobOK
  <2>3. \A g : Of(g)' = IF g = h THEN Of(g) \cup {d} ELSE Of(g)
    BY <2>1, <2>2 DEF Of
  <2>4. CASE w = Scheduler
    <3>1. \A c \in Of(h) : certs[c].by = Scheduler =>
            c < d /\ certs[c].at + Lifetime <= certs[d].at + RenewBefore
      BY <2>1, <2>4 DEF DueOK
    <3>2. \A e \in due : e.host # h
      BY <2>1, <2>4 DEF TickOK
    <3>3. DueOK'
      BY <2>1, <2>3, <2>4, <3>2 DEF DueOK, Settled
    <3>4. RenewedWhenDue'
      <4> SUFFICES ASSUME NEW a \in rows', NEW b \in rows', a < b,
                          certs[a].host = certs[b].host,
                          certs[a].by = Scheduler, certs[b].by = Scheduler
                   PROVE  certs[a].at + Lifetime <= certs[b].at + RenewBefore
        BY <2>1, SMTT(20) DEF RenewedWhenDue
      <4>1. CASE a \in rows /\ b \in rows
        BY <4>1 DEF RenewedWhenDue
      <4>2. CASE a \in rows /\ b = d
        BY <4>2, <2>2, <3>1 DEF Of
      <4>3. CASE a = d
        <5>1. b # d /\ b \in rows
          BY <2>1, <4>3, <2>0, Recorded
        <5>2. b < d
          BY <5>1, <4>3, <2>2, <3>1 DEF Of
        <5> QED
          BY <5>1, <5>2, <4>3, <2>0, Recorded
      <4> QED
        BY <2>1, <4>1, <4>2, <4>3
    <3> QED
      BY <3>3, <3>4
  <2>5. CASE w # Scheduler
    <3>1. \A g : Settled(g)' <=> Settled(g)
      BY <2>1, <2>2, <2>3, <2>5 DEF Settled
    <3>2. RenewedWhenDue'
      BY <2>1, <2>2, <2>5, SMTT(20) DEF RenewedWhenDue
    <3>3. /\ job'[Scheduler] = job[Scheduler] /\ pc'[Scheduler] = pc[Scheduler]
          /\ Busy(Scheduler)' <=> Busy(Scheduler)
      BY <2>1, <2>5 DEF Workers, Busy
    <3>4. \A g : \A c \in Of(g)' : certs[c].by = Scheduler => c \in Of(g)
      BY <2>2, <2>3, <2>5
    <3> HIDE DEF Settled, Of
    <3> QED
      BY <2>1, <3>1, <3>2, <3>3, <3>4 DEF DueOK
  <2> QED
    BY <2>4, <2>5
<1>13. ASSUME NEW w \in Workers, SaveGone(w)
      PROVE  DueOK' /\ RenewedWhenDue'
  <2>1. UNCHANGED <<now, certs, rows>> /\ due' \subseteq due
    BY <1>13 DEF SaveGone, world, record, tick
  <2>2. /\ \A v \in Workers \ {w} : job'[v] = job[v] /\ pc'[v] = pc[v]
        /\ ~Busy(w)'
    BY <1>13 DEF SaveGone, Busy, TypeOK
  <2>3. \A h : Settled(h)' <=> Settled(h)
    BY <2>1 DEF Settled, Of
  <2>4. \A h : Of(h)' = Of(h)
    BY <2>1 DEF Of
  <2>5. RenewedWhenDue'
    BY <2>1 DEF RenewedWhenDue
  <2> HIDE DEF Settled, Of
  <2> QED
    BY <2>1, <2>2, <2>3, <2>4, <2>5 DEF DueOK, Busy, Workers
<1>14. ASSUME NEW w \in Workers, DeployFails(w)
      PROVE  DueOK' /\ RenewedWhenDue'
  <2>1. pc[w] \notin {"idle", "scanning", "picking"}
    BY <1>14 DEF DeployFails
  <2>2. job[w] \in Job
    BY <2>1, Held
  <2>3. /\ job'[w].host = job[w].host
        /\ pc'[w] \in Holding => pc[w] \in Holding /\ job'[w].cert = job[w].cert
        /\ \A v \in Workers \ {w} : job'[v] = job[v] /\ pc'[v] = pc[v]
    BY <1>14, <2>2 DEF DeployFails, Job, TypeOK, Holding
  <2>4. Busy(w)
    BY <2>2, NoneAssumption DEF Busy
  <2> QED
    BY <1>14, <2>3, <2>4, DueFrame DEF DeployFails, Busy, Workers, world, table, record, tick
<1>15. ASSUME NEW w \in Workers, Raise(w)
      PROVE  DueOK' /\ RenewedWhenDue'
  <2>1. UNCHANGED <<now, certs, rows>> /\ due' \subseteq due
    BY <1>15 DEF Raise, Release, world, record, tick
  <2>2. /\ \A v \in Workers \ {w} : job'[v] = job[v] /\ pc'[v] = pc[v]
        /\ ~Busy(w)'
    BY <1>15 DEF Raise, Release, Busy, TypeOK
  <2>3. \A h : Settled(h)' <=> Settled(h)
    BY <2>1 DEF Settled, Of
  <2>4. \A h : Of(h)' = Of(h)
    BY <2>1 DEF Of
  <2>5. RenewedWhenDue'
    BY <2>1 DEF RenewedWhenDue
  <2> HIDE DEF Settled, Of
  <2> QED
    BY <2>1, <2>2, <2>3, <2>4, <2>5 DEF DueOK, Busy, Workers
<1>16. CASE StartTick
  BY <1>16, DueFrame DEF StartTick, Busy, TypeOK, Workers, Holding, world, table, record, tick
<1>17. CASE EndScan
  BY <1>17, DueFrame DEF EndScan, Busy, TypeOK, Workers, Holding, world, table, record, tick
<1>18. CASE EndTick
  BY <1>18, DueFrame DEF EndTick, Busy, TypeOK, Workers, Holding, world, table, record, tick
<1>19. ASSUME NEW e \in scan, ScanHost(e)
      PROVE  DueOK' /\ RenewedWhenDue'
  <2>1. ~Busy(Scheduler) /\ ~Busy(Scheduler)'
    BY <1>19 DEF ScanHost, TypeOK, Busy, Workers
  <2>2. UNCHANGED <<now, certs, rows>>
    BY <1>19 DEF ScanHost, world, record
  <2>3. \A h : Settled(h)' <=> Settled(h)
    BY <2>2 DEF Settled, Of
  <2>4. \A f \in due' : Settled(f.host)
    BY <1>19 DEF ScanHost, Due, DueOK, Settled
  <2>5. RenewedWhenDue'
    BY <2>2 DEF RenewedWhenDue
  <2> QED
    BY <2>1, <2>3, <2>4, <2>5 DEF DueOK
<1>20. ASSUME NEW e \in due, NextHost(e)
      PROVE  DueOK' /\ RenewedWhenDue'
  <2>1. Scheduler \in Workers /\ e \in Entry /\ Begin(Scheduler, e)
    BY <1>20 DEF NextHost, TypeOK, Workers
  <2>2. job'[Scheduler].host = e.host /\ pc'[Scheduler] \notin Holding
    BY <2>1, BeginOthers
  <2>3. UNCHANGED <<now, certs, rows>> /\ due' \subseteq due /\ e \in due
    BY <1>20, <2>1 DEF NextHost, Begin, record
  <2>4. \A h : Settled(h)' <=> Settled(h)
    BY <2>3 DEF Settled, Of
  <2>5. RenewedWhenDue'
    BY <2>3 DEF RenewedWhenDue
  <2> HIDE DEF Settled
  <2> QED
    BY <2>2, <2>3, <2>4, <2>5 DEF DueOK
<1>21. CASE Day
  <2>1. \A h : Settled(h) => Settled(h)'
    BY <1>21, RenewalAssumption, Recorded DEF Day, Settled, Of, TypeOK, world, record
  <2>2. RenewedWhenDue'
    BY <1>21 DEF Day, RenewedWhenDue, world, record
  <2>3. UNCHANGED <<due, job, pc, certs, rows>>
    BY <1>21 DEF Day, world, record, tick
  <2>4. \A h : Of(h)' = Of(h)
    BY <2>3 DEF Of
  <2> HIDE DEF Settled, Of
  <2> QED
    BY <2>1, <2>2, <2>3, <2>4 DEF DueOK, Busy
<1>22. CASE Crash
  <2>1. UNCHANGED <<now, certs, rows>> /\ due' = {} /\ ~Busy(Scheduler)'
    BY <1>22 DEF Crash, Busy, Workers, world, record
  <2>2. RenewedWhenDue'
    BY <2>1 DEF RenewedWhenDue
  <2> QED
    BY <2>1, <2>2 DEF DueOK
<1>23. CASE UNCHANGED vars
  BY <1>23, DueFrame DEF Busy, vars, world, record, tick
<1> QED
  BY <1>1, <1>2, <1>3, <1>4, <1>5, <1>6, <1>7, <1>8, <1>9, <1>10, <1>11,
     <1>12, <1>13, <1>14, <1>15, <1>16, <1>17, <1>18, <1>19, <1>20, <1>21,
     <1>22, <1>23 DEF Next, Renew, Loop

\* Tables, workers and the tick keep their types.
THEOREM TypeCorrect == Spec => []TypeOK
<1>1. Inv /\ [Next]_vars => Inv'
  BY TypeStep, JobStep DEF Inv
<1>2. Inv => TypeOK
  BY DEF Inv
<1> QED
  BY <1>1, <1>2, TypeInit, PTL DEF Spec

\* Whatever operators renew, edit, delete and retire, and whatever fails, the
\* scheduler never has a host's certificate replaced before it has to.
THEOREM RenewalsAreDue == Spec => []RenewedWhenDue
<1> DEFINE All == TypeOK /\ JobOK /\ TickOK /\ DueOK /\ RenewedWhenDue
<1>1. Init => All
  <2> SUFFICES ASSUME Init PROVE All
    OBVIOUS
  <2>1. TickOK /\ DueOK /\ RenewedWhenDue
    BY DEF Init, TickOK, DueOK, RenewedWhenDue, Busy, Workers
  <2> QED
    BY <2>1, TypeInit DEF Inv
<1>2. All /\ [Next]_vars => All'
  BY TypeStep, JobStep, TickStep, DueStep
<1>3. All => RenewedWhenDue
  OBVIOUS
<1> QED
  BY <1>1, <1>2, <1>3, PTL DEF Spec
-----------------------------------------------------------------------------
(* What the device of a host has.                                          *)

\* The place of a host has the newest certificate recorded for it, and its key.
AsRecorded(h) ==
  LET at == device[h][hosts[h].place]
  IN  /\ at.cert \in Of(h) /\ \A d \in Of(h) : d <= at.cert
      /\ at.key = certs[at.cert].key
      /\ hosts[h].mode = "local" => certs[at.cert].names = hosts[h].names

\* How far a renewal that meets no other one has come with the device.
Installing(w) ==
  LET j == job[w]
      at == device[j.host][j.place]
  IN  /\ pc[w] \in Holding => \A c \in Of(j.host) : c < j.cert
      /\ pc[w] \in {"keying", "reloading", "storing", "saving"} => at.cert = j.cert
      /\ pc[w] \in {"reloading", "storing", "saving"} => at.key = j.key
      /\ j.mode # "local" /\ pc[w] # "fetching" => at.key = j.key

\* A certificate is for the key and the names of the renewal that had it issued.
KeyOK ==
  \A w \in Workers :
    Busy(w) /\ pc[w] \in Holding =>
      /\ certs[job[w].cert].key = job[w].key
      /\ certs[job[w].cert].names = Requested(job[w])

\* A step that leaves what a renewal of the host would load.
SameTarget(h) ==
  /\ hosts'[h].mode = hosts[h].mode
  /\ hosts'[h].place = hosts[h].place
  /\ hosts'[h].names = hosts[h].names

\* One host: a renewal either has it for itself, or has left its mark on it.
HostOK(h) ==
  /\ hosts[h] = None => Of(h) = {}
  /\ \A w \in At(h) :
       IF job[w].alone THEN At(h) = {w} /\ Installing(w) ELSE h \in cut
  /\ Present(h) /\ At(h) = {} /\ h \notin cut /\ Of(h) # {} => AsRecorded(h)

DeviceOK == KeyOK /\ \A h \in Hosts : HostOK(h)

\* A host that nobody's step is about stays as it is.
LEMMA HostFrame ==
  ASSUME TypeOK, JobOK, NEW h \in Hosts, HostOK(h),
         At(h)' = At(h),
         \A w \in At(h) : job'[w] = job[w] /\ pc'[w] = pc[w],
         Of(h)' = Of(h), \A c \in DOMAIN certs : certs'[c] = certs[c],
         device'[h] = device[h],
         h \in cut => h \in cut',
         hosts'[h] = None => hosts[h] = None,
         Present(h)' => Present(h) \/ hosts[h] = None,
         Present(h) /\ Present(h)' /\ h \notin cut' => SameTarget(h)
  PROVE  HostOK(h)'
<1>1. hosts'[h] = None => Of(h)' = {}
  BY DEF HostOK
<1>2. ASSUME NEW w \in At(h)'
      PROVE  IF job'[w].alone THEN At(h)' = {w} /\ Installing(w)' ELSE h \in cut'
  <2>1. w \in At(h) /\ job'[w] = job[w] /\ pc'[w] = pc[w] /\ job[w].host = h
    BY <1>2 DEF At
  <2>2. Installing(w) => Installing(w)'
    BY <2>1 DEF Installing
  <2> QED
    BY <2>1, <2>2 DEF HostOK
<1>3. ASSUME Present(h)', At(h)' = {}, h \notin cut', Of(h)' # {}
      PROVE  AsRecorded(h)'
  <2>1. Present(h) /\ At(h) = {} /\ h \notin cut /\ Of(h) # {}
    BY <1>1, <1>3 DEF HostOK
  <2>2. AsRecorded(h)
    BY <2>1 DEF HostOK
  <2>3. Of(h) \subseteq DOMAIN certs
    BY DEF Of, TypeOK
  <2>4. SameTarget(h)
    BY <1>3, <2>1
  <2> QED
    BY <2>2, <2>3, <2>4 DEF AsRecorded, SameTarget
<1> QED
  BY <1>1, <1>2, <1>3 DEF HostOK

\* Where everybody is after a step of one worker.
LEMMA WorkerAt ==
  ASSUME NEW w \in Workers, Busy(w), NEW h, h = job[w].host,
         \A v \in Workers \ {w} : job'[v] = job[v],
         Busy(w)' => job'[w].host = h
  PROVE  /\ \A g : g # h => At(g)' = At(g) /\ w \notin At(g)
         /\ w \in At(h)
         /\ At(h)' = IF Busy(w)' THEN At(h)
                               ELSE At(h) \ {w}
<1>1. \A v \in Workers \ {w} : Busy(v)' <=> Busy(v)
  BY DEF Busy
<1>2. ASSUME NEW g, g # h
      PROVE  At(g)' = At(g) /\ w \notin At(g)
  BY <1>1, <1>2 DEF At
<1>3. w \in At(h)
  BY DEF At
<1>4. CASE Busy(w)'
  BY <1>1, <1>2, <1>3, <1>4 DEF At
<1>5. CASE ~Busy(w)'
  <2>1. \A v : v \in At(h)' <=> v \in At(h) /\ v # w
    BY <1>1, <1>5 DEF At
  <2> QED
    BY <1>3, <1>5, <2>1
<1> QED
  BY <1>2, <1>3, <1>4, <1>5

\* A step of one worker is about the host it is at only.
LEMMA WorkerStep ==
  ASSUME TypeOK, JobOK, DeviceOK, NEW w \in Workers, Busy(w), NEW h, h = job[w].host,
         \A v \in Workers \ {w} : job'[v] = job[v] /\ pc'[v] = pc[v],
         Busy(w)' => job'[w].host = h,
         \A c \in DOMAIN certs : certs'[c] = certs[c],
         \A g \in Hosts \ {h} :
           /\ device'[g] = device[g] /\ hosts'[g] = hosts[g]
           /\ Of(g)' = Of(g) /\ (g \in cut' <=> g \in cut),
         HostOK(h)'
  PROVE  \A g \in Hosts : HostOK(g)'
<1> SUFFICES ASSUME NEW g \in Hosts, g # h PROVE HostOK(g)'
  OBVIOUS
<1>1. At(g)' = At(g) /\ w \notin At(g)
  BY WorkerAt
<1>2. \A v \in At(g) : job'[v] = job[v] /\ pc'[v] = pc[v]
  BY <1>1 DEF At
<1>3. HostOK(g)
  BY DEF DeviceOK
<1>4. (Present(g)' => Present(g)) /\ SameTarget(g)
  BY DEF Present, SameTarget
<1> QED
  BY <1>1, <1>2, <1>3, <1>4, HostFrame

\* A worker that goes on with its renewal: it has not left its mark on the host
\* before, and has the device as far as it is, or it leaves it now.
LEMMA GoesOn ==
  ASSUME TypeOK, NEW w \in Workers, Busy(w), NEW h, h = job[w].host, HostOK(h),
         \A v \in Workers \ {w} : job'[v] = job[v] /\ pc'[v] = pc[v],
         Busy(w)', job'[w].host = h,
         Of(h)' = Of(h),
         hosts'[h] = hosts[h],
         h \in cut => h \in cut',
         \/ h \in cut' /\ ~job'[w].alone
         \/ job'[w].alone = job[w].alone /\ (Installing(w) => Installing(w)')
  PROVE  HostOK(h)'
<1>1. At(h)' = At(h) /\ w \in At(h)
  BY WorkerAt
<1>2. ASSUME NEW v \in At(h)'
      PROVE  IF job'[v].alone THEN At(h)' = {v} /\ Installing(v)' ELSE h \in cut'
  <2>1. CASE v = w
    BY <1>1, <2>1 DEF HostOK
  <2>2. CASE v # w
    <3>1. v \in At(h) /\ job'[v] = job[v]
      BY <1>1, <1>2, <2>2 DEF At
    <3>2. ~job[v].alone /\ h \in cut
      BY <1>1, <2>2, <3>1 DEF HostOK
    <3> QED
      BY <3>1, <3>2
  <2> QED
    BY <2>1, <2>2
<1> QED
  BY <1>1, <1>2 DEF HostOK

\* A worker that leaves its renewal: its host is marked, or gone, or has what was
\* recorded for it.
LEMMA Leaves ==
  ASSUME TypeOK, NEW w \in Workers, Busy(w), NEW h, h = job[w].host, HostOK(h),
         \A v \in Workers \ {w} : job'[v] = job[v] /\ pc'[v] = pc[v],
         ~Busy(w)',
         hosts'[h] = None => Of(h)' = {},
         At(h) # {w} /\ h \in cut => h \in cut',
         \/ h \in cut' \/ ~Present(h)'
         \/ AsRecorded(h)'
  PROVE  HostOK(h)'
<1>1. At(h)' = At(h) \ {w} /\ w \in At(h)
  BY WorkerAt
<1>2. ASSUME NEW v \in At(h)'
      PROVE  IF job'[v].alone THEN At(h)' = {v} /\ Installing(v)' ELSE h \in cut'
  <2>1. v \in At(h) /\ job'[v] = job[v] /\ v # w
    BY <1>1, <1>2 DEF At
  <2>2. ~job[v].alone /\ h \in cut
    BY <1>1, <2>1 DEF HostOK
  <2> QED
    BY <1>1, <2>1, <2>2
<1> QED
  BY <1>1, <1>2 DEF HostOK

\* A renewal that begins has its host for itself, or they all leave their mark.
LEMMA BeginDevice ==
  ASSUME TypeOK, JobOK, DeviceOK, NEW w \in Workers, NEW e \in Entry, ~Busy(w),
         Begin(w, e), UNCHANGED <<hosts, rows>>
  PROVE  DeviceOK'
<1> PICK h \in Hosts : h = e.host
  BY DEF Entry
<1> DEFINE only == At(h) = {}
           new == [host |-> h, mode |-> e.mode, place |-> e.place, names |-> e.names,
                   status |-> e.status,
                   key |-> keys + 1, cert |-> 0, ok |-> FALSE, alone |-> only]
<1>1. job'[w] = new /\ new # None
  <2>1. new \in Job
    BY DEF Job, Entry, TypeOK
  <2> QED
    BY <2>1, NoneAssumption DEF Begin
<1>2. ASSUME NEW v \in Workers \ {w}
      PROVE  /\ pc'[v] = pc[v]
             /\ v \notin At(h) => job'[v] = job[v]
             /\ v \in At(h) => /\ job'[v] # None
                               /\ job'[v].host = h /\ ~job'[v].alone
                               /\ job'[v].key = job[v].key
                               /\ job'[v].cert = job[v].cert
                               /\ Requested(job'[v]) = Requested(job[v])
  <2>1. job'[v] = IF v \in At(h) THEN [job[v] EXCEPT !.alone = FALSE] ELSE job[v]
    BY DEF Begin
  <2>2. v \in At(h) => job[v] \in Job /\ job[v].host = h
    BY DEF At, Busy, TypeOK
  <2>3. v \in At(h) => [job[v] EXCEPT !.alone = FALSE] \in Job
    BY <2>2, JobFields
  <2>4. pc'[v] = pc[v]
    BY DEF Begin, TypeOK
  <2> QED
    BY <2>1, <2>2, <2>3, <2>4, NoneAssumption DEF Job, Requested
<1>3. w \notin At(h) /\ \A g : w \notin At(g)
  BY DEF At
<1>4. UNCHANGED <<device, certs>> /\ \A g : Of(g)' = Of(g)
  BY DEF Begin, Of
<1>5. cut' = IF At(h) = {} THEN cut ELSE cut \cup {h}
  BY DEF Begin
<1>6. pc'[w] \in {"issuing", "fetching"} /\ (e.mode # "local" => pc'[w] = "fetching")
  BY DEF Begin, TypeOK
<1>7. \A v \in Workers \ {w} :
        /\ Busy(v)' <=> Busy(v)
        /\ Busy(v) => job'[v].host = job[v].host
  BY <1>2 DEF Busy, At
<1>8. At(h)' = At(h) \cup {w} /\ \A g : g # h => At(g)' = At(g)
  BY <1>1, <1>3, <1>7 DEF At, Busy
<1>9. KeyOK'
  <2> SUFFICES ASSUME NEW v \in Workers, Busy(v)', pc'[v] \in Holding
               PROVE  /\ certs[job'[v].cert].key = job'[v].key
                      /\ certs[job'[v].cert].names = Requested(job'[v])
    BY <1>4 DEF KeyOK, Requested
  <2>1. v # w
    BY <1>6 DEF Holding
  <2>2. Busy(v) /\ pc[v] \in Holding
    BY <1>2, <1>7, <2>1
  <2>3. /\ job'[v].cert = job[v].cert /\ job'[v].key = job[v].key
        /\ Requested(job'[v]) = Requested(job[v])
    BY <1>2, <2>1
  <2> QED
    BY <2>2, <2>3 DEF DeviceOK, KeyOK
<1>10. ASSUME NEW g \in Hosts
       PROVE  HostOK(g)'
  <2>0. HostOK(g)
    BY DEF DeviceOK
  <2>1. CASE g # h
    <3>1. \A v \in At(g) : v \in Workers \ {w} /\ v \notin At(h)
      BY <1>3, <2>1 DEF At
    <3> QED
      BY <1>2, <1>4, <1>5, <1>8, <2>0, <2>1, <3>1, HostFrame DEF Present, SameTarget
  <2>2. CASE g = h
    <3>1. \A v \in At(h) : ~job'[v].alone
      BY <1>2, <1>3 DEF At
    <3>2. job'[w].alone = only
      <4> HIDE DEF only
      <4> QED
        BY <1>1
    <3>3. At(h) # {} => h \in cut'
      BY <1>5
    <3>4. Installing(w)'
      BY <1>1, <1>6 DEF Installing, Holding
    <3> QED
      BY <1>4, <1>8, <2>0, <2>2, <3>1, <3>2, <3>3, <3>4 DEF HostOK
  <2> QED
    BY <2>1, <2>2
<1> QED
  BY <1>9, <1>10 DEF DeviceOK

\* The frame of the steps that are about no host's renewal.
LEMMA TableFrame ==
  ASSUME TypeOK, JobOK, DeviceOK, UNCHANGED <<job, certs, rows, device>>,
         \A w \in Workers : Busy(w) => pc'[w] = pc[w],
         \A g \in cut : g \in cut',
         \A g \in Hosts : /\ hosts'[g] = None => hosts[g] = None
                          /\ Present(g)' => Present(g) \/ hosts[g] = None
                          /\ Present(g) /\ Present(g)' /\ g \notin cut' => SameTarget(g)
  PROVE  DeviceOK'
<1>1. \A g : At(g)' = At(g) /\ Of(g)' = Of(g)
  BY DEF At, Busy, Of
<1>2. KeyOK'
  BY DEF DeviceOK, KeyOK, Busy
<1>3. ASSUME NEW g \in Hosts
      PROVE  HostOK(g)'
  <2>1. \A w \in At(g) : job'[w] = job[w] /\ pc'[w] = pc[w]
    BY DEF At
  <2> QED
    BY <1>1, <2>1, HostFrame DEF DeviceOK
<1> QED
  BY <1>2, <1>3 DEF DeviceOK

\* A certificate stays one for the key of its renewal, which has it to the end.
LEMMA KeyFrame ==
  ASSUME TypeOK, JobOK, KeyOK, NEW w \in Workers,
         \A c \in DOMAIN certs : certs'[c] = certs[c],
         \A v \in Workers \ {w} : job'[v] = job[v] /\ pc'[v] = pc[v],
         Busy(w)' /\ pc'[w] \in Holding => /\ certs'[job'[w].cert].key = job'[w].key
                                          /\ certs'[job'[w].cert].names = Requested(job'[w])
  PROVE  KeyOK'
<1> SUFFICES ASSUME NEW v \in Workers, Busy(v)', pc'[v] \in Holding
             PROVE  /\ certs'[job'[v].cert].key = job'[v].key
                    /\ certs'[job'[v].cert].names = Requested(job'[v])
  BY DEF KeyOK, Requested
<1>1. CASE v = w
  BY <1>1
<1>2. CASE v # w
  <2>1. Busy(v) /\ pc[v] \in Holding /\ job'[v] = job[v]
    BY <1>2 DEF Busy
  <2>2. job[v].cert \in DOMAIN certs
    BY <2>1 DEF JobOK
  <2> QED
    BY <2>1, <2>2 DEF KeyOK
<1> QED
  BY <1>1, <1>2

\* The device of a host is as recorded, or on its way there, or the host is marked.
LEMMA DeviceStep ==
  ASSUME TypeOK, JobOK, DeviceOK, [Next]_vars
  PROVE  DeviceOK'
<1> USE NoneAssumption
<1>1. ASSUME NEW h \in Hosts, CreateHost(h)
      PROVE  DeviceOK'
  <2>1. PICK row \in Row : hosts' = [hosts EXCEPT ![h] = row]
    BY <1>1 DEF CreateHost, Row, Statuses
  <2> QED
    BY <1>1, <2>1, TableFrame
       DEF CreateHost, Present, SameTarget, TypeOK, table, world, record, tick
<1>2. ASSUME NEW h \in Hosts, UpdateHost(h)
      PROVE  DeviceOK'
  <2>1. hosts[h] \in Row
    BY <1>2 DEF UpdateHost, Present, TypeOK
  <2>2. /\ [hosts[h] EXCEPT !.enabled = ~hosts[h].enabled] \in Row
        /\ \A mode \in Modes : [hosts[h] EXCEPT !.mode = mode] \in Row
        /\ \A place \in Places : [hosts[h] EXCEPT !.place = place] \in Row
        /\ \A names \in NameSets : [hosts[h] EXCEPT !.names = names] \in Row
    BY <2>1 DEF Row
  <2>3. PICK row \in Row : /\ hosts' = [hosts EXCEPT ![h] = row]
                           /\ \/ cut' = cut /\ row = [hosts[h] EXCEPT !.enabled = ~@]
                              \/ cut' = cut \cup {h}
    BY <1>2, <2>2 DEF UpdateHost
  <2>4. /\ \A g \in Hosts : IF g = h THEN hosts'[g] = row ELSE hosts'[g] = hosts[g]
        /\ \A g \in cut : g \in cut'
    BY <2>3 DEF TypeOK
  <2>5. \A g \in Hosts : g \notin cut' => SameTarget(g)
    BY <2>1, <2>3, <2>4 DEF SameTarget, Row
  <2> QED
    BY <1>2, <2>1, <2>4, <2>5, TableFrame DEF UpdateHost, Present, table, world, record, tick
<1>3. ASSUME NEW h \in Hosts, DeleteHost(h)
      PROVE  DeviceOK'
  BY <1>3, TableFrame DEF DeleteHost, Present, SameTarget, TypeOK, table, world, record, tick
<1>4. ASSUME NEW c \in rows, Retire(c)
      PROVE  DeviceOK'
  BY <1>4, TableFrame DEF Retire, Present, SameTarget, table, world, record, tick
<1>5. ASSUME NEW w \in Operators, NEW h \in Hosts, RenewHost(w, h)
      PROVE  DeviceOK'
  <2>1. /\ w \in Workers /\ ~Busy(w) /\ Loaded(h) \in Entry
        /\ Begin(w, Loaded(h))
        /\ UNCHANGED <<hosts, rows>>
    BY <1>5, LoadedType DEF RenewHost, TypeOK, Workers, table, record
  <2> QED
    BY <2>1, BeginDevice
<1>6. ASSUME NEW w \in Workers, FetchCsr(w)
      PROVE  DeviceOK'
  <2>1. pc[w] \notin {"idle", "scanning", "picking"}
    BY <1>6 DEF FetchCsr, Step
  <2> PICK h \in Hosts : h = job[w].host
    BY <2>1, Held
  <2>2. /\ job[w] \in Job /\ job[w].key \in Nat /\ Busy(w)
        /\ pc[w] \in Holding => job[w].cert \in 1 .. Len(certs)
    BY <2>1, Held DEF Busy
  <2>3. HostOK(h) /\ KeyOK
    BY <2>2 DEF DeviceOK
  <2> PICK p \in Places : p = job[w].place
    BY <2>2 DEF Job
  <2>4. /\ \A v \in Workers \ {w} : job'[v] = job[v] /\ pc'[v] = pc[v]
        /\ pc[w] = "fetching" /\ pc'[w] = "issuing" /\ UNCHANGED <<hosts, rows, certs>>
        /\ job'[w] \in Job /\ job'[w].host = h /\ job'[w].place = p /\ Busy(w)'
        /\ job'[w].mode = job[w].mode
    <3>1. UNCHANGED <<hosts, rows, certs>>
      BY <1>6 DEF FetchCsr, table, record
    <3>2. /\ \A v \in Workers \ {w} : job'[v] = job[v] /\ pc'[v] = pc[v]
          /\ pc[w] = "fetching" /\ pc'[w] = "issuing"
          /\ job'[w] \in Job /\ job'[w].host = h /\ job'[w].place = p
          /\ job'[w].mode = job[w].mode
      BY <1>6, <2>2, Fetched, ZenonT(40)
    <3> QED
      BY <3>1, <3>2, NoneAssumption DEF Busy
  <2>5. \A g : Of(g)' = Of(g)
    BY <2>4 DEF Of
  <2>6. KeyOK'
    BY <2>2, <2>3, <2>4, KeyFrame DEF Holding
  <2>7. PICK key \in Nat :
          /\ job'[w].key = key
          /\ \/ /\ job'[w].alone = job[w].alone /\ cut' = cut
                /\ device' = [device EXCEPT ![h][p].key = key]
             \/ ~job'[w].alone /\ cut' = cut \cup {h} /\ device' = device
    BY <1>6, <2>2, Fetched, ZenonT(40)
  <2>8. CASE /\ job'[w].alone = job[w].alone /\ cut' = cut
             /\ device' = [device EXCEPT ![h][p].key = key]
    <3>1. device[h][p] \in [cert: 0 .. Len(certs), key: Nat] /\ DOMAIN device[h] = Places
      BY DEF TypeOK
    <3>2. device'[h][p] = [device[h][p] EXCEPT !.key = key]
      BY <2>8, <3>1 DEF TypeOK
    <3>3. device'[h][p].key = key /\ \A g \in Hosts \ {h} : device'[g] = device[g]
      BY <2>8, <3>1, <3>2 DEF TypeOK
    <3>4. Installing(w) => Installing(w)'
      BY <2>4, <2>7, <3>3 DEF Installing, Holding
    <3>5. HostOK(h)'
      BY <2>2, <2>3, <2>4, <2>5, <2>8, <3>4, GoesOn
    <3> QED
      BY <2>2, <2>4, <2>5, <2>6, <2>8, <3>3, <3>5, WorkerStep DEF DeviceOK
  <2>9. CASE ~job'[w].alone /\ cut' = cut \cup {h} /\ device' = device
    <3>1. HostOK(h)'
      BY <2>2, <2>3, <2>4, <2>5, <2>9, GoesOn
    <3> QED
      BY <2>2, <2>4, <2>5, <2>6, <2>9, <3>1, WorkerStep DEF DeviceOK
  <2> QED
    BY <2>7, <2>8, <2>9
<1>7. ASSUME NEW w \in Workers, Issue(w)
      PROVE  DeviceOK'
  <2>1. pc[w] \notin {"idle", "scanning", "picking"}
    BY <1>7 DEF Issue, Step
  <2> PICK h \in Hosts : h = job[w].host
    BY <2>1, Held
  <2>2. /\ job[w] \in Job /\ job[w].key \in Nat /\ Busy(w)
        /\ pc[w] \in Holding => job[w].cert \in 1 .. Len(certs)
    BY <2>1, Held DEF Busy
  <2>3. HostOK(h) /\ KeyOK
    BY <2>2 DEF DeviceOK
  <2>4. job'[w] = [job[w] EXCEPT !.cert = Len(certs) + 1]
    BY <1>7, <2>2 DEF Issue, TypeOK
  <2>5. Len(certs) + 1 \in Nat
    BY DEF TypeOK
  <2>6. /\ job'[w] \in Job
        /\ job'[w].host = job[w].host /\ job'[w].mode = job[w].mode
        /\ job'[w].key = job[w].key /\ job'[w].cert = Len(certs) + 1
        /\ job'[w].alone = job[w].alone /\ job'[w].place = job[w].place
        /\ Requested(job'[w]) = Requested(job[w])
    BY <2>2, <2>4, <2>5 DEF Job, Requested
  <2>7. /\ \A v \in Workers \ {w} : job'[v] = job[v] /\ pc'[v] = pc[v]
        /\ pc[w] = "issuing" /\ pc'[w] = "installing" /\ Busy(w)'
        /\ job'[w] \in Job
        /\ job'[w].host = job[w].host /\ job'[w].mode = job[w].mode
        /\ job'[w].key = job[w].key /\ job'[w].alone = job[w].alone /\ job'[w].cert = Len(certs) + 1
        /\ job'[w].place = job[w].place /\ Requested(job'[w]) = Requested(job[w])
    BY <1>7, <2>2, <2>6 DEF Issue, Step, TypeOK, Busy, Fault
  <2>8. /\ UNCHANGED <<hosts, rows>> /\ (\A c \in DOMAIN certs : certs'[c] = certs[c])
        /\ certs'[Len(certs) + 1].key = job[w].key
        /\ certs'[Len(certs) + 1].names = Requested(job[w])
        /\ UNCHANGED <<device, cut>>
    BY <1>7, <2>2 DEF Issue, Step, TypeOK, Fault, table, world, record
  <2>9. \A g : Of(g)' = Of(g)
    BY <2>8, Recorded DEF Of
  <2>10. KeyOK'
    BY <2>2, <2>3, <2>7, <2>8, KeyFrame DEF Job
  <2>11. Installing(w) => Installing(w)'
    <3>1. \A c \in Of(h) : c < Len(certs) + 1
      BY Recorded DEF Of, TypeOK
    <3> QED
      BY <2>2, <2>7, <2>8, <2>9, <3>1 DEF Installing, Holding, Job
  <2>12. HostOK(h)'
    BY <2>2, <2>3, <2>7, <2>8, <2>9, <2>11, GoesOn
  <2> QED
    BY <2>2, <2>7, <2>8, <2>9, <2>10, <2>12, WorkerStep DEF DeviceOK
<1>8. ASSUME NEW w \in Workers, WriteCert(w)
      PROVE  DeviceOK'
  <2>1. pc[w] \notin {"idle", "scanning", "picking"}
    BY <1>8 DEF WriteCert, Step
  <2> PICK h \in Hosts : h = job[w].host
    BY <2>1, Held
  <2>2. /\ job[w] \in Job /\ job[w].key \in Nat /\ Busy(w)
        /\ pc[w] \in Holding => job[w].cert \in 1 .. Len(certs)
    BY <2>1, Held DEF Busy
  <2> PICK p \in Places : p = job[w].place
    BY <2>2 DEF Job
  <2>3. HostOK(h) /\ KeyOK
    BY <2>2 DEF DeviceOK
  <2>4. /\ \A v \in Workers \ {w} : job'[v] = job[v] /\ pc'[v] = pc[v]
        /\ pc[w] = "installing" /\ Busy(w)' /\ job'[w] = job[w]
        /\ pc'[w] = IF job[w].mode = "local" THEN "keying" ELSE "reloading"
    BY <1>8, <2>2 DEF WriteCert, Step, TypeOK, Busy, Fault
  <2>5. /\ UNCHANGED <<hosts, rows>> /\ UNCHANGED certs
        /\ cut' = cut /\ \A g \in Hosts \ {h} : device'[g] = device[g]
        /\ device'[h][p].cert = job[w].cert /\ device'[h][p].key = device[h][p].key
    <3>1. device' = [device EXCEPT ![h][p].cert = job[w].cert]
      BY <1>8 DEF WriteCert
    <3>2. device[h][p] \in [cert: 0 .. Len(certs), key: Nat] /\ DOMAIN device[h] = Places
      BY DEF TypeOK
    <3>3. device'[h][p] = [device[h][p] EXCEPT !.cert = job[w].cert]
      BY <3>1, <3>2 DEF TypeOK
    <3> QED
      BY <1>8, <2>2, <3>1, <3>2, <3>3 DEF WriteCert, Step, TypeOK, table, record
  <2>6. \A g : Of(g)' = Of(g)
    BY <2>5, Recorded DEF Of
  <2>7. KeyOK'
    BY <2>2, <2>3, <2>4, <2>5, KeyFrame DEF KeyOK, Holding
  <2>8. Installing(w) => Installing(w)'
    BY <2>4, <2>5, <2>6 DEF Installing, Holding
  <2>9. HostOK(h)'
    BY <2>2, <2>3, <2>4, <2>5, <2>6, <2>8, GoesOn
  <2> QED
    BY <2>2, <2>4, <2>5, <2>6, <2>7, <2>9, WorkerStep DEF DeviceOK
<1>9. ASSUME NEW w \in Workers, WriteKey(w)
      PROVE  DeviceOK'
  <2>1. pc[w] \notin {"idle", "scanning", "picking"}
    BY <1>9 DEF WriteKey, Step
  <2> PICK h \in Hosts : h = job[w].host
    BY <2>1, Held
  <2>2. /\ job[w] \in Job /\ job[w].key \in Nat /\ Busy(w)
        /\ pc[w] \in Holding => job[w].cert \in 1 .. Len(certs)
    BY <2>1, Held DEF Busy
  <2> PICK p \in Places : p = job[w].place
    BY <2>2 DEF Job
  <2>3. HostOK(h) /\ KeyOK
    BY <2>2 DEF DeviceOK
  <2>4. /\ \A v \in Workers \ {w} : job'[v] = job[v] /\ pc'[v] = pc[v]
        /\ pc[w] = "keying" /\ Busy(w)' /\ job'[w] = job[w]
        /\ pc'[w] = "reloading"
    BY <1>9, <2>2 DEF WriteKey, Step, TypeOK, Busy, Fault
  <2>5. /\ UNCHANGED <<hosts, rows>> /\ UNCHANGED certs
        /\ cut' = cut /\ \A g \in Hosts \ {h} : device'[g] = device[g]
        /\ device'[h][p].key = job[w].key /\ device'[h][p].cert = device[h][p].cert
    <3>1. device' = [device EXCEPT ![h][p].key = job[w].key]
      BY <1>9 DEF WriteKey
    <3>2. device[h][p] \in [cert: 0 .. Len(certs), key: Nat] /\ DOMAIN device[h] = Places
      BY DEF TypeOK
    <3>3. device'[h][p] = [device[h][p] EXCEPT !.key = job[w].key]
      BY <3>1, <3>2 DEF TypeOK
    <3> QED
      BY <1>9, <2>2, <3>1, <3>2, <3>3 DEF WriteKey, Step, TypeOK, table, record
  <2>6. \A g : Of(g)' = Of(g)
    BY <2>5, Recorded DEF Of
  <2>7. KeyOK'
    BY <2>2, <2>3, <2>4, <2>5, KeyFrame DEF KeyOK, Holding
  <2>8. Installing(w) => Installing(w)'
    BY <2>4, <2>5, <2>6 DEF Installing, Holding
  <2>9. HostOK(h)'
    BY <2>2, <2>3, <2>4, <2>5, <2>6, <2>8, GoesOn
  <2> QED
    BY <2>2, <2>4, <2>5, <2>6, <2>7, <2>9, WorkerStep DEF DeviceOK
<1>10. ASSUME NEW w \in Workers, Reload(w)
      PROVE  DeviceOK'
  <2>1. pc[w] \notin {"idle", "scanning", "picking"}
    BY <1>10 DEF Reload, Step
  <2> PICK h \in Hosts : h = job[w].host
    BY <2>1, Held
  <2>2. /\ job[w] \in Job /\ job[w].key \in Nat /\ Busy(w)
        /\ pc[w] \in Holding => job[w].cert \in 1 .. Len(certs)
    BY <2>1, Held DEF Busy
  <2>3. HostOK(h) /\ KeyOK
    BY <2>2 DEF DeviceOK
  <2>4. job'[w] = [job[w] EXCEPT !.ok = TRUE]
    BY <1>10, <2>2 DEF Reload, TypeOK
  <2>5. /\ job'[w] \in Job
        /\ job'[w].host = job[w].host /\ job'[w].mode = job[w].mode
        /\ job'[w].key = job[w].key /\ job'[w].cert = job[w].cert
        /\ job'[w].alone = job[w].alone /\ job'[w].place = job[w].place
        /\ Requested(job'[w]) = Requested(job[w])
    BY <2>2, <2>4 DEF Job, TypeOK, Requested
  <2>6. /\ \A v \in Workers \ {w} : job'[v] = job[v] /\ pc'[v] = pc[v]
        /\ pc[w] = "reloading" /\ pc'[w] = "storing" /\ Busy(w)'
        /\ job'[w] \in Job
        /\ job'[w].host = job[w].host /\ job'[w].mode = job[w].mode
        /\ job'[w].key = job[w].key /\ job'[w].cert = job[w].cert /\ job'[w].alone = job[w].alone
        /\ job'[w].place = job[w].place /\ Requested(job'[w]) = Requested(job[w])
    BY <1>10, <2>2, <2>5 DEF Reload, Step, TypeOK, Busy, Fault
  <2>7. /\ UNCHANGED <<hosts, rows>> /\ UNCHANGED certs
        /\ UNCHANGED <<device, cut>>
    BY <1>10, <2>2 DEF Reload, Step, TypeOK, Fault, table, world, record
  <2>8. \A g : Of(g)' = Of(g)
    BY <2>7, Recorded DEF Of
  <2>9. KeyOK'
    BY <2>2, <2>3, <2>6, <2>7, KeyFrame DEF KeyOK, Holding
  <2>10. Installing(w) => Installing(w)'
    BY <2>2, <2>6, <2>7, <2>8 DEF Installing, Holding, Job
  <2>11. HostOK(h)'
    BY <2>2, <2>3, <2>6, <2>7, <2>8, <2>10, GoesOn
  <2> QED
    BY <2>2, <2>6, <2>7, <2>8, <2>9, <2>11, WorkerStep DEF DeviceOK
<1>11. ASSUME NEW w \in Workers, StoreCert(w)
      PROVE  DeviceOK'
  <2>1. pc[w] \notin {"idle", "scanning", "picking"}
    BY <1>11 DEF StoreCert, Step
  <2> PICK h \in Hosts : h = job[w].host
    BY <2>1, Held
  <2>2. /\ job[w] \in Job /\ job[w].key \in Nat /\ Busy(w)
        /\ pc[w] \in Holding => job[w].cert \in 1 .. Len(certs)
    BY <2>1, Held DEF Busy
  <2>3. HostOK(h) /\ KeyOK
    BY <2>2 DEF DeviceOK
  <2>4. /\ \A v \in Workers \ {w} : job'[v] = job[v] /\ pc'[v] = pc[v]
        /\ pc[w] = "storing" /\ pc'[w] = "saving" /\ Busy(w)'
        /\ job'[w] = job[w]
    BY <1>11, <2>2 DEF StoreCert, Step, TypeOK, Busy, Fault
  <2>5. /\ UNCHANGED <<hosts, rows>> /\ UNCHANGED certs
        /\ UNCHANGED <<device, cut>>
    BY <1>11, <2>2 DEF StoreCert, Step, TypeOK, Fault, table, world, record
  <2>6. \A g : Of(g)' = Of(g)
    BY <2>5, Recorded DEF Of
  <2>7. KeyOK'
    BY <2>2, <2>3, <2>4, <2>5, KeyFrame DEF KeyOK, Holding
  <2>8. Installing(w) => Installing(w)'
    BY <2>4, <2>5, <2>6 DEF Installing, Holding
  <2>9. HostOK(h)'
    BY <2>2, <2>3, <2>4, <2>5, <2>6, <2>8, GoesOn
  <2> QED
    BY <2>2, <2>4, <2>5, <2>6, <2>7, <2>9, WorkerStep DEF DeviceOK
<1>12. ASSUME NEW w \in Workers, DeployFails(w)
      PROVE  DeviceOK'
  <2>1. pc[w] \notin {"idle", "scanning", "picking"}
    BY <1>12 DEF DeployFails, Step
  <2> PICK h \in Hosts : h = job[w].host
    BY <2>1, Held
  <2>2. /\ job[w] \in Job /\ job[w].key \in Nat /\ Busy(w)
        /\ pc[w] \in Holding => job[w].cert \in 1 .. Len(certs)
    BY <2>1, Held DEF Busy
  <2>3. HostOK(h) /\ KeyOK
    BY <2>2 DEF DeviceOK
  <2>4. job'[w] = [job[w] EXCEPT !.alone = FALSE]
    BY <1>12, <2>2 DEF DeployFails, TypeOK
  <2>5. /\ job'[w] \in Job
        /\ job'[w].host = job[w].host /\ job'[w].mode = job[w].mode
        /\ job'[w].key = job[w].key /\ job'[w].cert = job[w].cert
        /\ job'[w].alone = FALSE /\ job'[w].place = job[w].place
        /\ Requested(job'[w]) = Requested(job[w])
    BY <2>2, <2>4 DEF Job, TypeOK, Requested
  <2>6. /\ \A v \in Workers \ {w} : job'[v] = job[v] /\ pc'[v] = pc[v]
        /\ pc[w] \in {"installing", "keying", "reloading"}
        /\ pc'[w] = "storing" /\ Busy(w)'
        /\ job'[w] \in Job
        /\ job'[w].host = job[w].host /\ job'[w].mode = job[w].mode
        /\ job'[w].key = job[w].key /\ job'[w].cert = job[w].cert /\ job'[w].alone = FALSE
        /\ job'[w].place = job[w].place /\ Requested(job'[w]) = Requested(job[w])
    BY <1>12, <2>2, <2>5 DEF DeployFails, Step, TypeOK, Busy, Fault
  <2>7. /\ UNCHANGED <<hosts, rows>> /\ UNCHANGED certs
        /\ device' = device /\ cut' = cut \cup {h}
    BY <1>12, <2>2 DEF DeployFails, Step, TypeOK, Fault, table, world, record
  <2>8. \A g : Of(g)' = Of(g)
    BY <2>7, Recorded DEF Of
  <2>9. KeyOK'
    BY <2>2, <2>3, <2>6, <2>7, KeyFrame DEF KeyOK, Holding
  <2>10. h \in cut' /\ ~job'[w].alone /\ job'[w].host = h
    BY <2>2, <2>6, <2>7 DEF Job
  <2>11. HostOK(h)'
    BY <2>2, <2>3, <2>6, <2>7, <2>8, <2>10, GoesOn
  <2> QED
    BY <2>2, <2>6, <2>7, <2>8, <2>9, <2>11, WorkerStep DEF DeviceOK
<1>13. ASSUME NEW w \in Workers, Save(w)
      PROVE  DeviceOK'
  <2>1. pc[w] \notin {"idle", "scanning", "picking"}
    BY <1>13 DEF Save, Step
  <2> PICK h \in Hosts : h = job[w].host
    BY <2>1, Held
  <2>2. /\ job[w] \in Job /\ job[w].key \in Nat /\ Busy(w)
        /\ pc[w] \in Holding => job[w].cert \in 1 .. Len(certs)
    BY <2>1, Held DEF Busy
  <2>3. HostOK(h) /\ KeyOK
    BY <2>2 DEF DeviceOK
  <2>4. /\ \A v \in Workers \ {w} : job'[v] = job[v] /\ pc'[v] = pc[v]
        /\ ~Busy(w)' /\ UNCHANGED <<certs, device>>
    BY <1>13 DEF Save, Release, TypeOK, Busy, world
  <2>5. KeyOK'
    BY <2>3, <2>4, KeyFrame
  <2>6. \A s \in Statuses : [hosts[h] EXCEPT !.status = s] \in Row
    BY <1>13 DEF Save, TypeOK, Present, Row
  <2>7. hosts[h] \in Row
    BY <1>13 DEF Save, TypeOK, Present
  <2>8. PICK s \in Statuses :
          hosts' = hosts \/ hosts' = [hosts EXCEPT ![h] = [hosts[h] EXCEPT !.status = s]]
    BY <1>13 DEF Save, Outcome, Statuses, TypeOK
  <2>9. /\ pc[w] = "saving" /\ Present(h) /\ rows' = rows \cup {job[w].cert}
        /\ cut' = IF job[w].alone /\ Unedited(job[w]) THEN cut \ {h} ELSE cut \cup {h}
        /\ \A g \in Hosts \ {h} : hosts'[g] = hosts[g]
        /\ hosts'[h] # None
    BY <1>13, <2>6, <2>8 DEF Save, TypeOK, Present
  <2>10. SameTarget(h)
    BY <2>7, <2>8 DEF SameTarget, Row, TypeOK
  <2>11. \A g : Of(g)' = IF g = h THEN Of(g) \cup {job[w].cert} ELSE Of(g)
    BY <2>2, <2>4, <2>9 DEF Of, JobOK, Holding
  <2>12. CASE job[w].alone /\ Unedited(job[w])
    <3>1. At(h) = {w} /\ Installing(w)
      BY <2>2, <2>3, <2>12 DEF HostOK, At
    <3>2. \A c \in Of(h) : c \in Nat /\ c <= job[w].cert
      BY <2>2, <2>9, <3>1, Recorded DEF Installing, Holding, Of
    <3> PICK p : p = job[w].place
      OBVIOUS
    <3>3. /\ device[h][p].cert = job[w].cert /\ device[h][p].key = job[w].key
          /\ certs[job[w].cert].key = job[w].key
          /\ certs[job[w].cert].names = Requested(job[w])
      BY <2>2, <2>3, <2>9, <3>1 DEF Installing, KeyOK, Holding
    <3>4. /\ hosts'[h].place = p /\ hosts'[h].mode = job[w].mode
          /\ hosts'[h].names = job[w].names
      BY <2>10, <2>12 DEF SameTarget, Unedited
    <3>5. AsRecorded(h)'
      BY <2>2, <2>4, <2>9, <2>11, <3>2, <3>3, <3>4 DEF AsRecorded, Holding, Requested
    <3>6. HostOK(h)'
      BY <2>2, <2>3, <2>4, <2>9, <3>1, <3>5, Leaves
    <3> QED
      BY <2>2, <2>4, <2>5, <2>9, <2>11, <3>6, WorkerStep DEF DeviceOK
  <2>13. CASE ~(job[w].alone /\ Unedited(job[w]))
    <3>1. h \in cut'
      BY <2>9, <2>13
    <3>2. HostOK(h)'
      BY <2>2, <2>3, <2>4, <2>9, <3>1, Leaves
    <3> QED
      BY <2>2, <2>4, <2>5, <2>9, <2>11, <3>2, WorkerStep DEF DeviceOK
  <2> QED
    BY <2>12, <2>13
<1>14. ASSUME NEW w \in Workers, SaveGone(w)
      PROVE  DeviceOK'
  <2>1. pc[w] \notin {"idle", "scanning", "picking"}
    BY <1>14 DEF SaveGone, Step
  <2> PICK h \in Hosts : h = job[w].host
    BY <2>1, Held
  <2>2. /\ job[w] \in Job /\ job[w].key \in Nat /\ Busy(w)
        /\ pc[w] \in Holding => job[w].cert \in 1 .. Len(certs)
    BY <2>1, Held DEF Busy
  <2>3. HostOK(h) /\ KeyOK
    BY <2>2 DEF DeviceOK
  <2>4. /\ \A v \in Workers \ {w} : job'[v] = job[v] /\ pc'[v] = pc[v]
        /\ ~Busy(w)' /\ UNCHANGED <<certs, device>>
    BY <1>14 DEF SaveGone, Release, TypeOK, Busy, world
  <2>5. KeyOK'
    BY <2>3, <2>4, KeyFrame
  <2>6. UNCHANGED <<hosts, rows, cut>> /\ ~Present(h) /\ \A g : Of(g)' = Of(g)
    BY <1>14, <2>4 DEF SaveGone, Of, table, record
  <2>7. HostOK(h)'
    BY <2>2, <2>3, <2>4, <2>6, Leaves DEF HostOK, Present
  <2> QED
    BY <2>2, <2>4, <2>5, <2>6, <2>7, WorkerStep DEF DeviceOK
<1>15. ASSUME NEW w \in Workers, Raise(w)
      PROVE  DeviceOK'
  <2>1. pc[w] \notin {"idle", "scanning", "picking"}
    BY <1>15 DEF Raise, Step
  <2> PICK h \in Hosts : h = job[w].host
    BY <2>1, Held
  <2>2. /\ job[w] \in Job /\ job[w].key \in Nat /\ Busy(w)
        /\ pc[w] \in Holding => job[w].cert \in 1 .. Len(certs)
    BY <2>1, Held DEF Busy
  <2>3. HostOK(h) /\ KeyOK
    BY <2>2 DEF DeviceOK
  <2>4. /\ \A v \in Workers \ {w} : job'[v] = job[v] /\ pc'[v] = pc[v]
        /\ ~Busy(w)' /\ UNCHANGED <<certs, device>>
    BY <1>15 DEF Raise, Release, TypeOK, Busy, world
  <2>5. KeyOK'
    BY <2>3, <2>4, KeyFrame
  <2>6. /\ UNCHANGED <<hosts, rows>> /\ cut' = cut \cup {h}
        /\ \A g : Of(g)' = Of(g)
    BY <1>15, <2>4 DEF Raise, Fault, Of, table, record
  <2>7. HostOK(h)'
    BY <2>2, <2>3, <2>4, <2>6, Leaves DEF HostOK
  <2> QED
    BY <2>2, <2>4, <2>5, <2>6, <2>7, WorkerStep DEF DeviceOK
<1>16. CASE StartTick
  BY <1>16, TableFrame
     DEF StartTick, Busy, Present, SameTarget, TypeOK, Workers, table, world, record, tick
<1>17. CASE EndScan
  BY <1>17, TableFrame
     DEF EndScan, Busy, Present, SameTarget, TypeOK, Workers, table, world, record, tick
<1>18. CASE EndTick
  BY <1>18, TableFrame
     DEF EndTick, Busy, Present, SameTarget, TypeOK, Workers, table, world, record, tick
<1>19. ASSUME NEW e \in scan, ScanHost(e)
      PROVE  DeviceOK'
  BY <1>19, TableFrame DEF ScanHost, Present, SameTarget, table, world, record, tick
<1>20. ASSUME NEW e \in due, NextHost(e)
      PROVE  DeviceOK'
  <2>1. /\ Scheduler \in Workers /\ ~Busy(Scheduler) /\ e \in Entry
        /\ Begin(Scheduler, e)
        /\ UNCHANGED <<hosts, rows>>
    BY <1>20 DEF NextHost, TypeOK, Workers, table, record
  <2> QED
    BY <2>1, BeginDevice
<1>21. CASE Day
  BY <1>21, TableFrame DEF Day, Present, SameTarget, table, world, record, tick
<1>22. CASE Crash
  <2>1. /\ \A w \in Workers : ~Busy(w)'
        /\ UNCHANGED <<hosts, rows, certs, device>>
        /\ cut' = cut \cup {h \in Hosts : At(h) # {}}
    BY <1>22 DEF Crash, Fault, Busy, table, world, record
  <2>2. KeyOK' /\ \A h : At(h)' = {} /\ Of(h)' = Of(h)
    BY <2>1 DEF KeyOK, At, Of
  <2>3. ASSUME NEW h \in Hosts
        PROVE  HostOK(h)'
    BY <2>1, <2>2 DEF DeviceOK, HostOK, Present, AsRecorded
  <2> QED
    BY <2>2, <2>3 DEF DeviceOK
<1>23. CASE UNCHANGED vars
  BY <1>23, TableFrame DEF vars, Present, SameTarget, table, world, record, tick
<1> QED
  BY <1>1, <1>2, <1>3, <1>4, <1>5, <1>6, <1>7, <1>8, <1>9, <1>10, <1>11,
     <1>12, <1>13, <1>14, <1>15, <1>16, <1>17, <1>18, <1>19, <1>20, <1>21,
     <1>22, <1>23 DEF Next, Renew, Loop

\* A host whose last renewal went through undisturbed has on its device what the
\* tables say: its newest certificate, and the key of it.
THEOREM DevicesAreAsRecorded == Spec => []DeviceIsAsRecorded
<1> DEFINE All == TypeOK /\ JobOK /\ DeviceOK
<1>1. Init => All
  <2> SUFFICES ASSUME Init PROVE All
    OBVIOUS
  <2>1. \A w \in Workers : ~Busy(w)
    BY DEF Init, Busy
  <2>2. \A h : Of(h) = {} /\ At(h) = {}
    BY <2>1 DEF Init, Of, At
  <2>3. DeviceOK
    BY <2>1, <2>2 DEF DeviceOK, KeyOK, HostOK
  <2> QED
    BY <2>3, TypeInit DEF Inv
<1>2. All /\ [Next]_vars => All'
  BY TypeStep, JobStep, DeviceStep
<1>3. All => DeviceIsAsRecorded
  BY DEF DeviceOK, HostOK, AsRecorded, DeviceIsAsRecorded
<1> QED
  BY <1>1, <1>2, <1>3, PTL DEF Spec
=============================================================================
