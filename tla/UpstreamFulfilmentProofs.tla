---------------------- MODULE UpstreamFulfilmentProofs ----------------------
(***************************************************************************)
(* What a thread that obtains a certificate leaves at the DNS provider and *)
(* the edge, and what the CA finds there, for any threads, identifiers,    *)
(* records, CAs, methods, failures and restarts.                           *)
(***************************************************************************)
EXTENDS UpstreamFulfilment, FiniteSetTheorems, SequenceTheorems, TLAPS

\* A thread that has an order at the CA, and one that keeps a list to clean up.
Held(w) == pc[w] \in {"binding", "publishing", "answering", "finalizing", "cleaning"}
Listing(w) == pc[w] \in {"publishing", "answering", "finalizing", "cleaning"}

\* What the list of a thread still stands for.
OnList(w) == IF pc[w] = "cleaning" THEN job[w].todo ELSE job[w].work

\* What a thread knows where it is.
JobAt(w) ==
  LET j == job[w] IN
  /\ pc[w] = "ordering" => j.order = 0
  /\ pc[w] \in {"ordering", "binding"} => j.work = {} /\ j.todo = j.ids
  /\ pc[w] = "binding" => method = "edge"
  /\ pc[w] = "publishing" => j.todo = j.ids \ j.work
  /\ pc[w] \in {"answering", "finalizing"} => j.work = j.ids
  /\ pc[w] = "cleaning" => j.todo \subseteq j.work
  /\ pc[w] # "idle" => IsFiniteSet(j.ids) /\ j.todo \subseteq j.ids /\ j.ids # {}
  /\ pc[w] \in {"publishing", "answering"} => j.todo # {}
  /\ Held(w) => \A i \in Identifiers : orders[j.order].authz[i] # "none" <=> i \in j.ids
  /\ pc[w] \in {"binding", "publishing"} => orders[j.order].asked = {}

\* An order is of one thread.
Owned == \A v, w \in Workers : Held(v) /\ Held(w) /\ job[v].order = job[w].order => v = w

Jobs == Owned /\ \A w \in Workers : JobAt(w)

\* A value is at the record of its name, and on the list of the thread whose order it is of.
Accounts(w, v) == Held(w) /\ job[w].order = v.order /\ v.id \in OnList(w)

Quiet == method \in {"edge", "acmedns"} => \A r \in Records : zone[r] = {}

Accounted ==
  /\ Quiet
  /\ \A r \in Records : \A v \in zone[r] :
       /\ r = RecordOf[v.id] /\ v.order \in DOMAIN orders
       /\ v \in lost \/ \E w \in Workers : Accounts(w, v)

\* The port is held by the one thread that has bound it and not given it back.
PortHeld ==
  /\ port # None => Listing(port) /\ method = "edge"
  /\ method = "edge" => \A w \in Workers : Listing(w) => port = w

\* What the CA was asked for is attended to, unless the order has failed.
Attends(w, o) == pc[w] \in {"answering", "finalizing"} /\ job[w].order = o

Attended ==
  \A o \in DOMAIN orders : \A i \in orders[o].asked :
    /\ i \in Identifiers /\ orders[o].authz[i] # "none"
    /\ orders[o].authz[i] = "pending" /\ o \notin failed => \E w \in Workers : Attends(w, o)

\* An order that met no other is the only one in progress.
AloneOK ==
  \A v, w \in Workers : Held(v) /\ Held(w) /\ job[w].order \in alone => v = w

\* Where the CA will look, until the thread cleans up.
FoundBy(w) ==
  LET j == job[w] IN
  pc[w] \in {"publishing", "answering", "finalizing"} =>
    /\ method = "cloudflare" \/ (method = "challtestsrv" /\ j.order \in alone) =>
         \A i \in j.work : Val(w, i) \in zone[RecordOf[i]]
    /\ method = "acmedns" /\ j.order \in alone /\ Cardinality(j.ids) <= 2 =>
         /\ \A i \in j.work : Val(w, i) \in {kept[1], kept[2]}
         /\ \A i \in j.ids : j.work = {i} => kept[2] = Val(w, i)

Found == \A w \in Workers : FoundBy(w)

\* The bound.
Ordering == {w \in Workers : pc[w] = "ordering"}
Bound == IsFiniteSet(Ordering) /\ Len(orders) + Cardinality(Ordering) <= MaxOrders

Inv ==
  /\ TypeOK /\ Bound
  /\ Jobs /\ PortHeld /\ Accounted
  /\ Attended /\ AloneOK /\ Found /\ ProofsAreFound
-----------------------------------------------------------------------------
\* The two halves of the types: the threads, and what they share.

AtWork == {"binding", "publishing", "answering", "finalizing", "cleaning"}

Threads ==
  /\ pc \in [Workers -> PC] /\ job \in [Workers -> Job \cup {None}]
  /\ \A w \in Workers :
       /\ Busy(w) <=> job[w] # None
       /\ pc[w] \in AtWork => job[w].order \in DOMAIN orders /\ job[w].work \subseteq job[w].ids

Stores ==
  /\ method \in Methods
  /\ certs \in Seq([ca: Cas, order: 0 .. MaxOrders])
  /\ orders \in Seq(Order) /\ Len(orders) <= MaxOrders
  /\ zone \in [Records -> SUBSET Value]
  /\ kept \in (Value \cup {None}) \X (Value \cup {None})
  /\ port \in Workers \cup {None}
  /\ alone \subseteq DOMAIN orders /\ failed \subseteq DOMAIN orders
  /\ lost \subseteq Value
  /\ faults \in 0 .. MaxFaults

LEMMA Halves == (TypeOK <=> Threads /\ Stores) /\ (TypeOK <=> Threads /\ Stores)'
  BY DEF TypeOK, Threads, Stores, AtWork

\* Where a thread goes, it is with the job it is given; the others stay.
LEMMA Went ==
  ASSUME TypeOK, NEW w \in Workers, NEW at, NEW j, Goto(w, at, j)
  PROVE  /\ pc'[w] = at /\ job'[w] = j
         /\ \A v \in Workers \ {w} : pc'[v] = pc[v] /\ job'[v] = job[v]
  BY DEF TypeOK, Goto

LEMMA BusyHasJob ==
  ASSUME TypeOK, NEW w \in Workers, pc[w] # "idle"
  PROVE  /\ job[w] \in Job /\ job[w].todo \subseteq Identifiers /\ job[w].work \subseteq Identifiers
         /\ job[w].ids \subseteq Identifiers /\ job[w].order \in 0 .. MaxOrders
         /\ job[w].ca \in Cas
  BY DEF TypeOK, Busy, Job

LEMMA HeldHasOrder ==
  ASSUME TypeOK, NEW w \in Workers, Held(w)
  PROVE  /\ pc[w] # "idle"
         /\ job[w].order \in DOMAIN orders /\ job[w].order # 0
         /\ job[w].work \subseteq job[w].ids
  BY DEF TypeOK, Held

LEMMA FirstIsOne ==
  ASSUME NEW w, job[w].todo # {}
  PROVE  First(w) \in job[w].todo
  BY DEF First

LEMMA MovedTypes ==
  ASSUME TypeOK, NEW w \in Workers, NEW at \in PC \ {"idle"}, NEW j \in Job, Goto(w, at, j),
         DOMAIN orders \subseteq DOMAIN orders',
         at \in AtWork => j.order \in DOMAIN orders' /\ j.work \subseteq j.ids
  PROVE  Threads'
<1>1. pc' \in [Workers -> PC] /\ job' \in [Workers -> Job \cup {None}]
  BY DEF TypeOK, Goto
<1>2. ASSUME NEW v \in Workers
      PROVE  /\ Busy(v)' <=> job'[v] # None
             /\ pc'[v] \in AtWork => job'[v].order \in DOMAIN orders' /\ job'[v].work \subseteq job'[v].ids
  <2>1. CASE v = w
    BY <2>1, Went, FulfilmentAssumption DEF Busy
  <2>2. CASE v # w
    BY <2>2, Went DEF TypeOK, Busy, AtWork
  <2> QED
    BY <2>1, <2>2
<1> QED
  BY <1>1, <1>2 DEF Threads

LEMMA EndedTypes ==
  ASSUME TypeOK, NEW w \in Workers, Goto(w, "idle", None),
         DOMAIN orders \subseteq DOMAIN orders'
  PROVE  Threads'
<1>1. pc' \in [Workers -> PC] /\ job' \in [Workers -> Job \cup {None}]
  BY DEF TypeOK, Goto, PC
<1>2. ASSUME NEW v \in Workers
      PROVE  /\ Busy(v)' <=> job'[v] # None
             /\ pc'[v] \in AtWork => job'[v].order \in DOMAIN orders' /\ job'[v].work \subseteq job'[v].ids
  <2>1. CASE v = w
    BY <2>1, Went DEF Busy, AtWork
  <2>2. CASE v # w
    BY <2>2, Went DEF TypeOK, Busy, AtWork
  <2> QED
    BY <2>1, <2>2
<1> QED
  BY <1>1, <1>2 DEF Threads

LEMMA StillTypes ==
  ASSUME TypeOK, UNCHANGED <<pc, job>>, DOMAIN orders \subseteq DOMAIN orders'
  PROVE  Threads'
  BY DEF TypeOK, Threads, Busy, AtWork

\* A row of the CA's that is touched.
LEMMA OrderAsked ==
  ASSUME TypeOK, NEW o \in DOMAIN orders, NEW i \in Identifiers,
         orders' = [orders EXCEPT ![o].asked = @ \cup {i}]
  PROVE  /\ orders' \in Seq(Order) /\ Len(orders') = Len(orders) /\ DOMAIN orders' = DOMAIN orders
         /\ \A p \in DOMAIN orders : orders'[p].authz = orders[p].authz
         /\ \A p \in DOMAIN orders :
              orders'[p].asked = IF p = o THEN orders[o].asked \cup {i} ELSE orders[p].asked
<1> DEFINE r == [orders[o] EXCEPT !.asked = @ \cup {i}]
<1>1. orders \in Seq(Order) /\ orders[o] \in Order
  BY DEF TypeOK
<1>2. r \in Order /\ r.authz = orders[o].authz /\ r.asked = orders[o].asked \cup {i}
  BY <1>1 DEF Order
<1>3. orders' = [orders EXCEPT ![o] = r]
  OBVIOUS
<1> HIDE DEF r
<1>4. /\ orders' \in Seq(Order) /\ Len(orders') = Len(orders)
      /\ \A p \in 1 .. Len(orders) : orders'[p] = IF p = o THEN r ELSE orders[p]
  <2>1. o \in 1 .. Len(orders)
    BY <1>1
  <2> DEFINE new == [orders EXCEPT ![o] = r]
  <2>2. /\ new \in Seq(Order) /\ Len(new) = Len(orders)
        /\ \A p \in 1 .. Len(orders) : new[p] = IF p = o THEN r ELSE orders[p]
    BY ONLY <1>1, <1>2, <2>1, ExceptSeq
  <2> QED
    BY <1>3, <2>2
<1>5. DOMAIN orders' = 1 .. Len(orders) /\ DOMAIN orders = 1 .. Len(orders)
  BY <1>1, <1>4
<1> QED
  BY <1>2, <1>4, <1>5

LEMMA OrderValidated ==
  ASSUME TypeOK, NEW o \in DOMAIN orders, NEW i \in Identifiers, NEW s \in {"valid", "invalid"},
         orders' = [orders EXCEPT ![o].authz[i] = s]
  PROVE  /\ orders' \in Seq(Order) /\ Len(orders') = Len(orders) /\ DOMAIN orders' = DOMAIN orders
         /\ \A p \in DOMAIN orders : orders'[p].asked = orders[p].asked
         /\ \A p \in DOMAIN orders, k \in Identifiers :
              orders'[p].authz[k] = IF p = o /\ k = i THEN s ELSE orders[p].authz[k]
<1> DEFINE r == [orders[o] EXCEPT !.authz[i] = s]
<1>1. orders \in Seq(Order) /\ orders[o] \in Order
  BY DEF TypeOK
<1>2. /\ r \in Order /\ r.asked = orders[o].asked
      /\ \A k \in Identifiers : r.authz[k] = IF k = i THEN s ELSE orders[o].authz[k]
  BY <1>1 DEF Order
<1>3. orders' = [orders EXCEPT ![o] = r]
  OBVIOUS
<1> HIDE DEF r
<1>4. /\ orders' \in Seq(Order) /\ Len(orders') = Len(orders)
      /\ \A p \in 1 .. Len(orders) : orders'[p] = IF p = o THEN r ELSE orders[p]
  <2>1. o \in 1 .. Len(orders)
    BY <1>1
  <2> DEFINE new == [orders EXCEPT ![o] = r]
  <2>2. /\ new \in Seq(Order) /\ Len(new) = Len(orders)
        /\ \A p \in 1 .. Len(orders) : new[p] = IF p = o THEN r ELSE orders[p]
    BY ONLY <1>1, <1>2, <2>1, ExceptSeq
  <2> QED
    BY <1>3, <2>2
<1>5. DOMAIN orders' = 1 .. Len(orders) /\ DOMAIN orders = 1 .. Len(orders)
  BY <1>1, <1>4
<1> QED
  BY <1>2, <1>4, <1>5
-----------------------------------------------------------------------------
\* The types.

LEMMA Sets ==
  /\ PC = {"idle", "ordering"} \cup AtWork
  /\ None \notin Job /\ None \notin Value /\ None \notin Workers
  /\ MaxOrders \in Nat /\ MaxFaults \in Nat
  /\ \A i \in Identifiers : RecordOf[i] \in Records
  BY FulfilmentAssumption DEF PC, AtWork

LEMMA ValueTyped ==
  ASSUME TypeOK, NEW w \in Workers, Held(w), NEW i \in job[w].ids
  PROVE  Val(w, i) \in Value
<1>1. job[w] \in Job /\ job[w].order # 0
  BY HeldHasOrder, BusyHasJob
<1> QED
  BY <1>1, Sets DEF Val, Value, Job

LEMMA PublishTyped ==
  ASSUME TypeOK, NEW w \in Workers, Held(w), NEW i \in job[w].ids, PublishTxt(w, i)
  PROVE  /\ zone' \in [Records -> SUBSET Value]
         /\ kept' \in (Value \cup {None}) \X (Value \cup {None})
<1>1. Val(w, i) \in Value
  BY ValueTyped
<1> QED
  BY <1>1 DEF PublishTxt, Update, TypeOK

LEMMA RemoveTyped ==
  ASSUME TypeOK, NEW w \in Workers, NEW i \in Identifiers, RemoveTxt(w, i)
  PROVE  zone' \in [Records -> SUBSET Value] /\ kept' = kept
<1> DEFINE left == CASE method = "cloudflare" -> zone[RecordOf[i]] \ {Val(w, i)}
                     [] method = "challtestsrv" -> {}
                     [] OTHER -> zone[RecordOf[i]]
<1>1. zone' = [zone EXCEPT ![RecordOf[i]] = left] /\ kept' = kept
  BY DEF RemoveTxt
<1>2. zone[RecordOf[i]] \in SUBSET Value
  BY Sets DEF TypeOK
<1>3. left \in SUBSET Value
  BY <1>2
<1> HIDE DEF left
<1> QED
  BY <1>1, <1>3 DEF TypeOK

LEMMA FaultTyped ==
  ASSUME TypeOK, NEW os, os \ {0} \subseteq DOMAIN orders, NEW values \in SUBSET Value, Fault(os, values)
  PROVE  /\ failed' = failed \cup (os \ {0}) /\ lost' = lost \cup values /\ alone' = alone
         /\ failed' \subseteq DOMAIN orders /\ lost' \subseteq Value /\ faults' \in 0 .. MaxFaults
  BY Sets DEF Fault, TypeOK

LEMMA InProgressIs ==
  ASSUME TypeOK, \A w \in Workers : JobAt(w)
  PROVE  /\ InProgress = {job[w].order : w \in {v \in Workers : Held(v)}}
         /\ InProgress \subseteq DOMAIN orders
<1>1. ASSUME NEW w \in Workers, Busy(w) PROVE Held(w) \/ job[w].order = 0
  BY <1>1, Sets DEF Busy, TypeOK, Held, JobAt, AtWork
<1>2. ASSUME NEW w \in Workers, Held(w)
      PROVE  Busy(w) /\ job[w].order # 0 /\ job[w].order \in DOMAIN orders
  BY <1>2, HeldHasOrder DEF Busy
<1> QED
  BY <1>1, <1>2 DEF InProgress

LEMMA TypeEnroll ==
  ASSUME TypeOK, NEW w \in Workers, NEW c \in Cas, Enroll(w, c)
  PROVE  TypeOK'
<1>1. certs' \in Seq([ca: Cas, order: 0 .. MaxOrders])
  <2>1. [ca |-> c, order |-> 0] \in [ca: Cas, order: 0 .. MaxOrders]
    BY Sets
  <2> QED
    BY <2>1 DEF Enroll, TypeOK
<1>2. Threads'
  BY StillTypes DEF Enroll
<1>3. Stores'
  BY <1>1 DEF Enroll, TypeOK, Stores, ghosts, dns
<1> QED
  BY <1>2, <1>3, Halves

LEMMA TypeBegin ==
  ASSUME TypeOK, NEW w \in Workers, NEW c \in Cas, NEW ids \in Csrs, Begin(w, c, ids)
  PROVE  TypeOK'
<1> DEFINE j == [ca |-> c, ids |-> ids, order |-> 0, todo |-> ids, work |-> {}]
<1>1. j \in Job
  BY FulfilmentAssumption DEF Job
<1>2. Goto(w, "ordering", j)
  BY DEF Begin
<1> HIDE DEF j
<1>3. Threads'
  BY <1>1, <1>2, MovedTypes DEF Begin, ca, AtWork, PC
<1>4. Stores'
  BY DEF Begin, TypeOK, Stores, ghosts, ca, dns
<1> QED
  BY <1>3, <1>4, Halves

\* The order that is new at the CA.
LEMMA Ordered ==
  ASSUME TypeOK, Bound, NEW w \in Workers, NewOrder(w), NEW o, o = Len(orders) + 1
  PROVE  /\ orders' \in Seq(Order) /\ Len(orders') = o /\ o <= MaxOrders
         /\ \A p \in DOMAIN orders : orders'[p] = orders[p]
         /\ orders'[o].asked = {}
         /\ \A i \in Identifiers :
              orders'[o].authz[i] = IF i \in job[w].ids THEN "pending" ELSE "none"
         /\ DOMAIN orders' = DOMAIN orders \cup {o} /\ o \notin DOMAIN orders
         /\ o \in 1 .. MaxOrders
<1> DEFINE r == [ca |-> job[w].ca, asked |-> {},
                 authz |-> [i \in Identifiers |-> IF i \in job[w].ids THEN "pending" ELSE "none"]]
<1>1. pc[w] = "ordering" /\ orders' = Append(orders, r)
  BY DEF NewOrder
<1>2. r \in Order
  BY <1>1, BusyHasJob DEF Order
<1>3. o <= MaxOrders
  <2>1. w \in Ordering
    BY <1>1 DEF Ordering
  <2>2. Cardinality(Ordering) \in Nat /\ Cardinality(Ordering) # 0
    BY <2>1, FS_CardinalityType, FS_EmptySet DEF Bound
  <2> QED
    BY <2>2, Sets DEF Bound, TypeOK
<1>4. /\ r.asked = {}
      /\ \A i \in Identifiers : r.authz[i] = IF i \in job[w].ids THEN "pending" ELSE "none"
  OBVIOUS
<1> HIDE DEF r
<1>5. orders \in Seq(Order)
  BY DEF TypeOK
<1>6. /\ orders' \in Seq(Order) /\ Len(orders') = o
      /\ \A p \in 1 .. Len(orders) : orders'[p] = orders[p]
      /\ orders'[o] = r
  BY <1>1, <1>2, <1>5, AppendProperties
<1>7. /\ DOMAIN orders = 1 .. Len(orders) /\ Len(orders) \in Nat
      /\ DOMAIN orders' = 1 .. Len(orders')
  BY <1>5, <1>6
<1> QED
  BY <1>3, <1>4, <1>6, <1>7, Sets

LEMMA TypeNewOrder ==
  ASSUME TypeOK, Bound, NEW w \in Workers, JobAt(w), NewOrder(w)
  PROVE  TypeOK'
<1>0. PICK o : o = Len(orders) + 1
  OBVIOUS
<1>1. /\ orders' \in Seq(Order) /\ Len(orders') <= MaxOrders
      /\ DOMAIN orders' = DOMAIN orders \cup {o} /\ o \in 1 .. MaxOrders
  BY <1>0, Ordered
<1>2. PICK at \in {"publishing", "binding"} : Goto(w, at, [job[w] EXCEPT !.order = o])
  BY <1>0 DEF NewOrder
<1>3. pc[w] = "ordering" /\ job[w] \in Job /\ job[w].work = {}
  BY BusyHasJob DEF NewOrder, JobAt
<1> DEFINE j == [job[w] EXCEPT !.order = o]
<1>4. j \in Job /\ j.order = o /\ j.work \subseteq j.ids
  BY <1>1, <1>3 DEF Job
<1> HIDE DEF j
<1>5. Threads'
  BY <1>1, <1>2, <1>4, MovedTypes DEF j, PC
<1>6. UNCHANGED <<method, certs, dns, port, failed, lost, faults>>
      /\ (alone' = alone \cup {o} \/ alone' = alone \ InProgress)
  BY <1>0 DEF NewOrder
<1>7. Stores'
  BY <1>1, <1>6 DEF TypeOK, Stores, dns
<1> QED
  BY <1>5, <1>7, Halves

LEMMA TypeBindPort ==
  ASSUME TypeOK, NEW w \in Workers, JobAt(w), BindPort(w)
  PROVE  TypeOK'
<1>1. pc[w] = "binding" /\ job[w] \in Job /\ UNCHANGED <<method, ca, dns, ghosts>>
  BY BusyHasJob DEF BindPort
<1>2. CASE port = None
  <2>1. Goto(w, "publishing", job[w]) /\ port' = w
    BY <1>2 DEF BindPort
  <2>2. Threads'
    BY <1>1, <2>1, HeldHasOrder, MovedTypes DEF Held, ca, PC
  <2>3. Stores'
    BY <1>1, <2>1 DEF TypeOK, Stores, dns, ca, ghosts
  <2> QED
    BY <2>2, <2>3, Halves
<1>3. CASE port # None
  <2>1. Goto(w, "idle", None) /\ port' = port
    BY <1>3 DEF BindPort
  <2>2. Threads'
    BY <1>1, <2>1, EndedTypes DEF ca
  <2>3. Stores'
    BY <1>1, <2>1 DEF TypeOK, Stores, dns, ca, ghosts
  <2> QED
    BY <2>2, <2>3, Halves
<1> QED
  BY <1>2, <1>3

\* What publication makes of a job, as a fact on records.
LEMMA ListedJob ==
  ASSUME NEW j \in Job, NEW i \in j.ids, NEW left \in SUBSET j.ids
  PROVE  /\ Listed(j, i, left) \in Job
         /\ Listed(j, i, left).ca = j.ca /\ Listed(j, i, left).ids = j.ids
         /\ Listed(j, i, left).order = j.order /\ Listed(j, i, left).todo = left
         /\ Listed(j, i, left).work = j.work \cup {i}
  BY DEF Listed, Job

LEMMA TodoJob ==
  ASSUME NEW j \in Job, NEW left \in SUBSET Identifiers
  PROVE  /\ [j EXCEPT !.todo = left] \in Job
         /\ [j EXCEPT !.todo = left].ca = j.ca /\ [j EXCEPT !.todo = left].ids = j.ids
         /\ [j EXCEPT !.todo = left].order = j.order /\ [j EXCEPT !.todo = left].todo = left
         /\ [j EXCEPT !.todo = left].work = j.work
  BY DEF Job

\* One more proof is published and listed.
LEMMA Publishes ==
  ASSUME TypeOK, NEW w \in Workers, JobAt(w), PublishProof(w)
  PROVE  LET j == job[w] IN
         /\ pc[w] = "publishing" /\ j \in Job /\ Held(w)
         /\ First(w) \in j.ids \ j.work
         /\ \E at, left : /\ Goto(w, at, Listed(j, First(w), left))
                          /\ left \in SUBSET j.ids /\ left # {}
                          /\ \/ at = "publishing" /\ left = j.ids \ (j.work \cup {First(w)})
                             \/ at = "answering" /\ left = j.ids /\ j.work \cup {First(w)} = j.ids
         /\ IF method # "edge" THEN PublishTxt(w, First(w)) ELSE UNCHANGED dns
         /\ UNCHANGED <<method, ca, port, ghosts>>
<1>1. pc[w] = "publishing" /\ job[w] \in Job /\ Held(w) /\ job[w].todo # {}
      /\ job[w].todo = job[w].ids \ job[w].work
      /\ job[w].work \subseteq job[w].ids /\ job[w].ids # {}
  BY BusyHasJob, HeldHasOrder DEF PublishProof, Held, JobAt
<1>2. First(w) \in job[w].ids \ job[w].work
  BY <1>1, FirstIsOne
<1> DEFINE j == job[w]
           i == First(w)
           rest == j.todo \ {i}
<1>3. rest = j.ids \ (j.work \cup {i})
  BY <1>1
<1>4. \/ rest = {} /\ Goto(w, "answering", Listed(j, i, j.ids))
      \/ rest # {} /\ Goto(w, "publishing", Listed(j, i, rest))
  BY DEF PublishProof
<1>5. \E at, left : /\ Goto(w, at, Listed(j, i, left))
                    /\ left \in SUBSET j.ids /\ left # {}
                    /\ \/ at = "publishing" /\ left = j.ids \ (j.work \cup {i})
                       \/ at = "answering" /\ left = j.ids /\ j.work \cup {i} = j.ids
  <2>1. CASE rest = {}
    <3>1. Goto(w, "answering", Listed(j, i, j.ids)) /\ j.work \cup {i} = j.ids
      BY <1>1, <1>2, <1>3, <1>4, <2>1
    <3> QED
      BY <1>1, <3>1
  <2>2. CASE rest # {}
    <3>1. Goto(w, "publishing", Listed(j, i, rest)) /\ rest \in SUBSET j.ids
      BY <1>3, <1>4, <2>2
    <3> QED
      BY <1>3, <2>2, <3>1
  <2> QED
    BY <2>1, <2>2
<1> QED
  BY <1>1, <1>2, <1>5 DEF PublishProof

LEMMA TypePublishProof ==
  ASSUME TypeOK, NEW w \in Workers, JobAt(w), PublishProof(w)
  PROVE  TypeOK'
<1> DEFINE i == First(w)
<1>1. /\ pc[w] = "publishing" /\ job[w] \in Job /\ Held(w) /\ i \in job[w].ids
      /\ IF method # "edge" THEN PublishTxt(w, i) ELSE UNCHANGED dns
      /\ UNCHANGED <<method, ca, port, ghosts>>
  BY Publishes
<1>2. PICK at \in {"publishing", "answering"}, left \in SUBSET job[w].ids :
        Goto(w, at, Listed(job[w], i, left))
  BY Publishes
<1> DEFINE j == Listed(job[w], i, left)
<1>3. j \in Job /\ j.order = job[w].order /\ j.work \subseteq j.ids
  BY <1>1, HeldHasOrder, ListedJob
<1> HIDE DEF j, i
<1>4. Threads'
  BY <1>1, <1>2, <1>3, HeldHasOrder, MovedTypes DEF j, ca, PC
<1>5. /\ zone' \in [Records -> SUBSET Value]
      /\ kept' \in (Value \cup {None}) \X (Value \cup {None})
  <2>1. CASE method # "edge"
    BY <1>1, <2>1, PublishTyped
  <2>2. CASE method = "edge"
    BY <1>1, <2>2 DEF dns, TypeOK
  <2> QED
    BY <2>1, <2>2
<1>6. Stores'
  BY <1>1, <1>5 DEF TypeOK, Stores, ca, ghosts
<1> QED
  BY <1>4, <1>6, Halves
\* A thread that keeps its job, and has another list to go through.
LEMMA TurnTypes ==
  ASSUME TypeOK, NEW w \in Workers, Held(w), NEW at \in AtWork, NEW left \in SUBSET job[w].ids,
         Goto(w, at, [job[w] EXCEPT !.todo = left]), DOMAIN orders' = DOMAIN orders
  PROVE  Threads'
<1>1. job[w] \in Job /\ left \in SUBSET Identifiers
  BY HeldHasOrder, BusyHasJob
<1> DEFINE j == [job[w] EXCEPT !.todo = left]
<1>2. j \in Job /\ j.order \in DOMAIN orders /\ j.work \subseteq j.ids
  BY <1>1, TodoJob, HeldHasOrder, SMTT(20)
<1> HIDE DEF j
<1> QED
  BY <1>2, MovedTypes, Sets DEF j, AtWork

LEMMA Answers ==
  ASSUME TypeOK, NEW w \in Workers, JobAt(w), AnswerChallenge(w)
  PROVE  /\ pc[w] = "answering" /\ Held(w) /\ First(w) \in job[w].ids
         /\ job[w].order \in DOMAIN orders /\ First(w) \in Identifiers
         /\ \E at \in {"answering", "finalizing"}, left \in SUBSET job[w].ids :
              Goto(w, at, [job[w] EXCEPT !.todo = left])
         /\ orders' = [orders EXCEPT ![job[w].order].asked = @ \cup {First(w)}]
         /\ UNCHANGED <<method, certs, revokes, dns, port, ghosts>>
<1>1. pc[w] = "answering" /\ Held(w) /\ job[w].todo # {} /\ job[w].todo \subseteq job[w].ids
  BY DEF AnswerChallenge, Held, JobAt
<1>2. First(w) \in job[w].ids /\ First(w) \in Identifiers /\ job[w].order \in DOMAIN orders
  BY <1>1, FirstIsOne, BusyHasJob, HeldHasOrder
<1>3. job[w].todo \ {First(w)} \in SUBSET job[w].ids
  BY <1>1
<1>4. PICK at \in {"answering", "finalizing"} :
        Goto(w, at, [job[w] EXCEPT !.todo = job[w].todo \ {First(w)}])
  BY DEF AnswerChallenge
<1> QED
  BY <1>1, <1>2, <1>3, <1>4 DEF AnswerChallenge

LEMMA TypeAnswerChallenge ==
  ASSUME TypeOK, NEW w \in Workers, JobAt(w), AnswerChallenge(w)
  PROVE  TypeOK'
<1>1. orders' \in Seq(Order) /\ Len(orders') = Len(orders) /\ DOMAIN orders' = DOMAIN orders
  BY Answers, OrderAsked
<1>2. Threads'
  <2>1. PICK at \in {"answering", "finalizing"}, left \in SUBSET job[w].ids :
          Goto(w, at, [job[w] EXCEPT !.todo = left])
    BY Answers
  <2>2. Held(w) /\ at \in AtWork
    BY Answers DEF AtWork
  <2> QED
    BY <1>1, <2>1, <2>2, TurnTypes
<1>3. UNCHANGED <<method, certs, revokes, dns, port, ghosts>>
  BY Answers
<1>4. Stores'
  BY <1>1, <1>3 DEF TypeOK, Stores, dns, ghosts
<1> QED
  BY <1>2, <1>4, Halves

LEMMA Validates ==
  ASSUME TypeOK, NEW o \in DOMAIN orders, NEW i \in Identifiers, Validate(o, i)
  PROVE  \E s \in {"valid", "invalid"} :
           /\ orders' = [orders EXCEPT ![o].authz[i] = s]
           /\ Proved(o, i) => s = "valid"
<1> DEFINE s == IF Proved(o, i) THEN "valid" ELSE "invalid"
<1>1. s \in {"valid", "invalid"} /\ orders' = [orders EXCEPT ![o].authz[i] = s]
  BY DEF Validate
<1> QED
  BY <1>1

LEMMA TypeValidate ==
  ASSUME TypeOK, NEW o \in DOMAIN orders, NEW i \in Identifiers, Validate(o, i)
  PROVE  TypeOK'
<1>1. orders' \in Seq(Order) /\ Len(orders') = Len(orders) /\ DOMAIN orders' = DOMAIN orders
  BY Validates, OrderValidated
<1>2. UNCHANGED <<method, certs, revokes, dns, port, pc, job, ghosts>>
  BY DEF Validate
<1>3. Threads'
  BY <1>1, <1>2, StillTypes
<1>4. Stores'
  BY <1>1, <1>2 DEF TypeOK, Stores, dns, ghosts
<1> QED
  BY <1>3, <1>4, Halves

LEMMA TypeFinalize ==
  ASSUME TypeOK, NEW w \in Workers, Finalize(w)
  PROVE  TypeOK'
<1>1. /\ pc[w] = "finalizing" /\ Held(w) /\ Goto(w, "cleaning", [job[w] EXCEPT !.todo = job[w].work])
      /\ UNCHANGED <<method, orders, revokes, dns, port, ghosts>>
  BY DEF Finalize, Held
<1>2. job[w] \in Job /\ job[w].work \in SUBSET job[w].ids
  BY <1>1, BusyHasJob, HeldHasOrder
<1>3. certs' \in Seq([ca: Cas, order: 0 .. MaxOrders])
  <2> DEFINE new == [ca |-> job[w].ca, order |-> job[w].order]
             Cert == [ca: Cas, order: 0 .. MaxOrders]
  <2>1. new \in Cert
    BY <1>1, BusyHasJob
  <2>2. certs' = Append(certs, new) \/ certs' = certs
    BY DEF Finalize
  <2>3. certs \in Seq(Cert)
    BY DEF TypeOK
  <2> HIDE DEF new, Cert
  <2>4. certs' \in Seq(Cert)
    BY <2>1, <2>2, <2>3, AppendProperties
  <2> QED
    BY <2>4 DEF Cert
<1>4. Threads'
  BY <1>1, <1>2, TurnTypes DEF AtWork
<1>5. Stores'
  BY <1>1, <1>3 DEF TypeOK, Stores, dns, ghosts
<1> QED
  BY <1>4, <1>5, Halves

LEMMA TypeDeadline ==
  ASSUME TypeOK, NEW w \in Workers, Deadline(w)
  PROVE  TypeOK'
<1>1. /\ pc[w] = "finalizing" /\ Held(w) /\ Goto(w, "cleaning", [job[w] EXCEPT !.todo = job[w].work])
      /\ failed' = failed \cup {job[w].order}
      /\ UNCHANGED <<method, ca, dns, port, alone, lost, faults>>
  BY DEF Deadline, Held
<1>2. job[w].work \in SUBSET job[w].ids /\ job[w].order \in DOMAIN orders
  BY <1>1, HeldHasOrder
<1>3. Threads'
  BY <1>1, <1>2, TurnTypes DEF AtWork, ca
<1>4. Stores'
  BY <1>1, <1>2 DEF TypeOK, Stores, dns, ca
<1> QED
  BY <1>3, <1>4, Halves

\* One entry less on the list to clean up, whether its removal succeeds or not.
LEMMA Cleans ==
  ASSUME TypeOK, NEW w \in Workers, JobAt(w), CleanUp(w) \/ CleanUpFails(w)
  PROVE  /\ pc[w] = "cleaning" /\ Held(w)
         /\ First(w) \in job[w].todo /\ First(w) \in Identifiers /\ First(w) \in job[w].ids
         /\ job[w].todo \subseteq job[w].ids
         /\ Goto(w, "cleaning", [job[w] EXCEPT !.todo = @ \ {First(w)}])
         /\ \/ method # "edge" /\ RemoveTxt(w, First(w)) /\ UNCHANGED ghosts
            \/ method = "edge" /\ UNCHANGED <<dns, ghosts>>
            \/ /\ Fault({}, {Val(w, First(w))})
               /\ RemoveTxt(w, First(w)) \/ UNCHANGED dns
         /\ UNCHANGED <<method, ca, port>>
<1>1. pc[w] = "cleaning" /\ Held(w) /\ job[w].todo # {} /\ job[w].todo \subseteq job[w].ids
  BY DEF CleanUp, CleanUpFails, Held, JobAt
<1>2. First(w) \in job[w].todo /\ First(w) \in Identifiers
  BY <1>1, FirstIsOne, BusyHasJob
<1> QED
  BY <1>1, <1>2 DEF CleanUp, CleanUpFails

LEMMA TypeClean ==
  ASSUME TypeOK, NEW w \in Workers, JobAt(w), CleanUp(w) \/ CleanUpFails(w)
  PROVE  TypeOK'
<1> DEFINE i == First(w)
<1>1. /\ Held(w) /\ i \in Identifiers /\ i \in job[w].ids
      /\ job[w].todo \ {i} \in SUBSET job[w].ids
      /\ Goto(w, "cleaning", [job[w] EXCEPT !.todo = job[w].todo \ {i}])
      /\ UNCHANGED <<method, ca, port>>
  BY Cleans
<1>2. Threads'
  BY <1>1, TurnTypes DEF AtWork, ca
<1>3. zone' \in [Records -> SUBSET Value] /\ kept' \in (Value \cup {None}) \X (Value \cup {None})
  <2>1. RemoveTxt(w, i) \/ UNCHANGED dns
    BY Cleans
  <2> QED
    BY <1>1, <2>1, RemoveTyped DEF TypeOK, dns
<1>4. alone' = alone /\ failed' \subseteq DOMAIN orders /\ lost' \subseteq Value /\ faults' \in 0 .. MaxFaults
  <2>1. CASE UNCHANGED ghosts
    BY <2>1 DEF TypeOK, ghosts
  <2>2. CASE Fault({}, {Val(w, i)})
    <3>1. {Val(w, i)} \in SUBSET Value
      BY <1>1, ValueTyped
    <3> QED
      BY <2>2, <3>1, FaultTyped
  <2> QED
    BY <2>1, <2>2, Cleans
<1>5. Stores'
  BY <1>1, <1>3, <1>4 DEF TypeOK, Stores, ca
<1> QED
  BY <1>2, <1>5, Halves

LEMMA TypeReturn ==
  ASSUME TypeOK, NEW w \in Workers, Return(w)
  PROVE  TypeOK'
<1>1. Goto(w, "idle", None) /\ UNCHANGED <<method, ca, dns, ghosts>> /\ port' \in {port, None}
  BY DEF Return
<1>2. Threads'
  BY <1>1, EndedTypes DEF ca
<1>3. Stores'
  BY <1>1 DEF TypeOK, Stores, dns, ca, ghosts
<1> QED
  BY <1>2, <1>3, Halves

LEMMA FailsEarlyShape ==
  ASSUME TypeOK, NEW w \in Workers, JobAt(w), FailsEarly(w)
  PROVE  /\ pc[w] \in {"ordering", "binding"} /\ Goto(w, "idle", None)
         /\ failed' = failed \cup ({job[w].order} \ {0}) /\ lost' = lost /\ alone' = alone
         /\ failed' \subseteq DOMAIN orders /\ faults' \in 0 .. MaxFaults
         /\ UNCHANGED <<method, ca, dns, port>>
<1>1. pc[w] \in {"ordering", "binding"} /\ Fault({job[w].order}, {}) /\ Goto(w, "idle", None)
      /\ UNCHANGED <<method, ca, dns, port>>
  BY DEF FailsEarly
<1>2. {job[w].order} \ {0} \subseteq DOMAIN orders
  BY <1>1, HeldHasOrder DEF JobAt, Held
<1>3. {} \in SUBSET Value
  OBVIOUS
<1>4. /\ failed' = failed \cup ({job[w].order} \ {0}) /\ lost' = lost \cup {} /\ alone' = alone
      /\ failed' \subseteq DOMAIN orders /\ faults' \in 0 .. MaxFaults
  BY <1>1, <1>2, <1>3, FaultTyped
<1> QED
  BY <1>1, <1>4

LEMMA TypeFailsEarly ==
  ASSUME TypeOK, NEW w \in Workers, JobAt(w), FailsEarly(w)
  PROVE  TypeOK'
<1>1. Threads'
  BY FailsEarlyShape, EndedTypes DEF ca
<1>2. Stores'
  BY FailsEarlyShape DEF TypeOK, Stores, dns, ca
<1> QED
  BY <1>1, <1>2, Halves

\* A call that raises: nothing else, or a value that is not on the list, or a challenge
\* that is answered all the same.
LEMMA FailsShape ==
  ASSUME TypeOK, NEW w \in Workers, JobAt(w), Fails(w)
  PROVE  /\ pc[w] \in {"publishing", "answering", "finalizing"} /\ Held(w)
         /\ job[w].order \in DOMAIN orders
         /\ Goto(w, "cleaning", [job[w] EXCEPT !.todo = job[w].work])
         /\ job[w].work \in SUBSET job[w].ids
         /\ UNCHANGED <<method, port, certs, revokes, alone>>
         /\ failed' = failed \cup {job[w].order} /\ failed' \subseteq DOMAIN orders
         /\ faults' \in 0 .. MaxFaults
         /\ \/ UNCHANGED <<dns, orders, lost>>
            \/ /\ pc[w] = "publishing" /\ method # "edge"
               /\ First(w) \in job[w].ids
               /\ lost' = lost \cup {Val(w, First(w))} /\ PublishTxt(w, First(w))
               /\ UNCHANGED orders
            \/ /\ pc[w] = "answering" /\ First(w) \in job[w].ids
               /\ orders' = [orders EXCEPT ![job[w].order].asked = @ \cup {First(w)}]
               /\ UNCHANGED <<dns, lost>>
<1>1. /\ pc[w] \in {"publishing", "answering", "finalizing"} /\ Held(w)
      /\ Goto(w, "cleaning", [job[w] EXCEPT !.todo = job[w].work])
      /\ UNCHANGED <<method, port>>
  BY DEF Fails, Held
<1>2. job[w].order \in DOMAIN orders /\ job[w].order # 0 /\ job[w].work \in SUBSET job[w].ids
  BY <1>1, HeldHasOrder
<1>3. pc[w] \in {"publishing", "answering"} => First(w) \in job[w].ids
  BY FirstIsOne, <1>1 DEF JobAt
<1>4. \A values \in SUBSET Value : Fault({job[w].order}, values) =>
        /\ failed' = failed \cup {job[w].order} /\ failed' \subseteq DOMAIN orders
        /\ faults' \in 0 .. MaxFaults /\ alone' = alone /\ lost' = lost \cup values
  BY <1>2, FaultTyped, ZenonT(40)
<1>5. {} \in SUBSET Value /\ (First(w) \in job[w].ids => {Val(w, First(w))} \in SUBSET Value)
  BY <1>1, ValueTyped
<1>6. ASSUME Fault({job[w].order}, {})
      PROVE  /\ failed' = failed \cup {job[w].order} /\ failed' \subseteq DOMAIN orders
             /\ faults' \in 0 .. MaxFaults /\ alone' = alone /\ lost' = lost
  <2>1. lost' = lost \cup {} /\ alone' = alone /\ failed' = failed \cup {job[w].order}
        /\ failed' \subseteq DOMAIN orders /\ faults' \in 0 .. MaxFaults
    BY <1>4, <1>5, <1>6
  <2> QED
    BY <2>1
<1>7. CASE Fault({job[w].order}, {}) /\ UNCHANGED <<dns, ca>>
  BY <1>1, <1>2, <1>7, <1>6 DEF ca
<1>8. CASE /\ pc[w] = "publishing" /\ method # "edge"
           /\ Fault({job[w].order}, {Val(w, First(w))})
           /\ PublishTxt(w, First(w)) /\ UNCHANGED ca
  BY <1>1, <1>2, <1>3, <1>4, <1>5, <1>8 DEF ca
<1>9. CASE /\ pc[w] = "answering" /\ Fault({job[w].order}, {})
           /\ orders' = [orders EXCEPT ![job[w].order].asked = @ \cup {First(w)}]
           /\ UNCHANGED <<dns, certs, revokes>>
  BY <1>1, <1>2, <1>3, <1>9, <1>6
<1> QED
  BY <1>7, <1>8, <1>9 DEF Fails

LEMMA FailsOrders ==
  ASSUME TypeOK, NEW w \in Workers, JobAt(w), Fails(w)
  PROVE  /\ Len(orders') = Len(orders) /\ DOMAIN orders' = DOMAIN orders
         /\ \A p \in DOMAIN orders : orders'[p].authz = orders[p].authz
         /\ \A p \in DOMAIN orders : p # job[w].order => orders'[p].asked = orders[p].asked
<1>1. Held(w) /\ job[w].order \in DOMAIN orders
  BY FailsShape
<1>2. First(w) \in job[w].ids => First(w) \in Identifiers
  BY <1>1, HeldHasOrder, BusyHasJob
<1>3. CASE UNCHANGED orders
  BY <1>3
<1>4. CASE First(w) \in job[w].ids /\ orders' = [orders EXCEPT ![job[w].order].asked = @ \cup {First(w)}]
  BY <1>1, <1>2, <1>4, OrderAsked
<1> QED
  BY <1>3, <1>4, FailsShape

LEMMA TypeFails ==
  ASSUME TypeOK, NEW w \in Workers, JobAt(w), Fails(w)
  PROVE  TypeOK'
<1>1. /\ Held(w) /\ Goto(w, "cleaning", [job[w] EXCEPT !.todo = job[w].work])
      /\ job[w].work \in SUBSET job[w].ids /\ job[w].order \in DOMAIN orders
      /\ UNCHANGED <<method, port, certs, alone>>
      /\ failed' \subseteq DOMAIN orders /\ faults' \in 0 .. MaxFaults
  BY FailsShape
<1>2. /\ orders' \in Seq(Order) /\ Len(orders') = Len(orders) /\ DOMAIN orders' = DOMAIN orders
      /\ zone' \in [Records -> SUBSET Value]
      /\ kept' \in (Value \cup {None}) \X (Value \cup {None}) /\ lost' \subseteq Value
  <2>1. CASE UNCHANGED <<dns, orders, lost>>
    BY <2>1 DEF TypeOK, dns
  <2>2. CASE /\ First(w) \in job[w].ids /\ PublishTxt(w, First(w)) /\ UNCHANGED orders
             /\ lost' = lost \cup {Val(w, First(w))}
    BY <1>1, <2>2, ValueTyped, PublishTyped DEF TypeOK
  <2>3. CASE /\ First(w) \in job[w].ids /\ UNCHANGED <<dns, lost>>
             /\ orders' = [orders EXCEPT ![job[w].order].asked = @ \cup {First(w)}]
    <3>1. First(w) \in Identifiers
      BY <1>1, <2>3, HeldHasOrder, BusyHasJob
    <3> QED
      BY <1>1, <2>3, <3>1, OrderAsked DEF TypeOK, dns
  <2> QED
    BY <2>1, <2>2, <2>3, FailsShape
<1>3. Threads'
  BY <1>1, <1>2, TurnTypes DEF AtWork
<1>4. Stores'
  BY <1>1, <1>2 DEF TypeOK, Stores
<1> QED
  BY <1>3, <1>4, Halves

LEMMA RestartShape ==
  ASSUME TypeOK, \A w \in Workers : JobAt(w), Restart
  PROVE  /\ pc' = [w \in Workers |-> "idle"] /\ job' = [w \in Workers |-> None]
         /\ port' = None /\ UNCHANGED <<method, ca, dns, alone>>
         /\ failed' = failed \cup InProgress /\ failed' \subseteq DOMAIN orders
         /\ lost' = lost \cup {v \in Published : v.order \in InProgress} /\ lost' \subseteq Value
         /\ faults' \in 0 .. MaxFaults
<1> DEFINE cut == {v \in Published : v.order \in InProgress}
<1>1. cut \in SUBSET Value
  BY DEF Published, TypeOK
<1>2. InProgress \subseteq DOMAIN orders /\ 0 \notin InProgress
  BY InProgressIs DEF InProgress
<1>3. Fault(InProgress, cut)
  BY DEF Restart
<1> HIDE DEF cut
<1>4. /\ failed' = failed \cup InProgress /\ lost' = lost \cup cut /\ alone' = alone
      /\ failed' \subseteq DOMAIN orders /\ lost' \subseteq Value /\ faults' \in 0 .. MaxFaults
  <2>1. InProgress \ {0} = InProgress
    BY <1>2
  <2> QED
    BY <1>1, <1>2, <1>3, <2>1, FaultTyped
<1> QED
  BY <1>4 DEF Restart, cut

LEMMA TypeRestart ==
  ASSUME TypeOK, \A w \in Workers : JobAt(w), Restart
  PROVE  TypeOK'
<1>1. Threads'
  BY RestartShape DEF Threads, Busy, PC, AtWork
<1>2. Stores'
  BY RestartShape DEF TypeOK, Stores, ca, dns
<1> QED
  BY <1>1, <1>2, Halves

LEMMA TypeStill ==
  ASSUME TypeOK, UNCHANGED <<method, orders, certs, dns, port, pc, job, ghosts>>
  PROVE  TypeOK'
<1>1. Threads'
  BY StillTypes
<1>2. Stores'
  BY DEF TypeOK, Stores, dns, ghosts
<1> QED
  BY <1>1, <1>2, Halves

\* Next with a name for each of its parts.
LEMMA Steps ==
  ASSUME [Next]_vars
  PROVE  \/ \E w \in Workers :
              \/ \E c \in Cas, ids \in Csrs : Begin(w, c, ids)
              \/ \E c \in Cas : Enroll(w, c)
              \/ NewOrder(w) \/ BindPort(w) \/ PublishProof(w) \/ AnswerChallenge(w)
              \/ Finalize(w) \/ Deadline(w) \/ CleanUp(w) \/ CleanUpFails(w) \/ Return(w)
              \/ FailsEarly(w) \/ Fails(w)
         \/ \E o \in DOMAIN orders, i \in Identifiers : Validate(o, i)
         \/ Restart
         \/ UNCHANGED <<method, orders, certs, dns, port, pc, job, ghosts>>
  BY DEF Next, Run, Revoke, vars, ca

LEMMA TypeStep ==
  ASSUME TypeOK, Bound, \A w \in Workers : JobAt(w), [Next]_vars
  PROVE  TypeOK'
<1>1. ASSUME NEW w \in Workers, NEW c \in Cas, NEW ids \in Csrs, Begin(w, c, ids) PROVE TypeOK'
  BY <1>1, TypeBegin
<1>2. ASSUME NEW w \in Workers, NEW c \in Cas, Enroll(w, c) PROVE TypeOK'
  BY <1>2, TypeEnroll
<1>3. ASSUME NEW w \in Workers,
             \/ NewOrder(w) \/ BindPort(w) \/ PublishProof(w) \/ AnswerChallenge(w)
             \/ Finalize(w) \/ Deadline(w) \/ CleanUp(w) \/ CleanUpFails(w) \/ Return(w)
             \/ FailsEarly(w) \/ Fails(w)
      PROVE  TypeOK'
  BY <1>3, TypeNewOrder, TypeBindPort, TypePublishProof, TypeAnswerChallenge, TypeFinalize,
     TypeDeadline, TypeClean, TypeReturn, TypeFailsEarly, TypeFails
<1>4. ASSUME NEW o \in DOMAIN orders, NEW i \in Identifiers, Validate(o, i) PROVE TypeOK'
  BY <1>4, TypeValidate
<1> QED
  BY <1>1, <1>2, <1>3, <1>4, TypeRestart, TypeStill, Steps

LEMMA TypeInit == Init => TypeOK
<1> SUFFICES ASSUME Init PROVE TypeOK
  OBVIOUS
<1>1. Threads
  BY Sets DEF Init, Threads, Busy, AtWork, PC
<1>2. Stores
  BY Sets DEF Init, Stores
<1> QED
  BY <1>1, <1>2, Halves
-----------------------------------------------------------------------------
\* The bound: an order that is begun has its place.

LEMMA OrderingStep ==
  ASSUME TypeOK, Bound, NEW w \in Workers, NEW at, NEW j, Goto(w, at, j), Len(orders') = Len(orders),
         at = "ordering" => Len(orders) + Cardinality(Ordering) < MaxOrders
  PROVE  Bound'
<1>1. /\ Ordering' = IF at = "ordering" THEN Ordering \cup {w} ELSE Ordering \ {w}
  BY Went DEF Ordering
<1>2. /\ IsFiniteSet(Ordering) /\ Cardinality(Ordering) \in Nat /\ Len(orders) \in Nat
      /\ Len(orders) + Cardinality(Ordering) <= MaxOrders
  BY FS_CardinalityType DEF Bound, TypeOK
<1>3. CASE at = "ordering"
  <2>1. /\ IsFiniteSet(Ordering \cup {w})
        /\ Cardinality(Ordering \cup {w}) =
             IF w \in Ordering THEN Cardinality(Ordering) ELSE Cardinality(Ordering) + 1
    BY <1>2, FS_AddElement
  <2> QED
    BY <1>1, <1>2, <1>3, <2>1, Sets DEF Bound
<1>4. CASE at # "ordering"
  <2>1. /\ IsFiniteSet(Ordering \ {w})
        /\ Cardinality(Ordering \ {w}) =
             IF w \in Ordering THEN Cardinality(Ordering) - 1 ELSE Cardinality(Ordering)
    BY <1>2, FS_RemoveElement
  <2> QED
    BY <1>1, <1>2, <1>4, <2>1, Sets DEF Bound
<1> QED
  BY <1>3, <1>4

LEMMA RoomIs ==
  ASSUME TypeOK, Bound, Room
  PROVE  Len(orders) + Cardinality(Ordering) < MaxOrders
<1> DEFINE private == {k \in DOMAIN certs : certs[k].order = 0}
<1>1. IsFiniteSet(private)
  <2>1. IsFiniteSet(1 .. Len(certs)) /\ Len(certs) \in Nat
    BY FS_Interval DEF TypeOK
  <2>2. private \in SUBSET (1 .. Len(certs))
    BY DEF TypeOK
  <2> QED
    BY <2>1, <2>2, FS_Subset
<1>2. Cardinality(private) \in Nat /\ Cardinality(Ordering) \in Nat /\ Len(orders) \in Nat
  BY <1>1, FS_CardinalityType DEF Bound, TypeOK
<1>3. Len(orders) + Cardinality(Ordering) + Cardinality(private) < MaxOrders
  BY DEF Room, Ordering
<1> HIDE DEF private
<1> QED
  BY <1>2, <1>3, Sets

LEMMA BoundNewOrder ==
  ASSUME TypeOK, Bound, NEW w \in Workers, NewOrder(w)
  PROVE  Bound'
<1>0. PICK o : o = Len(orders) + 1
  OBVIOUS
<1>1. Len(orders') = Len(orders) + 1
  BY <1>0, Ordered
<1>2. PICK at \in {"publishing", "binding"} : Goto(w, at, [job[w] EXCEPT !.order = o])
  BY <1>0 DEF NewOrder
<1>3. w \in Ordering /\ Ordering' = Ordering \ {w}
  BY <1>2, Went DEF Ordering, NewOrder
<1>4. /\ IsFiniteSet(Ordering) /\ Cardinality(Ordering) \in Nat /\ Len(orders) \in Nat
      /\ Len(orders) + Cardinality(Ordering) <= MaxOrders
  BY FS_CardinalityType DEF Bound, TypeOK
<1>5. IsFiniteSet(Ordering \ {w}) /\ Cardinality(Ordering \ {w}) = Cardinality(Ordering) - 1
  BY <1>3, <1>4, FS_RemoveElement
<1> QED
  BY <1>1, <1>3, <1>4, <1>5, Sets DEF Bound

LEMMA BoundStep ==
  ASSUME TypeOK, Bound, \A w \in Workers : JobAt(w), [Next]_vars
  PROVE  Bound'
<1>1. ASSUME NEW w \in Workers, NEW c \in Cas, NEW ids \in Csrs, Begin(w, c, ids) PROVE Bound'
  <2>1. \E j : Goto(w, "ordering", j)
    BY <1>1 DEF Begin
  <2>2. Room /\ UNCHANGED orders
    BY <1>1 DEF Begin, ca
  <2> QED
    BY <2>1, <2>2, RoomIs, OrderingStep
<1>2. ASSUME NEW w \in Workers, NEW c \in Cas, Enroll(w, c) PROVE Bound'
  BY <1>2 DEF Enroll, Bound, Ordering
<1>3. ASSUME NEW w \in Workers,
             \/ BindPort(w) \/ PublishProof(w) \/ AnswerChallenge(w)
             \/ Finalize(w) \/ Deadline(w) \/ CleanUp(w) \/ CleanUpFails(w) \/ Return(w)
             \/ FailsEarly(w) \/ Fails(w)
      PROVE  Bound'
  <2>1. \E at, j : Goto(w, at, j) /\ at # "ordering"
    <3>1. ASSUME PublishProof(w) PROVE \E at, j : Goto(w, at, j) /\ at # "ordering"
      BY <3>1, Publishes
    <3>2. ASSUME BindPort(w) PROVE \E at, j : Goto(w, at, j) /\ at # "ordering"
      BY <3>2 DEF BindPort
    <3>3. ASSUME AnswerChallenge(w) PROVE \E at, j : Goto(w, at, j) /\ at # "ordering"
      BY <3>3, Answers
    <3>4. ASSUME CleanUp(w) \/ CleanUpFails(w)
          PROVE  \E at, j : Goto(w, at, j) /\ at # "ordering"
      BY <3>4, Cleans
    <3>6. ASSUME FailsEarly(w) PROVE \E at, j : Goto(w, at, j) /\ at # "ordering"
      BY <3>6, FailsEarlyShape
    <3>7. ASSUME Fails(w) PROVE \E at, j : Goto(w, at, j) /\ at # "ordering"
      BY <3>7 DEF Fails
    <3>5. ASSUME Finalize(w) \/ Deadline(w) \/ Return(w)
          PROVE  \E at, j : Goto(w, at, j) /\ at # "ordering"
      BY <3>5 DEF Finalize, Deadline, Return
    <3> QED
      BY <1>3, <3>1, <3>2, <3>3, <3>4, <3>5, <3>6, <3>7
  <2>2. Len(orders') = Len(orders)
    <3>1. ASSUME AnswerChallenge(w) PROVE Len(orders') = Len(orders)
      BY <3>1, Answers, OrderAsked
    <3>2. ASSUME Fails(w) PROVE Len(orders') = Len(orders)
      BY <3>2, FailsOrders
    <3>3. ASSUME FailsEarly(w) \/ CleanUp(w) \/ CleanUpFails(w) \/ PublishProof(w)
          PROVE  Len(orders') = Len(orders)
      BY <3>3, FailsEarlyShape, Cleans, Publishes DEF ca
    <3>4. ASSUME Finalize(w) \/ Deadline(w) \/ Return(w) \/ BindPort(w)
          PROVE  Len(orders') = Len(orders)
      BY <3>4 DEF Finalize, Deadline, Return, BindPort, ca
    <3> QED
      BY <1>3, <3>1, <3>2, <3>3, <3>4
  <2> QED
    BY <2>1, <2>2, OrderingStep
<1>4. ASSUME NEW o \in DOMAIN orders, NEW i \in Identifiers, Validate(o, i) PROVE Bound'
  <2>1. Len(orders') = Len(orders)
    BY <1>4, Validates, OrderValidated
  <2> QED
    BY <1>4, <2>1 DEF Validate, Bound, Ordering
<1>5. CASE Restart
  <2>1. Ordering' = {} /\ Len(orders') = Len(orders)
    BY <1>5, RestartShape DEF Ordering, ca
  <2> QED
    BY <2>1, FS_EmptySet DEF TypeOK, Bound
<1>6. CASE UNCHANGED <<method, orders, certs, dns, port, pc, job, ghosts>>
  BY <1>6 DEF Bound, Ordering
<1> QED
  BY <1>1, <1>2, <1>3, <1>4, <1>5, <1>6, BoundNewOrder, Steps
-----------------------------------------------------------------------------
\* What a thread knows.

\* No step but a new order gives anybody an order, and none changes what an order is for.
Heirs ==
  /\ \A v \in Workers : Held(v)' =>
       Held(v) /\ job'[v].order = job[v].order /\ job'[v].ids = job[v].ids
  /\ alone' = alone /\ DOMAIN orders' = DOMAIN orders /\ method' = method
  /\ failed \subseteq failed' /\ lost \subseteq lost'
  /\ \A o \in DOMAIN orders, i \in Identifiers :
       orders'[o].authz[i] = "none" <=> orders[o].authz[i] = "none"

LEMMA HeirsTurn ==
  ASSUME TypeOK, NEW w \in Workers, Held(w), NEW at, NEW left \in SUBSET job[w].ids,
         Goto(w, at, [job[w] EXCEPT !.todo = left])
  PROVE  \A v \in Workers : Held(v)' =>
           Held(v) /\ job'[v].order = job[v].order /\ job'[v].ids = job[v].ids
<1>1. job[w] \in Job /\ left \in SUBSET Identifiers
  BY HeldHasOrder, BusyHasJob
<1> DEFINE j == [job[w] EXCEPT !.todo = left]
<1>4. j.order = job[w].order /\ j.ids = job[w].ids /\ Goto(w, at, j)
  BY <1>1, TodoJob
<1> HIDE DEF j
<1>2. job'[w].order = job[w].order /\ job'[w].ids = job[w].ids
  BY <1>4, Went
<1>3. \A v \in Workers \ {w} : pc'[v] = pc[v] /\ job'[v] = job[v]
  BY Went
<1> QED
  BY <1>2, <1>3 DEF Held

LEMMA HeirsEnd ==
  ASSUME TypeOK, NEW w \in Workers, Goto(w, "idle", None) \/ (\E j : Goto(w, "ordering", j))
  PROVE  \A v \in Workers : Held(v)' =>
           Held(v) /\ job'[v].order = job[v].order /\ job'[v].ids = job[v].ids
  BY Went DEF Held

LEMMA HeirsStep ==
  ASSUME TypeOK, \A w \in Workers : JobAt(w), [Next]_vars, ~ \E w \in Workers : NewOrder(w)
  PROVE  Heirs
<1> USE DEF Heirs
<1>1. ASSUME NEW w \in Workers, NEW c \in Cas, NEW ids \in Csrs, Begin(w, c, ids) PROVE Heirs
  BY <1>1, HeirsEnd DEF Begin, ca, ghosts
<1>2. ASSUME NEW w \in Workers, NEW c \in Cas, Enroll(w, c) PROVE Heirs
  BY <1>2 DEF Enroll, ghosts, Held
<1>3. ASSUME NEW w \in Workers, BindPort(w) PROVE Heirs
  <2>1. Held(w) /\ UNCHANGED <<method, ca, dns, ghosts>>
    BY <1>3 DEF BindPort, Held
  <2>2. \A v \in Workers : Held(v)' =>
          Held(v) /\ job'[v].order = job[v].order /\ job'[v].ids = job[v].ids
    BY <1>3, <2>1, HeirsEnd, Went DEF BindPort, Held
  <2> QED
    BY <2>1, <2>2 DEF ca, ghosts
<1>4. ASSUME NEW w \in Workers, PublishProof(w) PROVE Heirs
  <2>1. Held(w) /\ job[w] \in Job /\ First(w) \in job[w].ids /\ UNCHANGED <<method, ca, port, ghosts>>
    BY <1>4, Publishes
  <2>2. PICK at, left : Goto(w, at, Listed(job[w], First(w), left)) /\ left \in SUBSET job[w].ids
    BY <1>4, Publishes
  <2>3. \A v \in Workers : Held(v)' =>
          Held(v) /\ job'[v].order = job[v].order /\ job'[v].ids = job[v].ids
    BY <2>1, <2>2, ListedJob, Went DEF Held
  <2> QED
    BY <2>1, <2>3 DEF ca, ghosts
<1>5. ASSUME NEW w \in Workers, AnswerChallenge(w) PROVE Heirs
  <2>1. PICK at \in {"answering", "finalizing"}, left \in SUBSET job[w].ids :
          Goto(w, at, [job[w] EXCEPT !.todo = left])
    BY <1>5, Answers
  <2>2. \A v \in Workers : Held(v)' =>
          Held(v) /\ job'[v].order = job[v].order /\ job'[v].ids = job[v].ids
    BY <1>5, <2>1, Answers, HeirsTurn
  <2>3. DOMAIN orders' = DOMAIN orders /\ \A o \in DOMAIN orders : orders'[o].authz = orders[o].authz
    BY <1>5, Answers, OrderAsked
  <2>4. UNCHANGED <<method, ghosts>>
    BY <1>5, Answers
  <2> QED
    BY <2>2, <2>3, <2>4 DEF ghosts
<1>6. ASSUME NEW w \in Workers, Finalize(w) \/ Deadline(w) PROVE Heirs
  <2>1. Held(w) /\ Goto(w, "cleaning", [job[w] EXCEPT !.todo = job[w].work])
    BY <1>6 DEF Finalize, Deadline, Held
  <2>2. \A v \in Workers : Held(v)' =>
          Held(v) /\ job'[v].order = job[v].order /\ job'[v].ids = job[v].ids
    BY <2>1, HeirsTurn, HeldHasOrder
  <2> QED
    BY <1>6, <2>2 DEF Finalize, Deadline, ca, ghosts
<1>7. ASSUME NEW w \in Workers, CleanUp(w) \/ CleanUpFails(w) PROVE Heirs
  <2>1. /\ Held(w) /\ UNCHANGED <<method, ca, port>>
        /\ Goto(w, "cleaning", [job[w] EXCEPT !.todo = job[w].todo \ {First(w)}])
        /\ job[w].todo \ {First(w)} \in SUBSET job[w].ids
    BY <1>7, Cleans
  <2>2. \A v \in Workers : Held(v)' =>
          Held(v) /\ job'[v].order = job[v].order /\ job'[v].ids = job[v].ids
    BY <2>1, HeirsTurn
  <2>3. alone' = alone /\ failed \subseteq failed' /\ lost \subseteq lost'
    BY <1>7, Cleans DEF Fault, ghosts
  <2> QED
    BY <2>1, <2>2, <2>3 DEF ca
<1>8. ASSUME NEW w \in Workers, Return(w) PROVE Heirs
  BY <1>8, HeirsEnd DEF Return, ca, ghosts
<1>9. ASSUME NEW w \in Workers, FailsEarly(w) PROVE Heirs
  BY <1>9, HeirsEnd, FailsEarlyShape DEF ca
<1>10. ASSUME NEW w \in Workers, Fails(w) PROVE Heirs
  <2>1. /\ Held(w) /\ UNCHANGED <<method, port, certs, alone>>
        /\ Goto(w, "cleaning", [job[w] EXCEPT !.todo = job[w].work])
        /\ job[w].work \in SUBSET job[w].ids
        /\ failed \subseteq failed' /\ lost \subseteq lost'
    BY <1>10, FailsShape
  <2>2. \A v \in Workers : Held(v)' =>
          Held(v) /\ job'[v].order = job[v].order /\ job'[v].ids = job[v].ids
    BY <2>1, HeirsTurn
  <2>3. DOMAIN orders' = DOMAIN orders /\ \A o \in DOMAIN orders : orders'[o].authz = orders[o].authz
    BY <1>10, FailsOrders
  <2> QED
    BY <2>1, <2>2, <2>3
<1>11. ASSUME NEW o \in DOMAIN orders, NEW i \in Identifiers, Validate(o, i) PROVE Heirs
  <2>1. orders[o].authz[i] # "none" /\ UNCHANGED <<method, pc, job, ghosts>>
    BY <1>11 DEF Validate
  <2>2. DOMAIN orders' = DOMAIN orders
        /\ \A p \in DOMAIN orders, k \in Identifiers :
             orders'[p].authz[k] = "none" <=> orders[p].authz[k] = "none"
    BY <1>11, <2>1, Validates, OrderValidated
  <2> QED
    BY <2>1, <2>2 DEF Held, ghosts
<1>12. CASE Restart
  BY <1>12, RestartShape DEF Held, ca
<1>13. CASE UNCHANGED <<method, orders, certs, dns, port, pc, job, ghosts>>
  BY <1>13 DEF Held, ghosts
<1> QED
  BY <1>1, <1>2, <1>3, <1>4, <1>5, <1>6, <1>7, <1>8, <1>9, <1>10, <1>11, <1>12, <1>13, Steps

\* What a new order changes of the threads.
LEMMA NewHolder ==
  ASSUME TypeOK, Bound, NEW w \in Workers, JobAt(w), NewOrder(w), NEW o, o = Len(orders) + 1
  PROVE  /\ ~Held(w) /\ Held(w)' /\ job'[w].order = o /\ job'[w].ids = job[w].ids
         /\ job'[w].work = {} /\ job'[w].todo = job[w].ids
         /\ pc'[w] = IF method # "edge" THEN "publishing" ELSE "binding"
         /\ \A v \in Workers \ {w} : pc'[v] = pc[v] /\ job'[v] = job[v] /\ Held(v)' = Held(v)
         /\ o \notin DOMAIN orders /\ o \notin alone /\ o # 0
         /\ alone' = IF InProgress = {} THEN alone \cup {o} ELSE alone \ InProgress
         /\ UNCHANGED <<method, certs, revokes, dns, port, failed, lost, faults>>
<1>1. /\ pc[w] = "ordering" /\ job[w] \in Job /\ job[w].work = {} /\ job[w].todo = job[w].ids
      /\ ~Held(w)
  BY BusyHasJob DEF NewOrder, JobAt, Held
<1> DEFINE j == [job[w] EXCEPT !.order = o]
           at == IF method # "edge" THEN "publishing" ELSE "binding"
<1>2. Goto(w, at, j)
  BY DEF NewOrder
<1>3. j.order = o /\ j.ids = job[w].ids /\ j.work = {} /\ j.todo = job[w].ids
  BY <1>1 DEF Job
<1> HIDE DEF j
<1>4. pc'[w] = at /\ job'[w] = j /\ \A v \in Workers \ {w} : pc'[v] = pc[v] /\ job'[v] = job[v]
  BY <1>2, Went
<1>5. o \notin DOMAIN orders /\ o \notin alone /\ o # 0
  BY Ordered DEF TypeOK
<1>6. /\ alone' = IF InProgress = {} THEN alone \cup {o} ELSE alone \ InProgress
      /\ UNCHANGED <<method, certs, revokes, dns, port, failed, lost, faults>>
  BY DEF NewOrder
<1> QED
  BY <1>1, <1>3, <1>4, <1>5, <1>6 DEF Held

LEMMA OwnedStep ==
  ASSUME TypeOK, Bound, Jobs, AloneOK, [Next]_vars
  PROVE  Owned' /\ AloneOK'
<1>0. Owned /\ \A w \in Workers : JobAt(w)
  BY DEF Jobs
<1>1. CASE ~ \E w \in Workers : NewOrder(w)
  BY <1>0, <1>1, HeirsStep DEF Heirs, Owned, AloneOK
<1>2. ASSUME NEW w \in Workers, NewOrder(w) PROVE Owned' /\ AloneOK'
  <2>0. PICK o : o = Len(orders) + 1
    OBVIOUS
  <2>1. /\ ~Held(w) /\ Held(w)' /\ job'[w].order = o
        /\ \A v \in Workers \ {w} : pc'[v] = pc[v] /\ job'[v] = job[v] /\ Held(v)' = Held(v)
        /\ o \notin DOMAIN orders /\ o \notin alone
    BY <1>0, <1>2, <2>0, NewHolder
  <2>2. \A v \in Workers : Held(v) => job[v].order \in DOMAIN orders /\ job[v].order \in InProgress
    BY <1>0, HeldHasOrder, InProgressIs
  <2>3. alone' = IF InProgress = {} THEN alone \cup {o} ELSE alone \ InProgress
    BY <1>0, <1>2, <2>0, NewHolder
  <2>4. Owned'
    <3> SUFFICES ASSUME NEW u \in Workers, NEW v \in Workers, Held(u)', Held(v)',
                        job'[u].order = job'[v].order
                 PROVE  u = v
      BY DEF Owned
    <3> QED
      BY <1>0, <2>1, <2>2 DEF Owned
  <2>5. AloneOK'
    <3> SUFFICES ASSUME NEW u \in Workers, NEW v \in Workers, Held(u)', Held(v)',
                        job'[v].order \in alone'
                 PROVE  u = v
      BY DEF AloneOK
    <3>1. CASE InProgress = {}
      BY <2>1, <2>2, <3>1
    <3>2. CASE InProgress # {}
      BY <2>1, <2>2, <2>3, <3>2
    <3> QED
      BY <3>1, <3>2
  <2> QED
    BY <2>4, <2>5
<1> QED
  BY <1>1, <1>2
-----------------------------------------------------------------------------
LEMMA JobStays ==
  ASSUME TypeOK, NEW v \in Workers, JobAt(v), pc'[v] = pc[v], job'[v] = job[v], method' = method,
         Held(v) => /\ orders'[job[v].order].asked = orders[job[v].order].asked
                    /\ \A i \in Identifiers :
                         orders'[job[v].order].authz[i] = "none"
                           <=> orders[job[v].order].authz[i] = "none"
  PROVE  JobAt(v)'
  BY DEF JobAt, Held

\* The other threads of a step of one; an order of theirs is not touched.
LEMMA OthersStay ==
  ASSUME TypeOK, Jobs, NEW w \in Workers, NEW at, NEW j, Goto(w, at, j), method' = method,
         \A o \in DOMAIN orders, i \in Identifiers :
           orders'[o].authz[i] = "none" <=> orders[o].authz[i] = "none",
         \A o \in DOMAIN orders :
           orders'[o].asked = orders[o].asked \/ (Held(w) /\ o = job[w].order),
         JobAt(w)'
  PROVE  \A v \in Workers : JobAt(v)'
<1> SUFFICES ASSUME NEW v \in Workers, v # w PROVE JobAt(v)'
  OBVIOUS
<1>1. pc'[v] = pc[v] /\ job'[v] = job[v]
  BY Went
<1>2. Held(v) => job[v].order \in DOMAIN orders
  BY HeldHasOrder
<1>3. Held(v) /\ Held(w) => job[v].order # job[w].order
  BY DEF Jobs, Owned
<1>4. JobAt(v)
  BY DEF Jobs
<1>5. Held(v) => /\ orders'[job[v].order].asked = orders[job[v].order].asked
                 /\ \A i \in Identifiers :
                      orders'[job[v].order].authz[i] = "none"
                        <=> orders[job[v].order].authz[i] = "none"
  BY <1>2, <1>3
<1> QED
  BY <1>1, <1>4, <1>5, JobStays

\* A thread that is idle knows nothing.
LEMMA IdleKnows ==
  ASSUME NEW w, pc'[w] = "idle"
  PROVE  JobAt(w)'
  BY DEF JobAt, Held

LEMMA JobsBegin ==
  ASSUME TypeOK, Jobs, NEW w \in Workers, NEW c \in Cas, NEW ids \in Csrs, Begin(w, c, ids)
  PROVE  \A v \in Workers : JobAt(v)'
<1> DEFINE j == [ca |-> c, ids |-> ids, order |-> 0, todo |-> ids, work |-> {}]
<1>1. Goto(w, "ordering", j) /\ method' = method /\ orders' = orders
  BY DEF Begin, ca
<1>2. j.order = 0 /\ j.todo = ids /\ j.ids = ids /\ j.work = {} /\ IsFiniteSet(ids) /\ ids # {}
  BY FulfilmentAssumption
<1> HIDE DEF j
<1>3. JobAt(w)'
  BY <1>1, <1>2, Went DEF JobAt, Held
<1> QED
  BY <1>1, <1>3, OthersStay

LEMMA JobsNewOrder ==
  ASSUME TypeOK, Bound, Jobs, NEW w \in Workers, NewOrder(w)
  PROVE  \A v \in Workers : JobAt(v)'
<1>0. PICK o : o = Len(orders) + 1
  OBVIOUS
<1>j. JobAt(w)
  BY DEF Jobs
<1>1. /\ Held(w)' /\ job'[w].order = o /\ job'[w].ids = job[w].ids
      /\ job'[w].work = {} /\ job'[w].todo = job[w].ids
      /\ pc'[w] = IF method # "edge" THEN "publishing" ELSE "binding"
      /\ \A v \in Workers \ {w} : pc'[v] = pc[v] /\ job'[v] = job[v]
  BY <1>0, <1>j, NewHolder
<1>2. pc[w] = "ordering" /\ method' = method /\ IsFiniteSet(job[w].ids) /\ job[w].ids # {}
  BY <1>j DEF NewOrder, JobAt
<1>3. /\ orders'[o].asked = {} /\ \A p \in DOMAIN orders : orders'[p] = orders[p]
      /\ \A i \in Identifiers : orders'[o].authz[i] = IF i \in job[w].ids THEN "pending" ELSE "none"
  BY <1>0, Ordered
<1>4. JobAt(w)'
  <2>1. /\ pc'[w] \in {"publishing", "binding"} /\ (pc'[w] = "binding" => method' = "edge")
    BY <1>1, <1>2
  <2>2. /\ orders'[job'[w].order].asked = {}
        /\ \A i \in Identifiers : orders'[job'[w].order].authz[i] # "none" <=> i \in job'[w].ids
    BY <1>1, <1>3
  <2> QED
    BY <1>1, <1>2, <2>1, <2>2 DEF JobAt, Held
<1>5. ASSUME NEW v \in Workers \ {w} PROVE JobAt(v)'
  <2>1. Held(v) => job[v].order \in DOMAIN orders
    BY HeldHasOrder
  <2>2. pc'[v] = pc[v] /\ job'[v] = job[v] /\ JobAt(v)
    BY <1>1 DEF Jobs
  <2> QED
    BY <1>2, <1>3, <2>1, <2>2, JobStays
<1> QED
  BY <1>4, <1>5

LEMMA JobsBindPort ==
  ASSUME TypeOK, Jobs, NEW w \in Workers, BindPort(w)
  PROVE  \A v \in Workers : JobAt(v)'
<1>1. pc[w] = "binding" /\ Held(w) /\ method' = method /\ orders' = orders /\ JobAt(w)
  BY DEF BindPort, ca, Held, Jobs
<1>2. CASE Goto(w, "publishing", job[w])
  <2>1. JobAt(w)'
    BY <1>1, <1>2, Went DEF JobAt, Held
  <2> QED
    BY <1>1, <1>2, <2>1, OthersStay
<1>3. CASE Goto(w, "idle", None)
  BY <1>1, <1>3, Went, IdleKnows, OthersStay
<1> QED
  BY <1>2, <1>3 DEF BindPort

LEMMA JobsPublishProof ==
  ASSUME TypeOK, Jobs, NEW w \in Workers, PublishProof(w)
  PROVE  \A v \in Workers : JobAt(v)'
<1> DEFINE i == First(w)
<1>0. JobAt(w)
  BY DEF Jobs
<1>1. /\ pc[w] = "publishing" /\ job[w] \in Job /\ Held(w) /\ i \in job[w].ids \ job[w].work
      /\ UNCHANGED <<method, ca, port, ghosts>>
  BY <1>0, Publishes
<1>2. PICK at, left :
        /\ Goto(w, at, Listed(job[w], i, left)) /\ left \in SUBSET job[w].ids
        /\ left # {}
        /\ \/ at = "publishing" /\ left = job[w].ids \ (job[w].work \cup {i})
           \/ at = "answering" /\ left = job[w].ids /\ job[w].work \cup {i} = job[w].ids
  BY <1>0, Publishes
<1> HIDE DEF i
<1>3. /\ pc'[w] = at /\ job'[w].ids = job[w].ids /\ job'[w].order = job[w].order
      /\ job'[w].todo = left /\ job'[w].work = job[w].work \cup {i}
  BY <1>1, <1>2, Went, ListedJob
<1>4. orders' = orders /\ method' = method
  BY <1>1 DEF ca
<1>5. JobAt(w)'
  <2>1. /\ IsFiniteSet(job[w].ids) /\ job[w].ids # {} /\ orders[job[w].order].asked = {}
        /\ \A k \in Identifiers : orders[job[w].order].authz[k] # "none" <=> k \in job[w].ids
    BY <1>0, <1>1 DEF JobAt, Held
  <2>2. pc'[w] \in {"publishing", "answering"} /\ left # {} /\ left \subseteq job[w].ids
    BY <1>1, <1>2, <1>3
  <2>3. /\ pc'[w] = "publishing" => job'[w].todo = job'[w].ids \ job'[w].work
        /\ pc'[w] = "answering" => job'[w].work = job'[w].ids
    BY <1>2, <1>3
  <2> QED
    BY <1>3, <1>4, <2>1, <2>2, <2>3 DEF JobAt, Held
<1>6. \E j : Goto(w, at, j)
  BY <1>2
<1> QED
  BY <1>4, <1>5, <1>6, OthersStay

\* A thread that goes through another list, of an order that is not asked for anew,
\* or past the point where that matters.
LEMMA TurnKnows ==
  ASSUME TypeOK, Jobs, NEW w \in Workers, Held(w), method' = method,
         NEW at \in {"answering", "finalizing", "cleaning"}, NEW left \in SUBSET job[w].ids,
         Goto(w, at, [job[w] EXCEPT !.todo = left]),
         at = "answering" => left # {},
         at \in {"answering", "finalizing"} => job[w].work = job[w].ids,
         at = "cleaning" => left \subseteq job[w].work,
         \A o \in DOMAIN orders, i \in Identifiers :
           orders'[o].authz[i] = "none" <=> orders[o].authz[i] = "none",
         \A o \in DOMAIN orders : orders'[o].asked = orders[o].asked \/ o = job[w].order
  PROVE  \A v \in Workers : JobAt(v)'
<1>1. job[w] \in Job /\ left \in SUBSET Identifiers /\ job[w].order \in DOMAIN orders
  BY HeldHasOrder, BusyHasJob
<1> DEFINE j == [job[w] EXCEPT !.todo = left]
<1>2. /\ j.order = job[w].order /\ j.ids = job[w].ids /\ j.todo = left /\ j.work = job[w].work
      /\ Goto(w, at, j)
  BY <1>1, TodoJob
<1> HIDE DEF j
<1>3. pc'[w] = at /\ job'[w] = j
  BY <1>2, Went
<1>4. /\ IsFiniteSet(job[w].ids) /\ job[w].ids # {}
      /\ \A k \in Identifiers : orders[job[w].order].authz[k] # "none" <=> k \in job[w].ids
  BY DEF Jobs, JobAt, Held
<1>5. JobAt(w)'
  BY <1>1, <1>2, <1>3, <1>4 DEF JobAt, Held
<1> QED
  BY <1>2, <1>5, OthersStay

LEMMA JobsStep ==
  ASSUME TypeOK, Bound, Jobs, AloneOK, [Next]_vars
  PROVE  Jobs'
<1>0. \A w \in Workers : JobAt(w)
  BY DEF Jobs
<1>1. ASSUME NEW w \in Workers, NEW c \in Cas, Enroll(w, c) PROVE \A v \in Workers : JobAt(v)'
  BY <1>0, <1>1 DEF Enroll, JobAt, Held
<1>2. ASSUME NEW w \in Workers, AnswerChallenge(w) PROVE \A v \in Workers : JobAt(v)'
  <2>1. /\ pc[w] = "answering" /\ Held(w) /\ First(w) \in job[w].todo /\ job[w].todo \subseteq job[w].ids
        /\ job[w].work = job[w].ids
    BY <1>0, <1>2, FirstIsOne DEF AnswerChallenge, Held, JobAt
  <2> DEFINE left == job[w].todo \ {First(w)}
             at == IF left = {} THEN "finalizing" ELSE "answering"
  <2>2. Goto(w, at, [job[w] EXCEPT !.todo = left]) /\ method' = method /\ left \in SUBSET job[w].ids
    BY <1>2, <2>1 DEF AnswerChallenge
  <2>3. /\ \A o \in DOMAIN orders : orders'[o].authz = orders[o].authz
        /\ \A o \in DOMAIN orders : orders'[o].asked = orders[o].asked \/ o = job[w].order
    BY <1>0, <1>2, Answers, OrderAsked
  <2>4. at \in {"answering", "finalizing", "cleaning"} /\ (at = "answering" => left # {})
        /\ at # "cleaning"
    OBVIOUS
  <2> HIDE DEF left, at
  <2> QED
    BY <2>1, <2>2, <2>3, <2>4, TurnKnows
<1>3. ASSUME NEW w \in Workers, Finalize(w) \/ Deadline(w) PROVE \A v \in Workers : JobAt(v)'
  <2>1. Held(w) /\ Goto(w, "cleaning", [job[w] EXCEPT !.todo = job[w].work])
        /\ method' = method /\ orders' = orders
    BY <1>3 DEF Finalize, Deadline, Held, ca
  <2>2. job[w].work \in SUBSET job[w].ids
    BY <2>1, HeldHasOrder
  <2> QED
    BY <2>1, <2>2, TurnKnows
<1>4. ASSUME NEW w \in Workers, CleanUp(w) \/ CleanUpFails(w) PROVE \A v \in Workers : JobAt(v)'
  <2>1. /\ pc[w] = "cleaning" /\ Held(w) /\ method' = method /\ orders' = orders
        /\ Goto(w, "cleaning", [job[w] EXCEPT !.todo = job[w].todo \ {First(w)}])
        /\ job[w].todo \subseteq job[w].ids
    BY <1>0, <1>4, Cleans DEF ca
  <2>2. job[w].todo \ {First(w)} \in SUBSET job[w].ids /\ job[w].todo \subseteq job[w].work
    BY <1>0, <2>1 DEF JobAt
  <2> QED
    BY <2>1, <2>2, TurnKnows
<1>5. ASSUME NEW w \in Workers, Return(w) \/ FailsEarly(w) PROVE \A v \in Workers : JobAt(v)'
  <2>1. Goto(w, "idle", None) /\ method' = method /\ orders' = orders
    BY <1>0, <1>5, FailsEarlyShape DEF Return, ca
  <2> QED
    BY <2>1, Went, IdleKnows, OthersStay
<1>6. ASSUME NEW w \in Workers, Fails(w) PROVE \A v \in Workers : JobAt(v)'
  <2>1. /\ Held(w) /\ Goto(w, "cleaning", [job[w] EXCEPT !.todo = job[w].work])
        /\ job[w].work \in SUBSET job[w].ids /\ method' = method
    BY <1>0, <1>6, FailsShape
  <2>2. /\ \A p \in DOMAIN orders : orders'[p].authz = orders[p].authz
        /\ \A p \in DOMAIN orders : orders'[p].asked = orders[p].asked \/ p = job[w].order
    BY <1>0, <1>6, FailsOrders
  <2> QED
    BY <2>1, <2>2, TurnKnows
<1>7. ASSUME NEW o \in DOMAIN orders, NEW i \in Identifiers, Validate(o, i)
      PROVE  \A v \in Workers : JobAt(v)'
  <2>1. \A p \in DOMAIN orders : orders'[p].asked = orders[p].asked
    BY <1>7, Validates, OrderValidated
  <2>2. \A p \in DOMAIN orders, k \in Identifiers :
          orders'[p].authz[k] = "none" <=> orders[p].authz[k] = "none"
    <3>1. orders[o].authz[i] # "none"
      BY <1>7 DEF Validate
    <3> QED
      BY <1>7, <3>1, Validates, OrderValidated
  <2>3. UNCHANGED <<method, pc, job>>
    BY <1>7 DEF Validate
  <2> QED
    BY <1>0, <2>1, <2>2, <2>3, HeldHasOrder, JobStays
<1>8. ASSUME Restart PROVE \A v \in Workers : JobAt(v)'
  BY <1>0, <1>8, RestartShape, IdleKnows
<1>9. ASSUME UNCHANGED <<method, orders, certs, dns, port, pc, job, ghosts>>
      PROVE  \A v \in Workers : JobAt(v)'
  BY <1>0, <1>9, JobStays
<1>10. \A v \in Workers : JobAt(v)'
  <2>1. ASSUME NEW w \in Workers, NEW c \in Cas, NEW ids \in Csrs, Begin(w, c, ids)
        PROVE  \A v \in Workers : JobAt(v)'
    BY <2>1, JobsBegin
  <2>2. ASSUME NEW w \in Workers, NewOrder(w) \/ BindPort(w) \/ PublishProof(w)
        PROVE  \A v \in Workers : JobAt(v)'
    BY <2>2, JobsNewOrder, JobsBindPort, JobsPublishProof
  <2> QED
    BY <1>1, <1>2, <1>3, <1>4, <1>5, <1>6, <1>7, <1>8, <1>9, <2>1, <2>2, Steps
<1> QED
  BY <1>10, OwnedStep DEF Jobs
-----------------------------------------------------------------------------
\* The port, and the steps by which a thread gets it and gives it back.

LEMMA ListsOn ==
  ASSUME TypeOK, NEW w \in Workers, Listing(w),
         NEW at \in {"publishing", "answering", "finalizing", "cleaning"}, NEW j, Goto(w, at, j)
  PROVE  \A v \in Workers : Listing(v)' = Listing(v)
  BY Went DEF Listing

LEMMA PortStep ==
  ASSUME TypeOK, Bound, Jobs, PortHeld, [Next]_vars
  PROVE  PortHeld'
<1>0. \A w \in Workers : JobAt(w)
  BY DEF Jobs
<1>1. ASSUME port' = port, method' = method, \A v \in Workers : Listing(v)' = Listing(v)
      PROVE  PortHeld'
  <2>1. port \in Workers \cup {None}
    BY DEF TypeOK
  <2> QED
    BY <1>1, <2>1 DEF PortHeld
<1>2. ASSUME NEW w \in Workers, NEW c \in Cas, NEW ids \in Csrs, Begin(w, c, ids) PROVE PortHeld'
  <2>1. PICK j : Goto(w, "ordering", j)
    BY <1>2 DEF Begin
  <2>2. \A v \in Workers : Listing(v)' = Listing(v)
    BY <1>2, <2>1, Went DEF Begin, Busy, Listing
  <2> QED
    BY <1>1, <1>2, <2>2 DEF Begin
<1>3. ASSUME NEW w \in Workers, NEW c \in Cas, Enroll(w, c) PROVE PortHeld'
  BY <1>1, <1>3 DEF Enroll, Listing
<1>4. ASSUME NEW w \in Workers, NewOrder(w) PROVE PortHeld'
  <2>0. PICK o : o = Len(orders) + 1
    OBVIOUS
  <2>1. /\ pc'[w] = IF method # "edge" THEN "publishing" ELSE "binding"
        /\ \A v \in Workers \ {w} : pc'[v] = pc[v]
        /\ method' = method /\ port' = port /\ ~Held(w)
    BY <1>0, <1>4, <2>0, NewHolder
  <2>2. port # w /\ port \in Workers \cup {None}
    BY <2>1, Sets DEF TypeOK, PortHeld, Listing, Held
  <2>3. CASE method = "edge"
    <3>1. \A v \in Workers : Listing(v)' = Listing(v)
      BY <2>1, <2>3 DEF Listing, Held
    <3> QED
      BY <1>1, <2>1, <3>1
  <2>4. CASE method # "edge"
    BY <2>1, <2>2, <2>4 DEF PortHeld
  <2> QED
    BY <2>3, <2>4
<1>5. ASSUME NEW w \in Workers, BindPort(w) PROVE PortHeld'
  <2>1. pc[w] = "binding" /\ method = "edge" /\ method' = method
    BY <1>0, <1>5 DEF BindPort, JobAt
  <2>2. CASE port = None
    <3>1. Goto(w, "publishing", job[w]) /\ port' = w
      BY <1>5, <2>2 DEF BindPort
    <3>2. \A v \in Workers : ~Listing(v)
      BY <2>1, <2>2, Sets DEF PortHeld
    <3>3. Listing(w)' /\ \A v \in Workers \ {w} : ~Listing(v)'
      BY <3>1, <3>2, Went DEF Listing
    <3> QED
      BY <2>1, <3>1, <3>3 DEF PortHeld
  <2>3. CASE port # None
    <3>1. Goto(w, "idle", None) /\ port' = port
      BY <1>5, <2>3 DEF BindPort
    <3>2. \A v \in Workers : Listing(v)' = Listing(v)
      BY <2>1, <3>1, Went DEF Listing
    <3> QED
      BY <1>1, <2>1, <3>1, <3>2
  <2> QED
    BY <2>2, <2>3
<1>6. ASSUME NEW w \in Workers, PublishProof(w) PROVE PortHeld'
  <2>1. pc[w] = "publishing" /\ UNCHANGED <<method, port>>
    BY <1>0, <1>6, Publishes
  <2>2. \E j : \E at \in {"publishing", "answering", "finalizing", "cleaning"} : Goto(w, at, j)
    BY <1>0, <1>6, Publishes
  <2>3. \A v \in Workers : Listing(v)' = Listing(v)
    BY <2>1, <2>2, ListsOn DEF Listing
  <2> QED
    BY <1>1, <2>1, <2>3
<1>7. ASSUME NEW w \in Workers, AnswerChallenge(w) PROVE PortHeld'
  <2>1. pc[w] = "answering" /\ UNCHANGED <<method, port>>
    BY <1>7 DEF AnswerChallenge
  <2>2. \E j : \E at \in {"publishing", "answering", "finalizing", "cleaning"} : Goto(w, at, j)
    BY <1>7 DEF AnswerChallenge
  <2>3. \A v \in Workers : Listing(v)' = Listing(v)
    BY <2>1, <2>2, ListsOn DEF Listing
  <2> QED
    BY <1>1, <2>1, <2>3
<1>8. ASSUME NEW w \in Workers,
             Finalize(w) \/ Deadline(w) \/ CleanUp(w) \/ CleanUpFails(w) \/ Fails(w)
      PROVE  PortHeld'
  <2>1. Listing(w) /\ UNCHANGED <<method, port>>
    BY <1>8 DEF Finalize, Deadline, CleanUp, CleanUpFails, Fails, Listing
  <2>2. \E j : Goto(w, "cleaning", j)
    BY <1>8 DEF Finalize, Deadline, CleanUp, CleanUpFails, Fails
  <2>3. \A v \in Workers : Listing(v)' = Listing(v)
    BY <2>1, <2>2, ListsOn
  <2> QED
    BY <1>1, <2>1, <2>3
<1>9. ASSUME NEW w \in Workers, Return(w) PROVE PortHeld'
  <2>1. /\ Goto(w, "idle", None) /\ method' = method /\ Listing(w)
        /\ port' = IF port = w THEN None ELSE port
    BY <1>9 DEF Return, Listing
  <2>2. ~Listing(w)' /\ \A v \in Workers \ {w} : Listing(v)' = Listing(v)
    BY <2>1, Went DEF Listing
  <2>3. port \in Workers \cup {None}
    BY DEF TypeOK
  <2> QED
    BY <2>1, <2>2, <2>3 DEF PortHeld
<1>10. ASSUME NEW w \in Workers, FailsEarly(w) PROVE PortHeld'
  <2>1. pc[w] \in {"ordering", "binding"} /\ Goto(w, "idle", None) /\ UNCHANGED <<method, port>>
    BY <1>10 DEF FailsEarly
  <2>2. \A v \in Workers : Listing(v)' = Listing(v)
    BY <2>1, Went DEF Listing
  <2> QED
    BY <1>1, <2>1, <2>2
<1>11. ASSUME NEW o \in DOMAIN orders, NEW i \in Identifiers, Validate(o, i) PROVE PortHeld'
  BY <1>1, <1>11 DEF Validate, Listing
<1>12. CASE Restart
  BY <1>12 DEF Restart, PortHeld, Listing
<1>13. CASE UNCHANGED <<method, orders, certs, dns, port, pc, job, ghosts>>
  BY <1>1, <1>13 DEF Listing
<1> QED
  BY <1>2, <1>3, <1>4, <1>5, <1>6, <1>7, <1>8, <1>9, <1>10, <1>11, <1>12, <1>13, Steps
-----------------------------------------------------------------------------
\* The records.

LEMMA AccountsMove ==
  ASSUME TypeOK, Accounted, NEW w \in Workers, NEW at, NEW j, Goto(w, at, j),
         DOMAIN orders \subseteq DOMAIN orders', lost \subseteq lost', Quiet',
         \A r \in Records : \A v \in zone'[r] :
           \/ v \in zone[r] /\ (Accounts(w, v) => v \in lost' \/ Accounts(w, v)')
           \/ r = RecordOf[v.id] /\ v.order \in DOMAIN orders /\ (v \in lost' \/ Accounts(w, v)')
  PROVE  Accounted'
<1> SUFFICES ASSUME NEW r \in Records, NEW v \in zone'[r]
             PROVE  /\ r = RecordOf[v.id] /\ v.order \in DOMAIN orders'
                    /\ v \in lost' \/ \E u \in Workers : Accounts(u, v)'
  BY DEF Accounted
<1>1. CASE v \in zone[r] /\ (Accounts(w, v) => v \in lost' \/ Accounts(w, v)')
  <2>1. r = RecordOf[v.id] /\ v.order \in DOMAIN orders
    BY <1>1 DEF Accounted
  <2>2. CASE v \in lost
    BY <2>1, <2>2
  <2>3. ASSUME NEW u \in Workers, Accounts(u, v) PROVE v \in lost' \/ Accounts(u, v)'
    <3>1. CASE u = w
      BY <1>1, <2>3, <3>1
    <3>2. CASE u # w
      <4>1. pc'[u] = pc[u] /\ job'[u] = job[u]
        BY <3>2, Went
      <4> QED
        BY <2>3, <4>1 DEF Accounts, Held, OnList
    <3> QED
      BY <3>1, <3>2
  <2> QED
    BY <1>1, <2>1, <2>2, <2>3 DEF Accounted
<1>2. CASE r = RecordOf[v.id] /\ v.order \in DOMAIN orders /\ (v \in lost' \/ Accounts(w, v)')
  BY <1>2
<1> QED
  BY <1>1, <1>2

\* Where no value is added and the thread that moves keeps its list, or had nothing on it.
LEMMA AccountsStay ==
  ASSUME TypeOK, Accounted, NEW w \in Workers, NEW at, NEW j, Goto(w, at, j),
         DOMAIN orders \subseteq DOMAIN orders', lost \subseteq lost', method' = method, zone' = zone,
         \A v : Accounts(w, v) => v \in lost' \/ Accounts(w, v)'
  PROVE  Accounted'
<1>1. Quiet'
  BY DEF Accounted, Quiet
<1> QED
  BY <1>1, AccountsMove

LEMMA PublishedAt ==
  ASSUME TypeOK, Quiet, NEW w \in Workers, Held(w), NEW i \in job[w].ids, PublishTxt(w, i),
         method # "edge", method' = method
  PROVE  /\ Quiet'
         /\ \A r \in Records : \A v \in zone'[r] :
              v \in zone[r] \/ (r = RecordOf[i] /\ v = Val(w, i))
<1>1. RecordOf[i] \in Records
  BY HeldHasOrder, BusyHasJob, Sets
<1>2. CASE method = "acmedns"
  BY <1>2 DEF PublishTxt, Quiet
<1>3. CASE method # "acmedns"
  BY <1>1, <1>3 DEF PublishTxt, Quiet, TypeOK
<1> QED
  BY <1>2, <1>3

LEMMA AccountedPublish ==
  ASSUME TypeOK, Jobs, Accounted, NEW w \in Workers, PublishProof(w)
  PROVE  Accounted'
<1> DEFINE i == First(w)
<1>0. JobAt(w) /\ Quiet
  BY DEF Jobs, Accounted
<1>1. /\ pc[w] = "publishing" /\ job[w] \in Job /\ Held(w) /\ i \in job[w].ids
      /\ IF method # "edge" THEN PublishTxt(w, i) ELSE UNCHANGED dns
      /\ UNCHANGED <<method, ca, port, ghosts>>
  BY <1>0, Publishes
<1>2. PICK at \in {"publishing", "answering"}, left \in SUBSET job[w].ids :
        Goto(w, at, Listed(job[w], i, left))
  BY <1>0, Publishes
<1>3. /\ pc'[w] = at /\ job'[w].order = job[w].order /\ job'[w].work = job[w].work \cup {i}
  BY <1>1, <1>2, Went, ListedJob
<1> HIDE DEF i
<1>4. ASSUME NEW v, Accounts(w, v) PROVE Accounts(w, v)'
  BY <1>1, <1>3, <1>4 DEF Accounts, Held, OnList
<1>5. ASSUME NEW v, v = Val(w, i)
      PROVE  v.id = i /\ v.order \in DOMAIN orders /\ Accounts(w, v)'
  <2>1. v.order = job[w].order /\ v.id = i
    BY <1>5 DEF Val
  <2>2. job[w].order \in DOMAIN orders
    BY <1>1, HeldHasOrder
  <2> QED
    BY <1>3, <2>1, <2>2 DEF Accounts, Held, OnList
<1>6. \E j : Goto(w, at, j)
  BY <1>2
<1>7. DOMAIN orders' = DOMAIN orders /\ lost' = lost
  BY <1>1 DEF ca, ghosts
<1>8. CASE method # "edge"
  <2>1. PublishTxt(w, i) /\ method' = method
    BY <1>1, <1>8
  <2>2. Quiet' /\ \A r \in Records : \A v \in zone'[r] :
                    v \in zone[r] \/ (r = RecordOf[i] /\ v = Val(w, i))
    BY <1>0, <1>1, <1>8, <2>1, PublishedAt
  <2>3. \A r \in Records : \A v \in zone'[r] :
          \/ v \in zone[r] /\ (Accounts(w, v) => v \in lost' \/ Accounts(w, v)')
          \/ r = RecordOf[v.id] /\ v.order \in DOMAIN orders /\ (v \in lost' \/ Accounts(w, v)')
    BY <1>4, <1>5, <2>2
  <2> QED
    BY <1>6, <1>7, <2>2, <2>3, AccountsMove
<1>9. CASE method = "edge"
  BY <1>1, <1>4, <1>6, <1>7, <1>9, AccountsStay DEF dns
<1> QED
  BY <1>8, <1>9

\* A thread that turns to clean up, and so far listed what it published.
LEMMA TurnsToClean ==
  ASSUME TypeOK, NEW w \in Workers, Held(w), pc[w] # "cleaning",
         Goto(w, "cleaning", [job[w] EXCEPT !.todo = job[w].work])
  PROVE  \A v : Accounts(w, v) => Accounts(w, v)'
<1>1. job[w] \in Job /\ job[w].work \in SUBSET Identifiers
  BY HeldHasOrder, BusyHasJob
<1> DEFINE j == [job[w] EXCEPT !.todo = job[w].work]
<1>2. Goto(w, "cleaning", j) /\ j.order = job[w].order /\ j.todo = job[w].work
  BY <1>1, TodoJob
<1> HIDE DEF j
<1>3. pc'[w] = "cleaning" /\ job'[w].order = job[w].order /\ job'[w].todo = job[w].work
  BY <1>2, Went
<1> QED
  BY <1>3 DEF Accounts, Held, OnList

LEMMA RemovedAt ==
  ASSUME TypeOK, Quiet, NEW w \in Workers, NEW i \in Identifiers, RemoveTxt(w, i), method' = method
  PROVE  /\ Quiet'
         /\ \A r \in Records : zone'[r] \subseteq zone[r]
         /\ method \in {"cloudflare", "challtestsrv"} => Val(w, i) \notin zone'[RecordOf[i]]
<1> DEFINE left == CASE method = "cloudflare" -> zone[RecordOf[i]] \ {Val(w, i)}
                     [] method = "challtestsrv" -> {}
                     [] OTHER -> zone[RecordOf[i]]
<1>1. zone' = [zone EXCEPT ![RecordOf[i]] = left] /\ RecordOf[i] \in Records
  BY Sets DEF RemoveTxt
<1>2. /\ left \subseteq zone[RecordOf[i]]
      /\ method \in {"cloudflare", "challtestsrv"} => Val(w, i) \notin left
  OBVIOUS
<1>3. zone \in [Records -> SUBSET Value]
  BY DEF TypeOK
<1> HIDE DEF left
<1> QED
  BY <1>1, <1>2, <1>3 DEF Quiet

LEMMA AccountedClean ==
  ASSUME TypeOK, Jobs, Accounted, NEW w \in Workers, CleanUp(w) \/ CleanUpFails(w)
  PROVE  Accounted'
<1> DEFINE i == First(w)
<1>0. JobAt(w) /\ Quiet
  BY DEF Jobs, Accounted
<1>1. /\ pc[w] = "cleaning" /\ Held(w) /\ i \in job[w].todo /\ i \in Identifiers
      /\ job[w].todo \ {i} \in SUBSET Identifiers
      /\ Goto(w, "cleaning", [job[w] EXCEPT !.todo = job[w].todo \ {i}])
      /\ UNCHANGED <<method, ca, port>>
  BY <1>0, Cleans, BusyHasJob
<1>2. \/ method # "edge" /\ RemoveTxt(w, i) /\ UNCHANGED ghosts
      \/ method = "edge" /\ UNCHANGED <<dns, ghosts>>
      \/ /\ Fault({}, {Val(w, i)})
         /\ RemoveTxt(w, i) \/ UNCHANGED dns
  BY <1>0, Cleans
<1> HIDE DEF i
<1> DEFINE j == [job[w] EXCEPT !.todo = job[w].todo \ {i}]
<1>3. /\ Goto(w, "cleaning", j) /\ j.order = job[w].order /\ j.todo = job[w].todo \ {i}
  BY <1>1, HeldHasOrder, BusyHasJob, TodoJob
<1> HIDE DEF j
<1>4. pc'[w] = "cleaning" /\ job'[w].order = job[w].order /\ job'[w].todo = job[w].todo \ {i}
  BY <1>3, Went
<1>5. ASSUME NEW v \in Value, Accounts(w, v), v # Val(w, i) PROVE Accounts(w, v)'
  <2>1. v.order = job[w].order /\ v.id \in job[w].todo
    BY <1>1, <1>5 DEF Accounts, OnList
  <2>2. v.id # i
    BY <1>5, <2>1 DEF Val, Value
  <2> QED
    BY <1>4, <2>1, <2>2 DEF Accounts, Held, OnList
<1>6. DOMAIN orders' = DOMAIN orders /\ method' = method
  BY <1>1 DEF ca
<1>7. lost \subseteq lost' /\ (Fault({}, {Val(w, i)}) => Val(w, i) \in lost')
  BY <1>2 DEF Fault, ghosts
<1>8. /\ Quiet' /\ \A r \in Records : zone'[r] \subseteq zone[r]
      /\ Val(w, i) \in lost' \/ (\A r \in Records : Val(w, i) \notin zone'[r])
  <2>1. ASSUME RemoveTxt(w, i)
        PROVE  /\ Quiet' /\ \A r \in Records : zone'[r] \subseteq zone[r]
               /\ \A r \in Records : Val(w, i) \notin zone'[r]
    <3>1. /\ Quiet' /\ \A r \in Records : zone'[r] \subseteq zone[r]
          /\ method \in {"cloudflare", "challtestsrv"} => Val(w, i) \notin zone'[RecordOf[i]]
      BY <1>0, <1>1, <1>6, <2>1, RemovedAt
    <3>2. ASSUME NEW r \in Records, Val(w, i) \in zone[r] PROVE r = RecordOf[i]
      BY <3>2 DEF Accounted, Val
    <3>3. method \in {"edge", "acmedns", "cloudflare", "challtestsrv"}
      BY FulfilmentAssumption DEF TypeOK
    <3> QED
      BY <1>0, <3>1, <3>2, <3>3 DEF Quiet
  <2>2. ASSUME UNCHANGED dns PROVE Quiet' /\ \A r \in Records : zone'[r] \subseteq zone[r]
    BY <1>0, <1>6, <2>2 DEF Quiet, dns
  <2>3. ASSUME UNCHANGED dns, method = "edge"
        PROVE  \A r \in Records : Val(w, i) \notin zone'[r]
    BY <1>0, <2>3 DEF Quiet, dns
  <2> QED
    BY <1>2, <1>7, <2>1, <2>2, <2>3
<1>9. \A r \in Records : \A v \in zone'[r] :
        v \in zone[r] /\ (Accounts(w, v) => v \in lost' \/ Accounts(w, v)')
  <2> SUFFICES ASSUME NEW r \in Records, NEW v \in zone'[r], Accounts(w, v), v \notin lost'
               PROVE  Accounts(w, v)'
    BY <1>8
  <2>1. v \in Value
    BY <1>8 DEF TypeOK
  <2>2. v # Val(w, i)
    BY <1>8
  <2> QED
    BY <1>5, <2>1, <2>2
<1> QED
  BY <1>3, <1>6, <1>7, <1>8, <1>9, AccountsMove

LEMMA AccountedFails ==
  ASSUME TypeOK, Jobs, Accounted, NEW w \in Workers, Fails(w)
  PROVE  Accounted'
<1>0. JobAt(w) /\ Quiet
  BY DEF Jobs, Accounted
<1>1. /\ Held(w) /\ pc[w] # "cleaning" /\ method' = method
      /\ Goto(w, "cleaning", [job[w] EXCEPT !.todo = job[w].work])
  BY <1>0, FailsShape
<1>2. \A v : Accounts(w, v) => Accounts(w, v)'
  BY <1>1, TurnsToClean
<1>3. DOMAIN orders' = DOMAIN orders
  BY <1>0, FailsOrders
<1>4. CASE UNCHANGED <<dns, lost>>
  BY <1>1, <1>2, <1>3, <1>4, AccountsStay DEF dns
<1>5. CASE /\ method # "edge" /\ First(w) \in job[w].ids
           /\ lost' = lost \cup {Val(w, First(w))} /\ PublishTxt(w, First(w))
  <2> DEFINE i == First(w)
  <2>1. Quiet' /\ \A r \in Records : \A v \in zone'[r] :
                    v \in zone[r] \/ (r = RecordOf[i] /\ v = Val(w, i))
    BY <1>0, <1>1, <1>5, PublishedAt
  <2>2. Val(w, i).id = i /\ Val(w, i).order \in DOMAIN orders
    BY <1>1, HeldHasOrder DEF Val
  <2>3. \A r \in Records : \A v \in zone'[r] :
          \/ v \in zone[r] /\ (Accounts(w, v) => v \in lost' \/ Accounts(w, v)')
          \/ r = RecordOf[v.id] /\ v.order \in DOMAIN orders /\ (v \in lost' \/ Accounts(w, v)')
    BY <1>2, <1>5, <2>1, <2>2
  <2> QED
    BY <1>1, <1>3, <1>5, <2>1, <2>3, AccountsMove
<1> QED
  BY <1>0, <1>4, <1>5, FailsShape

LEMMA AccountedStep ==
  ASSUME TypeOK, Bound, Jobs, Accounted, [Next]_vars
  PROVE  Accounted'
<1>0. \A w \in Workers : JobAt(w)
  BY DEF Jobs
<1>1. ASSUME NEW w \in Workers, NEW c \in Cas, NEW ids \in Csrs, Begin(w, c, ids) PROVE Accounted'
  <2>1. \E j : Goto(w, "ordering", j)
    BY <1>1 DEF Begin
  <2>2. /\ method' = method /\ zone' = zone /\ lost' = lost /\ orders' = orders
        /\ \A v : ~Accounts(w, v)
    BY <1>1 DEF Begin, ca, dns, ghosts, Busy, Accounts, Held
  <2> QED
    BY <2>1, <2>2, AccountsStay
<1>2. ASSUME NEW w \in Workers, NEW c \in Cas, Enroll(w, c) PROVE Accounted'
  BY <1>2 DEF Enroll, Accounted, Quiet, Accounts, Held, OnList, dns, ghosts
<1>3. ASSUME NEW w \in Workers, NewOrder(w) PROVE Accounted'
  <2>0. PICK o : o = Len(orders) + 1
    OBVIOUS
  <2>1. ~Held(w) /\ UNCHANGED <<method, dns, lost>>
    BY <1>0, <1>3, <2>0, NewHolder
  <2>2. DOMAIN orders \subseteq DOMAIN orders'
    BY <1>3, <2>0, Ordered
  <2>3. \E at, j : Goto(w, at, j)
    BY <1>3 DEF NewOrder
  <2>4. \A v : ~Accounts(w, v)
    BY <2>1 DEF Accounts
  <2> QED
    BY <2>1, <2>2, <2>3, <2>4, AccountsStay DEF dns
<1>4. ASSUME NEW w \in Workers, BindPort(w) \/ FailsEarly(w) \/ Return(w) PROVE Accounted'
  <2>1. \E at, j : Goto(w, at, j)
    BY <1>4 DEF BindPort, FailsEarly, Return
  <2>2. method' = method /\ zone' = zone /\ lost \subseteq lost' /\ orders' = orders
    BY <1>4 DEF BindPort, FailsEarly, Return, Fault, ca, dns, ghosts
  <2>3. \A v : ~Accounts(w, v)
    <3>1. pc[w] = "ordering" \/ (pc[w] = "binding" /\ job[w].work = {})
            \/ (pc[w] = "cleaning" /\ job[w].todo = {})
      BY <1>0, <1>4 DEF BindPort, FailsEarly, Return, JobAt
    <3> QED
      BY <3>1 DEF Accounts, Held, OnList
  <2> QED
    BY <2>1, <2>2, <2>3, AccountsStay
<1>5. ASSUME NEW w \in Workers, AnswerChallenge(w) PROVE Accounted'
  <2>1. /\ pc[w] = "answering" /\ Held(w)
        /\ UNCHANGED <<method, certs, revokes, dns, port, ghosts>>
    BY <1>0, <1>5, Answers
  <2>2. PICK at \in {"answering", "finalizing"}, left \in SUBSET job[w].ids :
          Goto(w, at, [job[w] EXCEPT !.todo = left])
    BY <1>0, <1>5, Answers
  <2> DEFINE j == [job[w] EXCEPT !.todo = left]
  <2>3. Goto(w, at, j) /\ j.order = job[w].order /\ j.work = job[w].work
    <3>1. job[w] \in Job /\ left \in SUBSET Identifiers
      BY <2>1, HeldHasOrder, BusyHasJob
    <3> QED
      BY <2>2, <3>1, TodoJob
  <2> HIDE DEF j
  <2>4. pc'[w] = at /\ job'[w].order = job[w].order /\ job'[w].work = job[w].work
    BY <2>3, Went
  <2>5. \A v : Accounts(w, v) => Accounts(w, v)'
    BY <2>1, <2>4 DEF Accounts, Held, OnList
  <2>6. DOMAIN orders' = DOMAIN orders
    BY <1>0, <1>5, Answers, OrderAsked
  <2> QED
    BY <2>1, <2>3, <2>5, <2>6, AccountsStay DEF dns, ghosts
<1>6. ASSUME NEW w \in Workers, Finalize(w) \/ Deadline(w) PROVE Accounted'
  <2>1. /\ Held(w) /\ pc[w] # "cleaning" /\ Goto(w, "cleaning", [job[w] EXCEPT !.todo = job[w].work])
        /\ method' = method /\ zone' = zone /\ lost' = lost /\ orders' = orders
    BY <1>6 DEF Finalize, Deadline, Held, ca, dns, ghosts
  <2>2. \A v : Accounts(w, v) => Accounts(w, v)'
    BY <2>1, TurnsToClean
  <2> QED
    BY <2>1, <2>2, AccountsStay
<1>7. ASSUME NEW o \in DOMAIN orders, NEW i \in Identifiers, Validate(o, i) PROVE Accounted'
  <2>1. DOMAIN orders' = DOMAIN orders
    BY <1>7, Validates, OrderValidated
  <2>2. UNCHANGED <<method, dns, pc, job, ghosts>>
    BY <1>7 DEF Validate
  <2> QED
    BY <2>1, <2>2 DEF Accounted, Quiet, Accounts, Held, OnList, dns, ghosts
<1>8. CASE Restart
  <2>1. /\ lost' = lost \cup {v \in Published : v.order \in InProgress}
        /\ UNCHANGED <<method, ca, dns, alone>>
    BY <1>0, <1>8, RestartShape
  <2>2. ASSUME NEW r \in Records, NEW v \in zone[r], NEW w \in Workers, Accounts(w, v)
        PROVE  v \in lost'
    <3>1. v \in Published
      BY DEF Published
    <3>2. v.order \in InProgress
      BY <1>0, <2>2, InProgressIs DEF Accounts
    <3> QED
      BY <2>1, <3>1, <3>2
  <2> QED
    BY <2>1, <2>2 DEF Accounted, Quiet, dns, ca
<1>9. CASE UNCHANGED <<method, orders, certs, dns, port, pc, job, ghosts>>
  BY <1>9 DEF Accounted, Quiet, Accounts, Held, OnList, dns, ghosts
<1> QED
  BY <1>1, <1>2, <1>3, <1>4, <1>5, <1>6, <1>7, <1>8, <1>9, AccountedPublish, AccountedClean,
     AccountedFails, Steps
-----------------------------------------------------------------------------
\* Who attends to what the CA was asked for.

LEMMA AttendedMove ==
  ASSUME TypeOK, Attended, NEW w \in Workers, NEW at, NEW j, Goto(w, at, j), failed \subseteq failed',
         \A o \in DOMAIN orders' : \A i \in orders'[o].asked :
           /\ i \in Identifiers /\ orders'[o].authz[i] # "none"
           /\ \/ orders'[o].authz[i] # "pending" \/ o \in failed' \/ Attends(w, o)'
              \/ /\ o \in DOMAIN orders /\ i \in orders[o].asked
                 /\ orders[o].authz[i] = "pending" /\ ~Attends(w, o)
  PROVE  Attended'
<1> SUFFICES ASSUME NEW o \in DOMAIN orders', NEW i \in orders'[o].asked,
                    orders'[o].authz[i] = "pending", o \notin failed'
             PROVE  \E u \in Workers : Attends(u, o)'
  BY DEF Attended
<1>1. CASE Attends(w, o)'
  BY <1>1
<1>2. CASE /\ o \in DOMAIN orders /\ i \in orders[o].asked
           /\ orders[o].authz[i] = "pending" /\ ~Attends(w, o)
  <2>1. PICK u \in Workers : Attends(u, o)
    BY <1>2 DEF Attended
  <2>2. pc'[u] = pc[u] /\ job'[u] = job[u]
    BY <1>2, <2>1, Went
  <2>3. Attends(u, o)'
    BY <2>1, <2>2 DEF Attends
  <2> QED
    BY <2>3
<1> QED
  BY <1>1, <1>2

\* A thread that attends to nothing, while the orders stay.
LEMMA AttendedElsewhere ==
  ASSUME TypeOK, Attended, NEW w \in Workers, NEW at, NEW j, Goto(w, at, j), failed \subseteq failed',
         pc[w] \notin {"answering", "finalizing"}, orders' = orders
  PROVE  Attended'
<1>1. \A o : ~Attends(w, o)
  BY DEF Attends
<1> QED
  BY <1>1, AttendedMove DEF Attended

LEMMA AttendedAnswer ==
  ASSUME TypeOK, Jobs, Attended, NEW w \in Workers, AnswerChallenge(w)
  PROVE  Attended'
<1> DEFINE i == First(w)
<1>0. JobAt(w)
  BY DEF Jobs
<1>o. PICK o : o = job[w].order
  OBVIOUS
<1>1. /\ pc[w] = "answering" /\ Held(w) /\ i \in job[w].ids /\ i \in Identifiers /\ o \in DOMAIN orders
      /\ orders' = [orders EXCEPT ![o].asked = @ \cup {i}]
      /\ UNCHANGED <<method, certs, revokes, dns, port, ghosts>>
  BY <1>0, <1>o, Answers
<1>2. PICK at \in {"answering", "finalizing"}, left \in SUBSET job[w].ids :
        Goto(w, at, [job[w] EXCEPT !.todo = left])
  BY <1>0, Answers
<1>3. Attends(w, o)'
  <2> DEFINE j == [job[w] EXCEPT !.todo = left]
  <2>1. job[w] \in Job /\ left \in SUBSET Identifiers
    BY <1>1, HeldHasOrder, BusyHasJob
  <2>2. Goto(w, at, j) /\ j.order = o
    BY <1>2, <1>o, <2>1, TodoJob
  <2> HIDE DEF j
  <2>3. pc'[w] = at /\ job'[w].order = o
    BY <2>2, Went
  <2> QED
    BY <2>3 DEF Attends
<1> HIDE DEF i
<1>4. /\ DOMAIN orders' = DOMAIN orders
      /\ \A p \in DOMAIN orders : orders'[p].authz = orders[p].authz
      /\ \A p \in DOMAIN orders :
           orders'[p].asked = IF p = o THEN orders[o].asked \cup {i} ELSE orders[p].asked
  BY <1>1, OrderAsked
<1>5. orders[o].authz[i] # "none" /\ i \in Identifiers /\ o \in DOMAIN orders
  BY <1>0, <1>1, <1>o DEF JobAt
<1>6. ASSUME NEW p \in DOMAIN orders', NEW k \in orders'[p].asked
      PROVE  /\ k \in Identifiers /\ orders'[p].authz[k] # "none"
             /\ Attends(w, p)' \/ (p \in DOMAIN orders /\ k \in orders[p].asked
                                   /\ orders'[p].authz[k] = orders[p].authz[k] /\ ~Attends(w, p))
  <2>1. CASE p = o
    <3>1. k \in orders[o].asked \/ k = i
      BY <1>4, <1>5, <2>1
    <3>2. k \in Identifiers /\ orders[o].authz[k] # "none"
      BY <1>5, <3>1 DEF Attended
    <3> QED
      BY <1>3, <1>4, <1>5, <2>1, <3>2 DEF Attends
  <2>2. CASE p # o
    BY <1>4, <1>o, <2>2 DEF Attended, Attends
  <2> QED
    BY <2>1, <2>2
<1>7. (\E j : Goto(w, at, j)) /\ failed' = failed
  BY <1>1, <1>2 DEF ghosts
<1>8. \A p \in DOMAIN orders' : \A k \in orders'[p].asked :
        /\ k \in Identifiers /\ orders'[p].authz[k] # "none"
        /\ \/ orders'[p].authz[k] # "pending" \/ p \in failed' \/ Attends(w, p)'
           \/ /\ p \in DOMAIN orders /\ k \in orders[p].asked
              /\ orders[p].authz[k] = "pending" /\ ~Attends(w, p)
  BY <1>6
<1> QED
  BY <1>7, <1>8, AttendedMove

\* An order whose thread leaves it: it has an answer to all it asked for, or it has failed.
LEMMA AttendedLeft ==
  ASSUME TypeOK, Attended, NEW w \in Workers, NEW at, NEW j, Goto(w, at, j), failed \subseteq failed',
         NEW o, o = job[w].order, orders' = orders,
         o \in failed' \/ ~ \E i \in orders[o].asked : orders[o].authz[i] = "pending"
  PROVE  Attended'
<1>1. \A p \in DOMAIN orders : \A i \in orders[p].asked :
        /\ i \in Identifiers /\ orders[p].authz[i] # "none"
        /\ \/ orders[p].authz[i] # "pending" \/ p \in failed'
           \/ orders[p].authz[i] = "pending" /\ ~Attends(w, p)
  BY DEF Attended, Attends
<1> QED
  BY <1>1, AttendedMove

LEMMA AttendedFails ==
  ASSUME TypeOK, Jobs, Attended, NEW w \in Workers, Fails(w)
  PROVE  Attended'
<1> DEFINE o == job[w].order
           i == First(w)
<1>0. JobAt(w)
  BY DEF Jobs
<1>1. /\ Held(w) /\ o \in DOMAIN orders /\ failed' = failed \cup {o}
      /\ \E j : Goto(w, "cleaning", j)
  BY <1>0, FailsShape
<1>2. CASE UNCHANGED orders
  BY <1>1, <1>2, AttendedLeft
<1>3. CASE i \in job[w].ids /\ orders' = [orders EXCEPT ![o].asked = @ \cup {i}]
  <2>1. i \in Identifiers /\ orders[o].authz[i] # "none"
    BY <1>0, <1>1, <1>3, HeldHasOrder, BusyHasJob DEF JobAt
  <2>2. /\ DOMAIN orders' = DOMAIN orders
        /\ \A p \in DOMAIN orders : orders'[p].authz = orders[p].authz
        /\ \A p \in DOMAIN orders :
             orders'[p].asked = IF p = o THEN orders[o].asked \cup {i} ELSE orders[p].asked
    BY <1>1, <1>3, <2>1, OrderAsked
  <2> HIDE DEF i
  <2>3. \A p \in DOMAIN orders' : \A k \in orders'[p].asked :
          /\ k \in Identifiers /\ orders'[p].authz[k] # "none"
          /\ \/ orders'[p].authz[k] # "pending" \/ p \in failed' \/ Attends(w, p)'
             \/ /\ p \in DOMAIN orders /\ k \in orders[p].asked
                /\ orders[p].authz[k] = "pending" /\ ~Attends(w, p)
    <3> SUFFICES ASSUME NEW p \in DOMAIN orders', NEW k \in orders'[p].asked
                 PROVE  /\ k \in Identifiers /\ orders'[p].authz[k] # "none"
                        /\ p \in failed' \/ (p \in DOMAIN orders /\ k \in orders[p].asked
                              /\ orders'[p].authz[k] = orders[p].authz[k] /\ ~Attends(w, p))
      OBVIOUS
    <3>1. CASE p = o
      BY <1>1, <2>1, <2>2, <3>1 DEF Attended
    <3>2. CASE p # o
      BY <2>2, <3>2 DEF Attended, Attends
    <3> QED
      BY <3>1, <3>2
  <2> QED
    BY <1>1, <2>3, AttendedMove
<1> QED
  BY <1>0, <1>2, <1>3, FailsShape

LEMMA AttendedStep ==
  ASSUME TypeOK, Bound, Jobs, Attended, [Next]_vars
  PROVE  Attended'
<1>0. \A w \in Workers : JobAt(w)
  BY DEF Jobs
<1>1. ASSUME NEW w \in Workers, NEW c \in Cas, NEW ids \in Csrs, Begin(w, c, ids) PROVE Attended'
  <2>1. \E j : Goto(w, "ordering", j)
    BY <1>1 DEF Begin
  <2>2. orders' = orders /\ failed' = failed /\ pc[w] \notin {"answering", "finalizing"}
    BY <1>1 DEF Begin, ca, ghosts, Busy
  <2> QED
    BY <2>1, <2>2, AttendedElsewhere
<1>2. ASSUME NEW w \in Workers, NEW c \in Cas, Enroll(w, c) PROVE Attended'
  BY <1>2 DEF Enroll, Attended, Attends, ghosts
<1>3. ASSUME NEW w \in Workers, NewOrder(w) PROVE Attended'
  <2>0. PICK o : o = Len(orders) + 1
    OBVIOUS
  <2>1. \E at, j : Goto(w, at, j)
    BY <1>3 DEF NewOrder
  <2>2. failed' = failed /\ \A p : ~Attends(w, p)
    BY <1>3 DEF NewOrder, Attends
  <2>3. /\ \A p \in DOMAIN orders : orders'[p] = orders[p]
        /\ DOMAIN orders' = DOMAIN orders \cup {o} /\ orders'[o].asked = {}
    BY <1>3, <2>0, Ordered
  <2> QED
    BY <2>1, <2>2, <2>3, AttendedMove DEF Attended
<1>4. ASSUME NEW w \in Workers, \/ BindPort(w) \/ FailsEarly(w) \/ Return(w)
                                \/ PublishProof(w) \/ CleanUp(w) \/ CleanUpFails(w)
      PROVE  Attended'
  <2>1. \E at, j : Goto(w, at, j)
    BY <1>4 DEF BindPort, FailsEarly, Return, PublishProof, CleanUp, CleanUpFails
  <2>2. failed \subseteq failed' /\ orders' = orders /\ pc[w] \notin {"answering", "finalizing"}
    BY <1>4 DEF BindPort, FailsEarly, Return, PublishProof, CleanUp, CleanUpFails, Fault, ca, ghosts
  <2> QED
    BY <2>1, <2>2, AttendedElsewhere
<1>5. ASSUME NEW w \in Workers, Finalize(w) PROVE Attended'
  <2>1. (\E j : Goto(w, "cleaning", j)) /\ orders' = orders /\ failed' = failed
    BY <1>5 DEF Finalize, ghosts
  <2>2. job[w].order \in DOMAIN orders /\ Held(w)
    BY <1>5, HeldHasOrder DEF Finalize, Held
  <2>3. ~ \E i \in orders[job[w].order].asked : orders[job[w].order].authz[i] = "pending"
    <3> SUFFICES ASSUME NEW i \in orders[job[w].order].asked PROVE orders[job[w].order].authz[i] # "pending"
      OBVIOUS
    <3>1. i \in Identifiers /\ orders[job[w].order].authz[i] # "none"
      BY <2>2 DEF Attended
    <3>2. i \in job[w].ids
      BY <1>0, <2>2, <3>1 DEF JobAt
    <3> QED
      BY <1>5, <3>2 DEF Finalize
  <2> QED
    BY <2>1, <2>3, AttendedLeft
<1>6. ASSUME NEW w \in Workers, Deadline(w) PROVE Attended'
  <2>1. (\E j : Goto(w, "cleaning", j)) /\ orders' = orders /\ failed' = failed \cup {job[w].order}
    BY <1>6 DEF Deadline, ca
  <2> QED
    BY <2>1, AttendedLeft
<1>7. ASSUME NEW o \in DOMAIN orders, NEW i \in Identifiers, Validate(o, i) PROVE Attended'
  <2>1. /\ DOMAIN orders' = DOMAIN orders
        /\ \A p \in DOMAIN orders : orders'[p].asked = orders[p].asked
        /\ \A p \in DOMAIN orders, k \in Identifiers :
             orders'[p].authz[k] = orders[p].authz[k] \/ orders'[p].authz[k] \in {"valid", "invalid"}
    BY <1>7, Validates, OrderValidated
  <2>2. UNCHANGED <<pc, job, failed>>
    BY <1>7 DEF Validate, ghosts
  <2> QED
    BY <2>1, <2>2 DEF Attended, Attends
<1>8. CASE Restart
  <2>1. orders' = orders /\ failed' = failed \cup InProgress
    BY <1>0, <1>8, RestartShape DEF ca
  <2>2. ASSUME NEW w \in Workers, NEW o \in DOMAIN orders, Attends(w, o) PROVE o \in InProgress
    BY <1>0, <2>2, InProgressIs DEF Attends, Held
  <2> QED
    BY <2>1, <2>2 DEF Attended
<1>9. CASE UNCHANGED <<method, orders, certs, dns, port, pc, job, ghosts>>
  BY <1>9 DEF Attended, Attends, ghosts
<1> QED
  BY <1>1, <1>2, <1>3, <1>4, <1>5, <1>6, <1>7, <1>8, <1>9, AttendedAnswer, AttendedFails, Steps
-----------------------------------------------------------------------------
\* What the CA finds.

\* A thread whose proofs are where they were.
LEMMA FoundStays ==
  ASSUME NEW v \in Workers, FoundBy(v), method' = method,
         pc'[v] \in {"publishing", "answering", "finalizing"} =>
           /\ pc[v] \in {"publishing", "answering", "finalizing"}
           /\ job'[v].order = job[v].order /\ job'[v].ids = job[v].ids /\ job'[v].work = job[v].work
           /\ job[v].order \in alone' => job[v].order \in alone
           /\ \A i \in job[v].work :
                /\ Val(v, i) \in zone[RecordOf[i]]
                /\ method = "cloudflare" \/ (method = "challtestsrv" /\ job[v].order \in alone)
                => Val(v, i) \in zone'[RecordOf[i]]
           /\ method = "acmedns" /\ job[v].order \in alone => kept' = kept
  PROVE  FoundBy(v)'
<1> SUFFICES ASSUME pc'[v] \in {"publishing", "answering", "finalizing"} PROVE FoundBy(v)'
  BY DEF FoundBy
<1>1. \A i : Val(v, i)' = Val(v, i)
  BY DEF Val
<1>2. method' = "cloudflare" \/ (method' = "challtestsrv" /\ job'[v].order \in alone') =>
        \A i \in job'[v].work : Val(v, i)' \in zone'[RecordOf[i]]
  BY <1>1 DEF FoundBy
<1>3. method' = "acmedns" /\ job'[v].order \in alone' /\ Cardinality(job'[v].ids) <= 2 =>
        /\ \A i \in job'[v].work : Val(v, i)' \in {kept'[1], kept'[2]}
        /\ \A i \in job'[v].ids : job'[v].work = {i} => kept'[2] = Val(v, i)'
  BY <1>1 DEF FoundBy
<1> QED
  BY <1>2, <1>3 DEF FoundBy

LEMMA FoundElsewhere ==
  ASSUME NEW w, pc'[w] \notin {"publishing", "answering", "finalizing"}
  PROVE  FoundBy(w)'
  BY DEF FoundBy

\* A thread with nothing published yet.
LEMMA FoundNothing ==
  ASSUME NEW w, job'[w].work = {}
  PROVE  FoundBy(w)'
<1>1. \A i : {i} # {}
  OBVIOUS
<1> QED
  BY <1>1 DEF FoundBy

\* The steps that leave the providers alone.
LEMMA FoundFrame ==
  ASSUME TypeOK, Found, NEW w \in Workers, NEW at, NEW j, Goto(w, at, j),
         method' = method, dns' = dns, alone' = alone, FoundBy(w)'
  PROVE  Found'
<1> SUFFICES ASSUME NEW v \in Workers, v # w PROVE FoundBy(v)'
  BY DEF Found
<1>1. pc'[v] = pc[v] /\ job'[v] = job[v]
  BY Went
<1> QED
  BY <1>1, FoundStays DEF Found, dns

\* What another thread publishes, or removes, is of another order.
LEMMA OfAnother ==
  ASSUME TypeOK, Jobs, AloneOK, NEW v \in Workers, NEW w \in Workers, v # w, Held(v), Held(w)
  PROVE  /\ job[v].order \notin alone
         /\ \A i, k : Val(v, k) # Val(w, i)
  BY DEF Jobs, Owned, AloneOK, Val

LEMMA FoundOther ==
  ASSUME TypeOK, Jobs, AloneOK, Found, NEW v \in Workers, NEW w \in Workers, v # w, Held(w),
         NEW i \in job[w].ids, pc'[v] = pc[v], job'[v] = job[v], method' = method, alone' = alone,
         (method # "edge" /\ PublishTxt(w, i)) \/ RemoveTxt(w, i) \/ UNCHANGED dns
  PROVE  FoundBy(v)'
<1> SUFFICES ASSUME pc[v] \in {"publishing", "answering", "finalizing"} PROVE FoundBy(v)'
  BY FoundElsewhere
<1>1. Held(v)
  BY DEF Held
<1>2. job[v].order \notin alone /\ \A k : Val(v, k) # Val(w, i)
  BY <1>1, OfAnother
<1>3. i \in Identifiers /\ job[v].work \subseteq Identifiers
  BY <1>1, HeldHasOrder, BusyHasJob
<1>4. ASSUME NEW k \in job[v].work, Val(v, k) \in zone[RecordOf[k]], method = "cloudflare"
      PROVE  Val(v, k) \in zone'[RecordOf[k]]
  <2>1. zone \in [Records -> SUBSET Value] /\ RecordOf[k] \in Records
    BY <1>3, Sets DEF TypeOK
  <2>2. CASE PublishTxt(w, i)
    BY <1>4, <2>1, <2>2 DEF PublishTxt
  <2>3. CASE RemoveTxt(w, i)
    <3>1. zone' = [zone EXCEPT ![RecordOf[i]] = zone[RecordOf[i]] \ {Val(w, i)}]
      BY <1>4, <2>3 DEF RemoveTxt
    <3> QED
      BY <1>2, <1>4, <2>1, <3>1
  <2>4. CASE UNCHANGED dns
    BY <1>4, <2>4 DEF dns
  <2> QED
    BY <2>2, <2>3, <2>4
<1>5. FoundBy(v)
  BY DEF Found
<1> QED
  BY <1>2, <1>4, <1>5, FoundStays

LEMMA AtMostTwo ==
  ASSUME NEW S, IsFiniteSet(S), Cardinality(S) <= 2, NEW a \in S, NEW b \in S, a # b
  PROVE  S = {a, b}
<1>1. /\ IsFiniteSet(S \ {a}) /\ Cardinality(S \ {a}) = Cardinality(S) - 1
      /\ Cardinality(S) \in Nat
  BY FS_RemoveElement, FS_CardinalityType
<1>2. /\ IsFiniteSet((S \ {a}) \ {b})
      /\ Cardinality((S \ {a}) \ {b}) = Cardinality(S \ {a}) - 1
      /\ Cardinality((S \ {a}) \ {b}) \in Nat
  <2>1. b \in S \ {a}
    OBVIOUS
  <2> QED
    BY <1>1, <2>1, FS_RemoveElement, FS_CardinalityType
<1>3. Cardinality((S \ {a}) \ {b}) = 0
  BY <1>1, <1>2
<1>4. (S \ {a}) \ {b} = {}
  BY <1>2, <1>3, FS_EmptySet
<1> QED
  BY <1>4

LEMMA FoundPublish ==
  ASSUME TypeOK, Jobs, AloneOK, Found, NEW w \in Workers, PublishProof(w)
  PROVE  Found'
<1> DEFINE i == First(w)
<1>0. JobAt(w)
  BY DEF Jobs
<1>1. /\ pc[w] = "publishing" /\ job[w] \in Job /\ Held(w) /\ i \in job[w].ids \ job[w].work
      /\ IF method # "edge" THEN PublishTxt(w, i) ELSE UNCHANGED dns
      /\ UNCHANGED <<method, ca, port, ghosts>>
  BY <1>0, Publishes
<1>2. PICK at, left : Goto(w, at, Listed(job[w], i, left)) /\ left \in SUBSET job[w].ids
  BY <1>0, Publishes
<1>3. /\ job'[w].order = job[w].order /\ job'[w].ids = job[w].ids /\ job'[w].work = job[w].work \cup {i}
      /\ \A v \in Workers \ {w} : pc'[v] = pc[v] /\ job'[v] = job[v]
  BY <1>1, <1>2, Went, ListedJob
<1>4. IsFiniteSet(job[w].ids) /\ job[w].work \subseteq job[w].ids /\ job[w].ids \subseteq Identifiers
  BY <1>0, <1>1, HeldHasOrder, BusyHasJob DEF JobAt
<1> HIDE DEF i
<1>5. method' = method /\ alone' = alone
  BY <1>1 DEF ghosts
<1>6. \A v \in Workers \ {w} : FoundBy(v)'
  BY <1>1, <1>3, <1>5, FoundOther
<1>7. \A k : Val(w, k)' = Val(w, k)
  BY <1>3 DEF Val
<1>8. FoundBy(w)
  BY DEF Found
<1>9. ASSUME method = "cloudflare" \/ (method = "challtestsrv" /\ job[w].order \in alone),
             NEW k \in job'[w].work
      PROVE  Val(w, k) \in zone'[RecordOf[k]]
  <2>1. zone' = [zone EXCEPT ![RecordOf[i]] = zone[RecordOf[i]] \cup {Val(w, i)}]
    BY <1>1, <1>9 DEF PublishTxt
  <2>2. zone \in [Records -> SUBSET Value] /\ RecordOf[i] \in Records /\ RecordOf[k] \in Records
    BY <1>1, <1>3, <1>4, Sets DEF TypeOK
  <2>3. k = i \/ Val(w, k) \in zone[RecordOf[k]]
    BY <1>1, <1>3, <1>8, <1>9 DEF FoundBy
  <2> QED
    BY <2>1, <2>2, <2>3
<1>10. ASSUME method = "acmedns", job[w].order \in alone, Cardinality(job[w].ids) <= 2
       PROVE  /\ \A k \in job'[w].work : Val(w, k) \in {kept'[1], kept'[2]}
              /\ \A k \in job'[w].ids : job'[w].work = {k} => kept'[2] = Val(w, k)
  <2>1. kept' = <<kept[2], Val(w, i)>>
    BY <1>1, <1>10 DEF PublishTxt, Update
  <2>2. kept'[1] = kept[2] /\ kept'[2] = Val(w, i)
    BY <2>1
  <2>3. ASSUME NEW k \in job[w].work PROVE kept[2] = Val(w, k)
    <3>1. k # i /\ k \in job[w].ids /\ i \in job[w].ids
      BY <1>1, <1>4
    <3>2. job[w].ids = {i, k}
      BY <1>4, <1>10, <3>1, AtMostTwo
    <3>3. job[w].work = {k}
      BY <1>1, <1>4, <3>2
    <3> QED
      BY <1>1, <1>8, <1>10, <3>1, <3>3 DEF FoundBy
  <2>4. ASSUME NEW k \in job'[w].work PROVE Val(w, k) \in {kept'[1], kept'[2]}
    BY <1>3, <2>2, <2>3
  <2>5. ASSUME NEW k, job'[w].work = {k} PROVE k = i
    BY <1>3, <2>5
  <2> QED
    BY <2>2, <2>4, <2>5
<1>11. FoundBy(w)'
  BY <1>3, <1>5, <1>7, <1>9, <1>10 DEF FoundBy
<1> QED
  BY <1>6, <1>11 DEF Found

LEMMA FoundStep ==
  ASSUME TypeOK, Bound, Jobs, AloneOK, Found, [Next]_vars
  PROVE  Found'
<1>0. \A w \in Workers : JobAt(w)
  BY DEF Jobs
<1>1. ASSUME NEW w \in Workers, NEW c \in Cas, NEW ids \in Csrs, Begin(w, c, ids) PROVE Found'
  <2>1. PICK j : Goto(w, "ordering", j)
    BY <1>1 DEF Begin
  <2>2. method' = method /\ dns' = dns /\ alone' = alone
    BY <1>1 DEF Begin, ghosts
  <2>3. FoundBy(w)'
    BY <2>1, Went, FoundElsewhere
  <2> QED
    BY <2>1, <2>2, <2>3, FoundFrame
<1>2. ASSUME NEW w \in Workers, NEW c \in Cas, Enroll(w, c) PROVE Found'
  BY <1>2, FoundStays DEF Enroll, Found, dns, ghosts
<1>3. ASSUME NEW w \in Workers, NewOrder(w) PROVE Found'
  <2>0. PICK o : o = Len(orders) + 1
    OBVIOUS
  <2>1. /\ job'[w].work = {} /\ o \notin DOMAIN orders
        /\ \A v \in Workers \ {w} : pc'[v] = pc[v] /\ job'[v] = job[v]
        /\ alone' \subseteq alone \cup {o}
        /\ UNCHANGED <<method, dns>>
    BY <1>0, <1>3, <2>0, NewHolder
  <2>2. ASSUME NEW v \in Workers, v # w PROVE FoundBy(v)'
    <3>1. Held(v) => (job[v].order \in alone' => job[v].order \in alone)
      BY <2>1, HeldHasOrder
    <3>2. pc'[v] = pc[v] /\ job'[v] = job[v] /\ FoundBy(v)
      BY <2>1, <2>2 DEF Found
    <3> QED
      BY <2>1, <3>1, <3>2, FoundStays DEF Held, dns
  <2> QED
    BY <2>1, <2>2, FoundNothing DEF Found
<1>4. ASSUME NEW w \in Workers, BindPort(w) PROVE Found'
  <2>1. job[w].work = {} /\ method' = method /\ dns' = dns /\ alone' = alone
    BY <1>0, <1>4 DEF BindPort, JobAt, ghosts
  <2>2. CASE Goto(w, "publishing", job[w])
    BY <2>1, <2>2, Went, FoundNothing, FoundFrame
  <2>3. CASE Goto(w, "idle", None)
    BY <2>1, <2>3, Went, FoundElsewhere, FoundFrame
  <2> QED
    BY <1>4, <2>2, <2>3 DEF BindPort
<1>5. ASSUME NEW w \in Workers, AnswerChallenge(w) PROVE Found'
  <2>1. /\ pc[w] = "answering" /\ Held(w)
        /\ UNCHANGED <<method, certs, revokes, dns, port, ghosts>>
    BY <1>0, <1>5, Answers
  <2>2. PICK at \in {"answering", "finalizing"}, left \in SUBSET job[w].ids :
          Goto(w, at, [job[w] EXCEPT !.todo = left])
    BY <1>0, <1>5, Answers
  <2> DEFINE j == [job[w] EXCEPT !.todo = left]
  <2>3. Goto(w, at, j) /\ j.order = job[w].order /\ j.work = job[w].work /\ j.ids = job[w].ids
    <3>1. job[w] \in Job /\ left \in SUBSET Identifiers
      BY <2>1, HeldHasOrder, BusyHasJob
    <3> QED
      BY <2>2, <3>1, TodoJob
  <2> HIDE DEF j
  <2>4. job'[w].order = job[w].order /\ job'[w].work = job[w].work /\ job'[w].ids = job[w].ids
    BY <2>3, Went
  <2>5. method' = method /\ dns' = dns /\ alone' = alone
    BY <2>1 DEF ghosts
  <2>6. FoundBy(w)'
    BY <2>1, <2>4, <2>5, FoundStays DEF Found, dns
  <2> QED
    BY <2>3, <2>5, <2>6, FoundFrame
<1>6. ASSUME NEW w \in Workers, Finalize(w) \/ Deadline(w) \/ Return(w) \/ FailsEarly(w) PROVE Found'
  <2>1. \E j : \E at \in {"cleaning", "idle"} : Goto(w, at, j)
    BY <1>6 DEF Finalize, Deadline, Return, FailsEarly
  <2>2. method' = method /\ dns' = dns /\ alone' = alone
    BY <1>6 DEF Finalize, Deadline, Return, FailsEarly, Fault, ghosts
  <2>3. FoundBy(w)'
    BY <2>1, Went, FoundElsewhere
  <2> QED
    BY <2>1, <2>2, <2>3, FoundFrame
<1>7. ASSUME NEW w \in Workers, CleanUp(w) \/ CleanUpFails(w) \/ Fails(w) PROVE Found'
  <2>1. /\ Held(w) /\ method' = method /\ alone' = alone
        /\ \E j : Goto(w, "cleaning", j)
    <3>1. ASSUME CleanUp(w) \/ CleanUpFails(w)
          PROVE  Held(w) /\ method' = method /\ alone' = alone /\ \E j : Goto(w, "cleaning", j)
      BY <1>0, <3>1, Cleans DEF Fault, ghosts
    <3>2. ASSUME Fails(w)
          PROVE  Held(w) /\ method' = method /\ alone' = alone /\ \E j : Goto(w, "cleaning", j)
      BY <1>0, <3>2, FailsShape
    <3> QED
      BY <1>7, <3>1, <3>2
  <2>2. \/ /\ First(w) \in job[w].ids
           /\ (method # "edge" /\ PublishTxt(w, First(w))) \/ RemoveTxt(w, First(w))
        \/ UNCHANGED dns
    <3>1. CASE CleanUp(w) \/ CleanUpFails(w)
      BY <1>0, <3>1, Cleans DEF dns
    <3>2. CASE Fails(w)
      BY <1>0, <3>2, FailsShape
    <3> QED
      BY <1>7, <3>1, <3>2
  <2>3. ASSUME NEW v \in Workers, v # w PROVE FoundBy(v)'
    <3>1. pc'[v] = pc[v] /\ job'[v] = job[v] /\ FoundBy(v)
      BY <2>1, <2>3, Went DEF Found
    <3>2. CASE UNCHANGED dns
      BY <2>1, <3>1, <3>2, FoundStays DEF dns
    <3>3. CASE ~UNCHANGED dns
      BY <2>1, <2>2, <2>3, <3>1, <3>3, FoundOther
    <3> QED
      BY <3>2, <3>3
  <2>4. FoundBy(w)'
    BY <2>1, Went, FoundElsewhere
  <2> QED
    BY <2>3, <2>4 DEF Found
<1>8. ASSUME NEW o \in DOMAIN orders, NEW i \in Identifiers, Validate(o, i) PROVE Found'
  BY <1>8, FoundStays DEF Validate, Found, dns, ghosts
<1>9. CASE Restart
  BY <1>0, <1>9, RestartShape, FoundElsewhere DEF Found
<1>10. CASE UNCHANGED <<method, orders, certs, dns, port, pc, job, ghosts>>
  BY <1>10, FoundStays DEF Found, dns, ghosts
<1> QED
  BY <1>1, <1>2, <1>3, <1>4, <1>5, <1>6, <1>7, <1>8, <1>9, <1>10, FoundPublish, Steps
-----------------------------------------------------------------------------
\* What the CA says of the proofs.

\* Nothing but the CA's look at a proof changes what it said.
LEMMA AuthzStays ==
  ASSUME TypeOK, Bound, \A w \in Workers : JobAt(w), [Next]_vars,
         ~ \E o \in DOMAIN orders, i \in Identifiers : Validate(o, i)
  PROVE  \A o \in DOMAIN orders : o \in DOMAIN orders' /\ orders'[o].authz = orders[o].authz
<1>1. CASE orders' = orders
  BY <1>1
<1>2. ASSUME NEW w \in Workers, NewOrder(w)
      PROVE  \A o \in DOMAIN orders : o \in DOMAIN orders' /\ orders'[o].authz = orders[o].authz
  <2>0. PICK o : o = Len(orders) + 1
    OBVIOUS
  <2> QED
    BY <1>2, <2>0, Ordered
<1>3. ASSUME NEW w \in Workers, AnswerChallenge(w)
      PROVE  \A o \in DOMAIN orders : o \in DOMAIN orders' /\ orders'[o].authz = orders[o].authz
  BY <1>3, Answers, OrderAsked
<1>4. ASSUME NEW w \in Workers, Fails(w)
      PROVE  \A o \in DOMAIN orders : o \in DOMAIN orders' /\ orders'[o].authz = orders[o].authz
  BY <1>4, FailsOrders
<1>5. ASSUME NEW w \in Workers,
             \/ \E c \in Cas, ids \in Csrs : Begin(w, c, ids)
             \/ \E c \in Cas : Enroll(w, c)
             \/ BindPort(w) \/ Finalize(w) \/ Deadline(w) \/ Return(w) \/ FailsEarly(w)
             \/ PublishProof(w) \/ CleanUp(w) \/ CleanUpFails(w)
      PROVE  orders' = orders
  BY <1>5 DEF Begin, Enroll, BindPort, Finalize, Deadline, Return, FailsEarly,
     PublishProof, CleanUp, CleanUpFails, ca
<1>6. Restart => orders' = orders
  BY DEF Restart, ca
<1> QED
  BY <1>1, <1>2, <1>3, <1>4, <1>5, <1>6, Steps

\* An order the CA is to find the proofs of was such an order before.
LEMMA DependableBefore ==
  ASSUME TypeOK, Bound, \A w \in Workers : JobAt(w), [Next]_vars, NEW o \in DOMAIN orders,
         Dependable(o)', o \notin failed'
  PROVE  Dependable(o) /\ o \notin failed
<1>1. /\ method' = method /\ failed \subseteq failed' /\ (o \in alone' => o \in alone)
      /\ \A i \in Identifiers : orders'[o].authz[i] = "none" <=> orders[o].authz[i] = "none"
  <2>1. CASE ~ \E w \in Workers : NewOrder(w)
    BY <2>1, HeirsStep DEF Heirs
  <2>2. ASSUME NEW w \in Workers, NewOrder(w)
        PROVE  /\ method' = method /\ failed \subseteq failed' /\ (o \in alone' => o \in alone)
               /\ orders'[o] = orders[o]
    <3>0. PICK p : p = Len(orders) + 1
      OBVIOUS
    <3>1. orders'[o] = orders[o] /\ o # p
      BY <2>2, <3>0, Ordered
    <3>2. alone' \subseteq alone \cup {p} /\ UNCHANGED <<method, failed>>
      BY <2>2, <3>0, NewHolder
    <3> QED
      BY <3>1, <3>2
  <2> QED
    BY <2>1, <2>2
<1>2. {i \in Identifiers : orders'[o].authz[i] # "none"} = {i \in Identifiers : orders[o].authz[i] # "none"}
  BY <1>1
<1> QED
  BY <1>1, <1>2 DEF Dependable

\* The CA looks where the proof is.
LEMMA ProofIsThere ==
  ASSUME TypeOK, Jobs, PortHeld, Attended, Found, NEW o \in DOMAIN orders, NEW i \in Identifiers,
         i \in orders[o].asked, orders[o].authz[i] = "pending", Dependable(o), o \notin failed
  PROVE  Proved(o, i)
<1>1. PICK w \in Workers : Attends(w, o)
  BY DEF Attended
<1>2. /\ pc[w] \in {"answering", "finalizing"} /\ Held(w) /\ Listing(w)
      /\ job[w].order = o /\ job[w].work = job[w].ids
      /\ \A k \in Identifiers : orders[o].authz[k] # "none" <=> k \in job[w].ids
  BY <1>1 DEF Attends, Held, Listing, Jobs, JobAt
<1>3. i \in job[w].work /\ job[w].ids \subseteq Identifiers
  BY <1>2, HeldHasOrder, BusyHasJob
<1>4. Val(w, i) = [order |-> o, id |-> i] /\ FoundBy(w)
  BY <1>2 DEF Val, Found
<1>5. CASE method = "edge"
  <2>1. port = w /\ w # None
    BY <1>2, <1>5, Sets DEF PortHeld
  <2> QED
    BY <1>2, <1>3, <1>5, <2>1 DEF Proved
<1>6. CASE method = "cloudflare" \/ (method = "challtestsrv" /\ o \in alone)
  <2>1. Val(w, i) \in zone[RecordOf[i]]
    BY <1>2, <1>3, <1>4, <1>6 DEF FoundBy
  <2> QED
    BY <1>4, <1>6, <2>1 DEF Proved, Seen
<1>7. CASE /\ o \in alone /\ method = "acmedns"
           /\ Cardinality({k \in Identifiers : orders[o].authz[k] # "none"}) <= 2
  <2>1. {k \in Identifiers : orders[o].authz[k] # "none"} = job[w].ids
    BY <1>2, <1>3
  <2>2. Val(w, i) \in {kept[1], kept[2]}
    BY <1>2, <1>3, <1>4, <1>7, <2>1 DEF FoundBy
  <2> QED
    BY <1>4, <1>7, <2>2 DEF Proved, Seen
<1> QED
  BY <1>5, <1>6, <1>7 DEF Dependable

LEMMA Validated ==
  ASSUME TypeOK, NEW o \in DOMAIN orders, NEW i \in Identifiers, Validate(o, i)
  PROVE  \A p \in DOMAIN orders, k \in Identifiers :
           orders'[p].authz[k] = IF p = o /\ k = i THEN IF Proved(o, i) THEN "valid" ELSE "invalid"
                                 ELSE orders[p].authz[k]
<1>1. PICK s : s = IF Proved(o, i) THEN "valid" ELSE "invalid"
  OBVIOUS
<1>2. s \in {"valid", "invalid"} /\ orders' = [orders EXCEPT ![o].authz[i] = s]
  BY <1>1 DEF Validate
<1>3. \A p \in DOMAIN orders, k \in Identifiers :
        orders'[p].authz[k] = IF p = o /\ k = i THEN s ELSE orders[p].authz[k]
  <2> SUFFICES ASSUME NEW p \in DOMAIN orders, NEW k \in Identifiers
               PROVE  orders'[p].authz[k] = IF p = o /\ k = i THEN s ELSE orders[p].authz[k]
    OBVIOUS
  <2>1. CASE p = o /\ k = i
    <3>1. orders \in Seq(Order) /\ orders[o] \in Order
      BY DEF TypeOK
    <3>2. orders'[o].authz[i] = s
      BY ONLY <1>2, <3>1, o \in DOMAIN orders, i \in Identifiers DEF Order
    <3> QED
      BY <2>1, <3>2
  <2>2. CASE ~(p = o /\ k = i)
    BY <1>2, <2>2, OrderValidated
  <2> QED
    BY <2>1, <2>2
<1> QED
  BY <1>1, <1>3

LEMMA ProofsStep ==
  ASSUME TypeOK, Bound, Jobs, PortHeld, Attended, Found, ProofsAreFound, [Next]_vars
  PROVE  ProofsAreFound'
<1>0. \A w \in Workers : JobAt(w)
  BY DEF Jobs
<1> SUFFICES ASSUME NEW o \in DOMAIN orders', NEW i \in Identifiers,
                    Dependable(o)', o \notin failed'
             PROVE  orders'[o].authz[i] # "invalid"
  BY DEF ProofsAreFound
<1>1. CASE o \in DOMAIN orders
  <2>1. Dependable(o) /\ o \notin failed
    BY <1>0, <1>1, DependableBefore
  <2>2. orders[o].authz[i] # "invalid"
    BY <1>1, <2>1 DEF ProofsAreFound
  <2>3. ASSUME NEW p \in DOMAIN orders, NEW k \in Identifiers, Validate(p, k)
        PROVE  orders'[o].authz[i] # "invalid"
    <3>1. orders'[o].authz[i] = IF o = p /\ i = k THEN IF Proved(p, k) THEN "valid" ELSE "invalid"
                                ELSE orders[o].authz[i]
      BY <1>1, <2>3, Validated
    <3>2. CASE o = p /\ i = k
      <4>1. i \in orders[o].asked /\ orders[o].authz[i] = "pending"
        BY <2>3, <3>2 DEF Validate
      <4>2. Proved(o, i)
        BY <1>1, <2>1, <4>1, ProofIsThere
      <4> QED
        BY <3>1, <3>2, <4>2
    <3> QED
      BY <2>2, <3>1, <3>2
  <2> QED
    BY <1>0, <1>1, <2>2, <2>3, AuthzStays
<1>2. CASE o \notin DOMAIN orders
  <2>1. PICK w \in Workers : NewOrder(w)
    BY <1>0, <1>2, HeirsStep DEF Heirs
  <2>2. PICK p : p = Len(orders) + 1
    OBVIOUS
  <2>3. o = p /\ orders'[p].authz[i] \in {"pending", "none"}
    BY <1>2, <2>1, <2>2, Ordered
  <2> QED
    BY <2>3
<1> QED
  BY <1>1, <1>2
-----------------------------------------------------------------------------
LEMMA InvInit == Init => Inv
<1> SUFFICES ASSUME Init PROVE Inv
  OBVIOUS
<1>1. TypeOK
  BY TypeInit
<1>2. /\ orders = <<>> /\ port = None /\ \A w \in Workers : pc[w] = "idle"
      /\ \A r \in Records : zone[r] = {}
  BY DEF Init
<1>3. Bound
  <2>1. Ordering = {} /\ Len(orders) = 0
    BY <1>2 DEF Ordering
  <2> QED
    BY <2>1, FS_EmptySet, Sets DEF Bound
<1>4. Jobs /\ PortHeld /\ AloneOK /\ Found
  BY <1>2 DEF Jobs, Owned, JobAt, Held, PortHeld, Listing, AloneOK, Found, FoundBy
<1>5. Accounted /\ Attended /\ ProofsAreFound
  BY <1>2 DEF Accounted, Quiet, Attended, ProofsAreFound
<1> QED
  BY <1>1, <1>3, <1>4, <1>5 DEF Inv

LEMMA InvStep == Inv /\ [Next]_vars => Inv'
<1> SUFFICES ASSUME Inv, [Next]_vars PROVE Inv'
  OBVIOUS
<1>1. /\ TypeOK /\ Bound /\ Jobs /\ PortHeld /\ Accounted
      /\ Attended /\ AloneOK /\ Found /\ ProofsAreFound
      /\ \A w \in Workers : JobAt(w)
  BY DEF Inv, Jobs
<1>2. TypeOK' /\ Bound'
  BY <1>1, TypeStep, BoundStep
<1>3. Jobs' /\ AloneOK'
  BY <1>1, JobsStep, OwnedStep
<1>4. PortHeld' /\ Accounted' /\ Attended' /\ Found'
  BY <1>1, PortStep, AccountedStep, AttendedStep, FoundStep
<1>5. ProofsAreFound'
  BY <1>1, ProofsStep
<1> QED
  BY <1>2, <1>3, <1>4, <1>5 DEF Inv

\* In every reachable state the inductive invariant holds.
THEOREM Invariance == Spec => []Inv
<1>1. Init => Inv
  BY InvInit
<1>2. Inv /\ [Next]_vars => Inv'
  BY InvStep
<1> QED
  BY <1>1, <1>2, PTL DEF Spec

\* Threads, stores and what is at the CA, the providers and the edge are always of
\* their types: a thread has a job exactly while it runs, and an order at the CA from
\* the moment it was given one (upstream/fulfil.py).
THEOREM TypeCorrect == Spec => []TypeOK
<1>1. Inv => TypeOK
  BY DEF Inv
<1> QED
  BY <1>1, Invariance, PTL

LEMMA InvLeaves == Inv => NothingLeftBehind
<1> SUFFICES ASSUME Inv PROVE NothingLeftBehind
  OBVIOUS
<1>1. TypeOK /\ Accounted /\ PortHeld /\ \A w \in Workers : JobAt(w)
  BY DEF Inv, Jobs
<1>2. ASSUME NEW r \in Records, NEW v \in zone[r] PROVE v.order \in InProgress \/ v \in lost
  BY <1>1, InProgressIs DEF Accounted, Accounts
<1>3. port # None => pc[port] \in {"publishing", "answering", "finalizing", "cleaning"}
  BY <1>1 DEF PortHeld, Listing
<1> QED
  BY <1>2, <1>3 DEF NothingLeftBehind

\* However orders of several threads overlap, fail at any call or are cut short by a
\* restart: a record of an order that is over is one whose publication or removal
\* itself failed or was cut short, and the edge port is free (the finally block of
\* fulfil_order, and EdgeHttpResponder's stop).
THEOREM NothingIsLeftBehind == Spec => []NothingLeftBehind
  BY InvLeaves, Invariance, PTL

\* The CA, whenever it looks, finds each proof of an order that did not fail, where
\* the method can be depended on: concurrent orders with Cloudflare, whoever has the
\* edge port, and an order alone with challtestsrv or, of up to two identifiers, acme-dns.
THEOREM ProofsFound == Spec => []ProofsAreFound
<1>1. Inv => ProofsAreFound
  BY DEF Inv
<1> QED
  BY <1>1, Invariance, PTL
=============================================================================
