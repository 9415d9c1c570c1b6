------------------------- MODULE UpstreamFulfilment -------------------------
(***************************************************************************)
(* How a certificate is obtained: fulfil_order of upstream/fulfil.py, run  *)
(* by a thread per request, with the upstream client (upstream/client.py), *)
(* the DNS providers (dns/), the edge responder (upstream/edge.py) and the *)
(* private CAs (ca/); and the revocation of what was issued.               *)
(*                                                                         *)
(* One action is one call to the DNS provider, the upstream CA or the      *)
(* edge.  The TXT value of an order for an identifier is the pair of the   *)
(* two.  The CA, the DNS servers and acme-dns are external.                *)
(***************************************************************************)
EXTENDS Naturals, Sequences, FiniteSets

CONSTANTS
  Workers,       \* threads fulfilling orders
  Identifiers,   \* names and wildcards certificates are for
  Records,       \* TXT record names
  RecordOf,      \* _acme-challenge.<domain>, the same for "*." of the domain
  Cas,           \* upstream CAs, one per listener profile
  DefaultCa,     \* that of the default profile
  PrivateCa,     \* that of a profile with a ca_handler
  None,
  Csrs,          \* the sets of identifiers that are asked for
  Methods,       \* of proof: at the edge (upstream_challenge http-01), or dns-01
                 \* with one of the dns_providers
  MaxOrders, MaxFaults, MaxRevocations   \* bounds

VARIABLES
  method,    \* the settings
  orders,    \* orders at the CAs: authorizations are "pending", "valid", "invalid"
  zone,      \* values at each TXT record
  kept,      \* the two values of the acme-dns subdomain all records point to
  port,      \* who listens on the edge port
  pc, job,   \* the threads
  certs,     \* certificates issued
  revokes,   \* which certificates were revoked, where
  alone,     \* orders that never overlapped another
  failed,    \* orders that did not come to their end
  lost,      \* TXT values whose publication or removal failed, or was cut short
  faults

ca == <<orders, certs, revokes>>
ghosts == <<alone, failed, lost, faults>>
dns == <<zone, kept>>
vars == <<method, ca, dns, port, pc, job, ghosts>>

Value == [order: 1 .. MaxOrders, id: Identifiers]
Order == [ca: Cas, asked: SUBSET Identifiers,
          authz: [Identifiers -> {"none", "pending", "valid", "invalid"}]]
\* todo: identifiers not yet at hand in this loop; work: the list of that name.
Job == [ca: Cas, ids: SUBSET Identifiers, order: 0 .. MaxOrders,
        todo: SUBSET Identifiers, work: SUBSET Identifiers]
PC == {"idle", "ordering", "binding", "publishing",
       "answering", "finalizing", "cleaning"}

ASSUME FulfilmentAssumption ==
  /\ RecordOf \in [Identifiers -> Records]
  /\ DefaultCa \in Cas \ {PrivateCa}
  /\ None \notin Workers \cup Job \cup Value
  /\ Csrs \subseteq SUBSET Identifiers /\ \A ids \in Csrs : IsFiniteSet(ids) /\ ids # {}
  /\ Methods \subseteq {"edge", "cloudflare", "acmedns", "challtestsrv"}
  /\ {MaxOrders, MaxFaults, MaxRevocations} \subseteq Nat

Busy(w) == pc[w] # "idle"
Goto(w, to, j) == pc' = [pc EXCEPT ![w] = to] /\ job' = [job EXCEPT ![w] = j]
\* The next one in the list of authorizations, whatever order the CA lists them in.
First(w) == CHOOSE i \in job[w].todo : TRUE
Val(w, i) == [order |-> job[w].order, id |-> i]

Init ==
  /\ method \in Methods
  /\ orders = <<>> /\ certs = <<>> /\ revokes = {}
  /\ zone = [r \in Records |-> {}] /\ kept = <<None, None>>
  /\ port = None
  /\ pc = [w \in Workers |-> "idle"] /\ job = [w \in Workers |-> None]
  /\ alone = {} /\ failed = {} /\ lost = {} /\ faults = 0
-----------------------------------------------------------------------------
\* The DNS providers.

Seen(i) == IF method = "acmedns" THEN {kept[1], kept[2]} ELSE zone[RecordOf[i]]

\* acme-dns: an update replaces the older of two values.
Update(w, i) == kept' = <<kept[2], Val(w, i)>>

PublishTxt(w, i) ==
  IF method = "acmedns" THEN Update(w, i) /\ UNCHANGED zone
  ELSE /\ zone' = [zone EXCEPT ![RecordOf[i]] = @ \cup {Val(w, i)}]
       /\ UNCHANGED kept

\* Cloudflare deletes the records with this value, challtestsrv all of the name;
\* acme-dns expires values by itself.
RemoveByName(w, i) ==   \* mutant: the value is not compared
  /\ zone' = [zone EXCEPT ![RecordOf[i]] = {}]
  /\ UNCHANGED kept
RemoveTxt(w, i) ==
  /\ zone' = [zone EXCEPT ![RecordOf[i]] =
       CASE method = "cloudflare" -> @ \ {Val(w, i)}
         [] method = "challtestsrv" -> {}
         [] OTHER -> @]
  /\ UNCHANGED kept

Fault(os, values) ==
  /\ faults < MaxFaults
  /\ faults' = faults + 1
  /\ failed' = failed \cup (os \ {0})
  /\ lost' = lost \cup values
  /\ alone' = alone
-----------------------------------------------------------------------------
Room == Len(orders) + Cardinality({w \in Workers : pc[w] = "ordering"})
          + Cardinality({k \in DOMAIN certs : certs[k].order = 0}) < MaxOrders

\* fulfil_order.  A private CA signs at once, or raises; certificates of order 0.
Enroll(w, c) ==
  /\ ~Busy(w)
  /\ c = PrivateCa
  /\ Room
  /\ certs' = Append(certs, [ca |-> c, order |-> 0])
  /\ UNCHANGED <<method, orders, revokes, dns, port, pc, job, ghosts>>

Begin(w, c, ids) ==
  /\ ~Busy(w)
  /\ c # PrivateCa
  /\ Room
  /\ Goto(w, "ordering", [ca |-> c, ids |-> ids, order |-> 0, todo |-> ids,
                          work |-> {}])
  /\ UNCHANGED <<method, ca, dns, port, ghosts>>

\* Registration, idempotent, and the new order.
InProgress == {job[w].order : w \in {v \in Workers : Busy(v)}} \ {0}

NewOrder(w) ==
  LET j == job[w]
      o == Len(orders) + 1
  IN
  /\ pc[w] = "ordering"
  /\ orders' = Append(orders,
       [ca |-> j.ca, asked |-> {},
        authz |-> [i \in Identifiers |-> IF i \in j.ids THEN "pending" ELSE "none"]])
  /\ alone' = IF InProgress = {} THEN alone \cup {o} ELSE alone \ InProgress
  /\ Goto(w, IF method # "edge" THEN "publishing" ELSE "binding",
          [j EXCEPT !.order = o])
  /\ UNCHANGED <<method, certs, revokes, dns, port, failed, lost, faults>>
-----------------------------------------------------------------------------
\* The proofs: TXT records, or tokens at the edge.

\* EdgeHttpResponder binds the port, before the try: a second order at the same
\* time fails, and its order at the CA is left as it is.
BindPort(w) ==
  /\ pc[w] = "binding"
  /\ IF port = None
     THEN port' = w /\ Goto(w, "publishing", job[w])
     ELSE UNCHANGED port /\ Goto(w, "idle", None)
  /\ UNCHANGED <<method, ca, dns, ghosts>>

\* The record, or the token, then the entry in the list to clean up.
Listed(j, i, left) ==
  [ca |-> j.ca, ids |-> j.ids, order |-> j.order, todo |-> left, work |-> j.work \cup {i}]

PublishProof(w) ==
  LET j == job[w]
      i == First(w)
      left == j.todo \ {i}
  IN
  /\ pc[w] = "publishing"
  /\ j.todo # {}
  /\ IF method # "edge" THEN PublishTxt(w, i) ELSE UNCHANGED dns
  /\ IF left = {}
     THEN Goto(w, "answering", Listed(j, i, j.ids))
     ELSE Goto(w, "publishing", Listed(j, i, left))
  /\ UNCHANGED <<method, ca, port, ghosts>>

AnswerChallenge(w) ==
  LET j == job[w]
      i == First(w)
      left == j.todo \ {i}
  IN
  /\ pc[w] = "answering"
  /\ j.todo # {}
  /\ orders' = [orders EXCEPT ![j.order].asked = @ \cup {i}]
  /\ Goto(w, IF left = {} THEN "finalizing" ELSE "answering", [j EXCEPT !.todo = left])
  /\ UNCHANGED <<method, certs, revokes, dns, port, ghosts>>

\* The CA looks the record up, or asks the edge for the token.
Proved(o, i) ==
  IF method # "edge" THEN [order |-> o, id |-> i] \in Seen(i)
  ELSE port # None /\ job[port].order = o /\ i \in job[port].work

Validate(o, i) ==
  /\ i \in orders[o].asked /\ orders[o].authz[i] = "pending"
  /\ orders' = [orders EXCEPT ![o].authz[i] = IF Proved(o, i) THEN "valid" ELSE "invalid"]
  /\ UNCHANGED <<method, certs, revokes, dns, port, pc, job, ghosts>>

\* finalize_order: polls until nothing is pending.
Finalize(w) ==
  LET j == job[w]
      authz == {orders[j.order].authz[i] : i \in j.ids}
      ok == authz = {"valid"}
  IN
  /\ pc[w] = "finalizing"
  /\ "pending" \notin authz
  /\ certs' = IF ok THEN Append(certs, [ca |-> j.ca, order |-> j.order])
              ELSE certs
  /\ Goto(w, "cleaning", [j EXCEPT !.todo = j.work])
  /\ UNCHANGED <<method, orders, revokes, dns, port, ghosts>>

\* upstream_finalize_timeout: the deadline passes first.
NoDeadline(w) == FALSE /\ UNCHANGED vars   \* mutant: the poll has no deadline
Deadline(w) ==
  LET j == job[w]
  IN
  /\ pc[w] = "finalizing"
  /\ \E i \in j.ids : orders[j.order].authz[i] = "pending"
  /\ failed' = failed \cup {j.order}
  /\ Goto(w, "cleaning", [j EXCEPT !.todo = j.work])
  /\ UNCHANGED <<method, ca, dns, port, alone, lost, faults>>

\* The finally block: what is in the list is removed, at best.
CleanUp(w) ==
  LET j == job[w]
      i == First(w)
  IN
  /\ pc[w] = "cleaning"
  /\ j.todo # {}
  /\ Goto(w, "cleaning", [j EXCEPT !.todo = @ \ {i}])
  /\ IF method # "edge" THEN RemoveTxt(w, i) ELSE UNCHANGED dns
  /\ UNCHANGED <<method, ca, port, ghosts>>

CleanUpFails(w) ==
  LET j == job[w]
      i == First(w)
  IN
  /\ pc[w] = "cleaning" /\ method # "edge"
  /\ j.todo # {}
  /\ Fault({}, {Val(w, i)})
  /\ Goto(w, "cleaning", [j EXCEPT !.todo = @ \ {i}])
  /\ RemoveTxt(w, i) \/ UNCHANGED dns
  /\ UNCHANGED <<method, ca, port>>

ReturnKeepsJob(w) ==   \* mutant: the thread keeps the order it is done with
  /\ pc[w] = "cleaning"
  /\ job[w].todo = {}
  /\ port' = IF port = w THEN None ELSE port
  /\ Goto(w, "idle", job[w])
  /\ UNCHANGED <<method, ca, dns, ghosts>>
Return(w) ==
  /\ pc[w] = "cleaning"
  /\ job[w].todo = {}
  /\ port' = IF port = w THEN None ELSE port
  /\ Goto(w, "idle", None)
  /\ UNCHANGED <<method, ca, dns, ghosts>>
-----------------------------------------------------------------------------
\* Failures.

Published == UNION {zone[r] : r \in Records}

\* A call raises before the try: nothing to clean up.
FailsEarly(w) ==
  /\ pc[w] \in {"ordering", "binding"}
  /\ Fault({job[w].order}, {})
  /\ Goto(w, "idle", None)
  /\ UNCHANGED <<method, ca, dns, port>>

\* A call raises inside it, after it took effect or not, or the CA offers no such
\* challenge: what is not in the list yet is not cleaned up.
FailsKeepsRecords(w) ==   \* mutant: on an error nothing is cleaned up
  LET j == job[w]
  IN
  /\ pc[w] \in {"publishing", "answering", "finalizing"}
  /\ Fault({j.order}, {})
  /\ port' = IF port = w THEN None ELSE port
  /\ Goto(w, "idle", None)
  /\ UNCHANGED <<method, ca, dns>>
Fails(w) ==
  LET j == job[w]
  IN
  /\ pc[w] \in {"publishing", "answering", "finalizing"}
  /\ Goto(w, "cleaning", [j EXCEPT !.todo = j.work])
  /\ \/ Fault({j.order}, {}) /\ UNCHANGED <<dns, ca>>
     \/ /\ pc[w] = "publishing" /\ method # "edge"
        /\ Fault({j.order}, {Val(w, First(w))})
        /\ PublishTxt(w, First(w))
        /\ UNCHANGED ca
     \/ /\ pc[w] = "answering"
        /\ Fault({j.order}, {})
        /\ orders' = [orders EXCEPT ![j.order].asked = @ \cup {First(w)}]
        /\ UNCHANGED <<dns, certs, revokes>>
  /\ UNCHANGED <<method, port>>

Restart ==
  /\ Fault(InProgress, {v \in Published : v.order \in InProgress})
  /\ pc' = [w \in Workers |-> "idle"] /\ job' = [w \in Workers |-> None]
  /\ port' = None
  /\ UNCHANGED <<method, ca, dns>>

\* POST /revoke-cert: signed with the certificate's key or by the account that
\* ordered it; the client is the default profile's.
Revoke(c) ==
  /\ Cardinality(revokes) < MaxRevocations
  /\ revokes' = revokes \cup {[cert |-> c, ca |-> DefaultCa]}
  /\ UNCHANGED <<method, orders, certs, dns, port, pc, job, ghosts>>
-----------------------------------------------------------------------------
Run(w) ==
  \/ NewOrder(w) \/ BindPort(w)
  \/ PublishProof(w) \/ AnswerChallenge(w) \/ CleanUp(w)
  \/ Finalize(w) \/ Deadline(w) \/ Return(w)

Next ==
  \/ \E w \in Workers :
       \/ \E c \in Cas, ids \in Csrs : Begin(w, c, ids)
       \/ \E c \in Cas : Enroll(w, c)
       \/ Run(w) \/ FailsEarly(w) \/ Fails(w) \/ CleanUpFails(w)
  \/ \E o \in DOMAIN orders, i \in Identifiers : Validate(o, i)
  \/ \E c \in DOMAIN certs : Revoke(c)
  \/ Restart

\* Threads run; every call has a timeout of its own.  The CA owes nothing.
Spec == Init /\ [][Next]_vars /\ \A w \in Workers : WF_vars(Run(w))
-----------------------------------------------------------------------------
\* Threads and stores hold values of their types; a thread has a job exactly while
\* it runs, and the holder of the edge port is one of them.
TypeOK ==
  /\ method \in Methods
  /\ certs \in Seq([ca: Cas, order: 0 .. MaxOrders])
  /\ orders \in Seq(Order) /\ Len(orders) <= MaxOrders
  /\ zone \in [Records -> SUBSET Value]
  /\ kept \in (Value \cup {None}) \X (Value \cup {None})
  /\ port \in Workers \cup {None}
  /\ pc \in [Workers -> PC] /\ job \in [Workers -> Job \cup {None}]
  /\ \A w \in Workers :
       /\ Busy(w) <=> job[w] # None
       /\ pc[w] \in {"binding", "publishing", "answering", "finalizing", "cleaning"}
            => job[w].order \in DOMAIN orders /\ job[w].work \subseteq job[w].ids
  /\ alone \subseteq DOMAIN orders /\ failed \subseteq DOMAIN orders
  /\ lost \subseteq Value
  /\ faults \in 0 .. MaxFaults

\* When an order is over, fulfilled or not, the records it published are gone and
\* the edge port is free; but for a record whose own publication or removal failed,
\* and those of an order the server's stop cut short.  (What acme-dns kept, it expires.)
NothingLeftBehind ==
  /\ \A r \in Records : \A v \in zone[r] : v.order \in InProgress \/ v \in lost
  /\ port # None => pc[port] \in {"publishing", "answering", "finalizing", "cleaning"}

\* The CA finds the proofs: with Cloudflare whatever orders for the same names run
\* at the same time and end before; with acme-dns, which keeps two values, for an
\* order alone with at most two identifiers; with challtestsrv for one alone; and
\* at the edge for whoever got the port.
Dependable(o) ==
  \/ method = "edge"
  \/ method = "cloudflare"
  \/ o \in alone /\ method = "challtestsrv"
  \/ /\ o \in alone /\ method = "acmedns"
     /\ Cardinality({i \in Identifiers : orders[o].authz[i] # "none"}) <= 2
ProofsAreFound ==
  \A o \in DOMAIN orders :
    Dependable(o) /\ o \notin failed =>
      \A i \in Identifiers : orders[o].authz[i] # "invalid"

\* Every call returns, whatever the CA and the provider do: no thread is lost to
\* an order that is never answered.
Returns == \A w \in Workers : Busy(w) ~> ~Busy(w)

\* acme/certificates.py:62: "Forward the revocation to the upstream CA that actually
\* issued the certificate."
RevokedAtIssuer == \A v \in revokes : v.ca = certs[v.cert].ca
=============================================================================
