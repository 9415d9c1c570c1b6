----------------------------- MODULE AcmeOrders -----------------------------
(***************************************************************************)
(* Orders, authorizations, challenges and the certificates they end in:    *)
(* acme/orders.py, acme/authz.py and maintenance.purge_expired_orders.     *)
(*                                                                         *)
(* Every request runs in a coroutine with a database session of its own.   *)
(* The session keeps the rows it has loaded (expire_on_commit is off, so   *)
(* they stay as loaded), and a commit writes the attributes that differ    *)
(* from what was loaded, by primary key, whatever the row holds by then.   *)
(* Requests interleave at every await: between loading a row, reading the  *)
(* authorizations, waiting for a validator or the upstream CA, and         *)
(* committing.  One action is one stretch of code between two awaits that  *)
(* touch shared state.                                                     *)
(***************************************************************************)
EXTENDS Naturals, Sequences, FiniteSets

CONSTANTS
  Orders,       \* order ids
  Idents,       \* positions in an order's list of identifiers
  Handlers,     \* requests the server works on at the same time
  Purgers,      \* maintenance processes
  None,
  MaxIssued,    \* bound: certificates the upstream issues for an order, and
                \* how far overlaps are counted
  MaxCrashes    \* bound: restarts of the server

ASSUME OrdersAssumption ==
  /\ None \notin Orders \cup Idents
  /\ MaxIssued \in Nat \ {0}
  /\ MaxCrashes \in Nat

VARIABLES
  ordStatus,    \* acme_order.status; "absent": not created, "deleted": removed
  ordError,     \* the orders whose error column is set
  ordCert,      \* acme_order.certificate_id, an index into certs, or 0 (NULL)
  certs,        \* the certificate table: the order each row belongs to
  authz,        \* authorization.status of an order's identifier
  chall,        \* challenge.status of an authorization's challenge of a type
  expired,      \* the orders whose expires_at has passed
  pc,           \* where the request of a handler is
  mem,          \* the row in a handler's session, and what it is about
  doomed,       \* the orders a maintenance process has marked for deletion
  \* What happened outside the database, for the properties:
  proved,       \* <<o, i>>: a validator has accepted identifier i of order o
  refuted,      \* <<o, i>>: a validator has turned it down
  issued,       \* how many certificates the upstream has issued for an order
  stranded,     \* orders whose finalize request died with the upstream asked
  crashes,
  overlaps      \* how often work on an order began while other work was under way

dbVars == <<ordStatus, ordError, ordCert, certs, authz, chall>>
factVars == <<proved, refuted, issued, stranded, crashes>>
worldVars == <<factVars, overlaps>>
vars == <<dbVars, expired, pc, mem, doomed, worldVars>>

OrderStatus == {"absent", "pending", "ready", "processing", "valid", "invalid",
                "deleted"}
ItemStatus == {"absent", "pending", "valid", "invalid"}
ChallengeTypes == {"http-01", "tls-alpn-01", "dns-01"}

\* The handlers, by where they wait next:
\*   poll:     polled -> checked -> idle
\*   finalize: finalizing -> decided -> upstream -> (chain | error) -> idle
\*   respond:  responding -> validating -> (accepted | refused) -> idle
OrderPC  == {"polled", "checked", "finalizing", "decided"}
IssuePC  == {"upstream", "chain", "error"}
AnswerPC == {"responding", "validating", "accepted", "refused"}
PC == {"idle"} \cup OrderPC \cup IssuePC \cup AnswerPC

\* A session's copy of the one row the request may write: the order's of a
\* poll or a finalize, the authorization's of a challenge response.  "loaded"
\* is its status in the database as far as the session knows, "attr" the
\* status the code has given it since.
Holding(o, i, t, status) ==
  [order |-> o, ident |-> i, type |-> t, loaded |-> status, attr |-> status]
Blank == Holding(None, None, "none", "none")
Session == [order: Orders \cup {None}, ident: Idents \cup {None},
            type: ChallengeTypes \cup {"none"},
            loaded: OrderStatus \cup {"none"}, attr: OrderStatus \cup {"none"}]

HasRow(o) == ordStatus[o] \notin {"absent", "deleted"}
Wanted(o) == {i \in Idents : authz[o][i] # "absent"}

Working(o, h) == pc[h] \in IssuePC /\ mem[h].order = o

\* Nobody else is working on the order.
Quiet(o) == /\ \A h \in Handlers : mem[h].order # o
            /\ \A p \in Purgers : o \notin doomed[p]
\* Work on the orders of S begins, whoever else is working on them.
Begin(S) ==
  overlaps' = [o \in Orders |->
    IF o \in S /\ ~Quiet(o) /\ overlaps[o] < MaxIssued THEN overlaps[o] + 1
    ELSE overlaps[o]]

Init ==
  /\ ordStatus = [o \in Orders |-> "absent"]
  /\ ordError = {}
  /\ ordCert = [o \in Orders |-> 0]
  /\ certs = <<>>
  /\ authz = [o \in Orders |-> [i \in Idents |-> "absent"]]
  /\ chall = [o \in Orders |->
                [i \in Idents |-> [t \in ChallengeTypes |-> "absent"]]]
  /\ expired = {}
  /\ pc = [h \in Handlers |-> "idle"]
  /\ mem = [h \in Handlers |-> Blank]
  /\ doomed = [p \in Purgers |-> {}]
  /\ proved = {}
  /\ refuted = {}
  /\ issued = [o \in Orders |-> 0]
  /\ stranded = {}
  /\ crashes = 0
  /\ overlaps = [o \in Orders |-> 0]
-----------------------------------------------------------------------------
\* The request of handler h ends: its session is closed with what was not
\* committed rolled back.
Finish(h) == /\ pc' = [pc EXCEPT ![h] = "idle"]
             /\ mem' = [mem EXCEPT ![h] = Blank]

\* new_order: the order, an authorization per identifier and their challenges,
\* dns-01 for a wildcard and the two others for any other name, in one commit.
Offered(wild) == IF wild THEN {"dns-01"} ELSE {"http-01", "tls-alpn-01"}

NewOrder(o) ==
  /\ ordStatus[o] = "absent"
  /\ \E S \in SUBSET Idents \ {{}} : \E W \in SUBSET S :
       /\ authz' = [authz EXCEPT ![o] =
            [i \in Idents |-> IF i \in S THEN "pending" ELSE "absent"]]
       /\ chall' = [chall EXCEPT ![o] = [i \in Idents |-> [t \in ChallengeTypes |->
            IF i \in S /\ t \in Offered(i \in W) THEN "pending" ELSE "absent"]]]
  /\ ordStatus' = [ordStatus EXCEPT ![o] = "pending"]
  /\ UNCHANGED <<ordError, ordCert, certs, expired, pc, mem, doomed, worldVars>>

\* order_detail and finalize_order: session.get(Order).
LoadOrder(h, o, at) ==
  /\ pc[h] = "idle"
  /\ HasRow(o)
  /\ Begin({o})
  /\ pc' = [pc EXCEPT ![h] = at]
  /\ mem' = [mem EXCEPT ![h] = Holding(o, None, "none", ordStatus[o])]
  /\ UNCHANGED <<dbVars, expired, doomed, factVars>>

Poll(h, o)     == LoadOrder(h, o, "polled")
Finalize(h, o) == LoadOrder(h, o, "finalizing")

\* recompute_order_status, for a status loaded or set earlier and the
\* authorizations as they are now.
DerivedEarly(status, o) ==    \* mutant: one answered authorization is enough
  IF status \in {"valid", "invalid", "processing"} THEN status
  ELSE IF \E i \in Idents : authz[o][i] = "invalid" THEN "invalid"
  ELSE IF \E i \in Wanted(o) : authz[o][i] = "valid" THEN "ready"
  ELSE "pending"
DerivedAfresh(status, o) ==   \* mutant: terminal statuses are derived again too
  IF \E i \in Idents : authz[o][i] = "invalid" THEN "invalid"
  ELSE IF Wanted(o) # {} /\ \A i \in Wanted(o) : authz[o][i] = "valid" THEN "ready"
  ELSE "pending"
Derived(status, o) ==
  IF status \in {"valid", "invalid", "processing"} THEN status
  ELSE IF \E i \in Idents : authz[o][i] = "invalid" THEN "invalid"
  ELSE IF Wanted(o) # {} /\ \A i \in Wanted(o) : authz[o][i] = "valid" THEN "ready"
  ELSE "pending"

Recompute(h) ==
  /\ pc[h] \in {"polled", "finalizing"}
  /\ mem' = [mem EXCEPT ![h].attr = Derived(mem[h].attr, mem[h].order)]
  /\ pc' = [pc EXCEPT ![h] = IF pc[h] = "polled" THEN "checked" ELSE "decided"]
  /\ UNCHANGED <<dbVars, expired, doomed, worldVars>>

\* order_detail, and finalize_order that finds the order not ready: a commit,
\* with an UPDATE if the session's status is not the one that was loaded.
SaveChecked(h) ==
  LET m == mem[h]
  IN
  /\ \/ pc[h] = "checked"
     \/ pc[h] = "decided" /\ m.attr # "ready"
  /\ HasRow(m.order)
  /\ ordStatus' = IF m.attr # m.loaded
                  THEN [ordStatus EXCEPT ![m.order] = m.attr]
                  ELSE ordStatus
  /\ Finish(h)
  /\ UNCHANGED <<ordError, ordCert, certs, authz, chall, expired, doomed,
                 worldVars>>

\* The same commits, and those further down, once maintenance has deleted the
\* order: the UPDATE (or the refresh) raises, the transaction with the new
\* certificate row is rolled back and the request ends.
MeetNoRow(h) ==
  /\ pc[h] \in {"checked", "decided", "chain", "error"}
  /\ ~HasRow(mem[h].order)
  /\ Finish(h)
  /\ UNCHANGED <<dbVars, expired, doomed, worldVars>>

\* finalize_order raises for the CSR or the profile before it has committed.
RejectCsr(h) ==
  /\ pc[h] = "decided"
  /\ mem[h].attr = "ready"
  /\ Finish(h)
  /\ UNCHANGED <<dbVars, expired, doomed, worldVars>>

\* finalize_order commits "processing" and hands the CSR to a worker thread.
StartAnew(h) ==   \* mutant: an order that is valid may start again
  LET o == mem[h].order
  IN
  /\ pc[h] = "decided"
  /\ mem[h].attr \in {"ready", "valid"}
  /\ HasRow(o)
  /\ ordStatus' = [ordStatus EXCEPT ![o] = "processing"]
  /\ mem' = [mem EXCEPT ![h] = Holding(o, None, "none", "processing")]
  /\ pc' = [pc EXCEPT ![h] = "upstream"]
  /\ UNCHANGED <<ordError, ordCert, certs, authz, chall, expired, doomed, worldVars>>
StartProcessing(h) ==
  LET o == mem[h].order
  IN
  /\ pc[h] = "decided"
  /\ mem[h].attr = "ready"
  /\ HasRow(o)
  /\ ordStatus' = [ordStatus EXCEPT ![o] = "processing"]
  /\ mem' = [mem EXCEPT ![h] = Holding(o, None, "none", "processing")]
  /\ pc' = [pc EXCEPT ![h] = "upstream"]
  /\ UNCHANGED <<ordError, ordCert, certs, authz, chall, expired, doomed, worldVars>>

\* fulfil_order in the worker thread returns a chain, or raises.
UpstreamIssues(h) ==
  /\ pc[h] = "upstream"
  /\ issued[mem[h].order] < MaxIssued
  /\ issued' = [issued EXCEPT ![mem[h].order] = @ + 1]
  /\ pc' = [pc EXCEPT ![h] = "chain"]
  /\ UNCHANGED <<dbVars, expired, mem, doomed, proved, refuted, stranded, crashes,
                 overlaps>>

UpstreamFails(h) ==
  /\ pc[h] = "upstream"
  /\ pc' = [pc EXCEPT ![h] = "error"]
  /\ UNCHANGED <<dbVars, expired, mem, doomed, worldVars>>

\* The certificate row, then the order that points to it, in one commit.
SaveCertificateUnlinked(h) ==   \* mutant: certificate_id is not set
  LET o == mem[h].order
  IN
  /\ pc[h] = "chain"
  /\ HasRow(o)
  /\ certs' = Append(certs, o)
  /\ ordStatus' = [ordStatus EXCEPT ![o] = "valid"]
  /\ Finish(h)
  /\ UNCHANGED <<ordCert, ordError, authz, chall, expired, doomed, worldVars>>
SaveCertificateOnce(h) ==   \* mutant: an order that is valid already is left alone
  LET o == mem[h].order
  IN
  /\ pc[h] = "chain"
  /\ HasRow(o)
  /\ IF ordStatus[o] = "valid"
     THEN UNCHANGED <<certs, ordCert, ordStatus>>
     ELSE /\ certs' = Append(certs, o)
          /\ ordCert' = [ordCert EXCEPT ![o] = Len(certs) + 1]
          /\ ordStatus' = [ordStatus EXCEPT ![o] = "valid"]
  /\ Finish(h)
  /\ UNCHANGED <<ordError, authz, chall, expired, doomed, worldVars>>
SaveCertificate(h) ==
  LET o == mem[h].order
  IN
  /\ pc[h] = "chain"
  /\ HasRow(o)
  /\ certs' = Append(certs, o)
  /\ ordCert' = [ordCert EXCEPT ![o] = Len(certs) + 1]
  /\ ordStatus' = [ordStatus EXCEPT ![o] = "valid"]
  /\ Finish(h)
  /\ UNCHANGED <<ordError, authz, chall, expired, doomed, worldVars>>

\* The chain does not parse: raised outside the try, nothing is written.
RejectChain(h) ==
  /\ pc[h] = "chain"
  /\ stranded' = stranded \cup {mem[h].order}
  /\ Finish(h)
  /\ UNCHANGED <<dbVars, expired, doomed, proved, refuted, issued, crashes, overlaps>>

\* The except branch: "invalid" with the error.
SaveFailureUnsaved(h) ==    \* mutant: the branch raises before it commits
  /\ pc[h] = "error"
  /\ Finish(h)
  /\ UNCHANGED <<dbVars, expired, doomed, worldVars>>
SaveFailureSilent(h) ==   \* mutant: the error is not recorded
  LET o == mem[h].order
  IN
  /\ pc[h] = "error"
  /\ HasRow(o)
  /\ ordStatus' = [ordStatus EXCEPT ![o] = "invalid"]
  /\ Finish(h)
  /\ UNCHANGED <<ordError, ordCert, certs, authz, chall, expired, doomed, worldVars>>
SaveFailureRaw(h) ==   \* mutant: the worker's state is stored as the status
  LET o == mem[h].order
  IN
  /\ pc[h] = "error"
  /\ HasRow(o)
  /\ ordStatus' = [ordStatus EXCEPT ![o] = pc[h]]
  /\ ordError' = ordError \cup {o}
  /\ Finish(h)
  /\ UNCHANGED <<ordCert, certs, authz, chall, expired, doomed, worldVars>>
SaveFailure(h) ==
  LET o == mem[h].order
  IN
  /\ pc[h] = "error"
  /\ HasRow(o)
  /\ ordStatus' = [ordStatus EXCEPT ![o] = "invalid"]
  /\ ordError' = ordError \cup {o}
  /\ Finish(h)
  /\ UNCHANGED <<ordCert, certs, authz, chall, expired, doomed, worldVars>>
-----------------------------------------------------------------------------
\* respond_challenge: session.get(Challenge); a resolved one is only shown.
Respond(h, o, i, t) ==
  /\ pc[h] = "idle"
  /\ chall[o][i][t] = "pending"
  /\ Begin({o})
  /\ pc' = [pc EXCEPT ![h] = "responding"]
  /\ mem' = [mem EXCEPT ![h] = Holding(o, i, t, "none")]
  /\ UNCHANGED <<dbVars, expired, doomed, factVars>>

\* _load_owned_authz: the authorization and its order.
LoadAuthz(h) ==
  LET m == mem[h]
  IN
  /\ pc[h] = "responding"
  /\ HasRow(m.order)
  /\ m.type # "dns-01"
  /\ pc' = [pc EXCEPT ![h] = "validating"]
  /\ mem' = [mem EXCEPT ![h] =
               Holding(m.order, m.ident, m.type, authz[m.order][m.ident])]
  /\ UNCHANGED <<dbVars, expired, doomed, worldVars>>

\* Without the order, and for a dns-01 challenge, which no validator knows, the
\* request is turned down with nothing written.
TurnDown(h) ==
  /\ pc[h] = "responding"
  /\ ~HasRow(mem[h].order) \/ mem[h].type = "dns-01"
  /\ Finish(h)
  /\ UNCHANGED <<dbVars, expired, doomed, worldVars>>

\* The validator has fetched what the client serves, or has not.
Accept(h) ==
  /\ pc[h] = "validating"
  /\ pc' = [pc EXCEPT ![h] = "accepted"]
  /\ mem' = [mem EXCEPT ![h].attr = "valid"]
  /\ proved' = proved \cup {<<mem[h].order, mem[h].ident>>}
  /\ UNCHANGED <<dbVars, expired, doomed, refuted, issued, stranded, crashes, overlaps>>

Refuse(h) ==
  /\ pc[h] = "validating"
  /\ pc' = [pc EXCEPT ![h] = "refused"]
  /\ mem' = [mem EXCEPT ![h].attr = "invalid"]
  /\ refuted' = refuted \cup {<<mem[h].order, mem[h].ident>>}
  /\ UNCHANGED <<dbVars, expired, doomed, proved, issued, stranded, crashes, overlaps>>

\* The challenge's outcome, and the authorization's where it differs from the
\* status loaded.
SaveAnswer(h) ==
  LET m == mem[h]
  IN
  /\ pc[h] \in {"accepted", "refused"}
  /\ chall' = [chall EXCEPT ![m.order][m.ident][m.type] = m.attr]
  /\ authz' = IF m.attr # m.loaded
              THEN [authz EXCEPT ![m.order][m.ident] = m.attr]
              ELSE authz
  /\ Finish(h)
  /\ UNCHANGED <<ordStatus, ordError, ordCert, certs, expired, doomed, worldVars>>
-----------------------------------------------------------------------------
\* expires_at passes.  Only maintenance looks at it.
Expire(o) ==
  /\ HasRow(o)
  /\ o \notin expired
  /\ expired' = expired \cup {o}
  /\ UNCHANGED <<dbVars, pc, mem, doomed, worldVars>>

\* purge_expired_orders, in a process of its own: one SELECT of every order,
\* the choice made on what it returned, then a commit of the DELETEs.
Purgeable(o) == /\ HasRow(o)
                /\ ordStatus[o] \notin {"valid", "processing"}
                /\ o \in expired

PurgeScan(p) ==
  LET D == {o \in Orders : Purgeable(o)}
  IN
  /\ doomed[p] = {}
  /\ D # {}
  /\ Begin(D)
  /\ doomed' = [doomed EXCEPT ![p] = D]
  /\ UNCHANGED <<dbVars, expired, pc, mem, factVars>>

PurgeDelete(p) ==
  /\ doomed[p] # {}
  /\ ordStatus' = [o \in Orders |->
                     IF o \in doomed[p] THEN "deleted" ELSE ordStatus[o]]
  /\ doomed' = [doomed EXCEPT ![p] = {}]
  /\ UNCHANGED <<ordError, ordCert, certs, authz, chall, expired, pc, mem,
                 worldVars>>

\* The server restarts: every request is gone, the database is as committed.
Crash ==
  /\ crashes < MaxCrashes
  /\ \E h \in Handlers : pc[h] # "idle"
  /\ crashes' = crashes + 1
  /\ stranded' = stranded \cup {o \in Orders : \E h \in Handlers : Working(o, h)}
  /\ pc' = [h \in Handlers |-> "idle"]
  /\ mem' = [h \in Handlers |-> Blank]
  /\ UNCHANGED <<dbVars, expired, doomed, proved, refuted, issued, overlaps>>
-----------------------------------------------------------------------------
Request(h) ==
  \E o \in Orders :
    \/ Poll(h, o)
    \/ Finalize(h, o)
    \/ \E i \in Idents, t \in ChallengeTypes : Respond(h, o, i, t)

\* What the server does by itself for the request handler h is working on.
Handle(h) ==
  \/ Recompute(h) \/ SaveChecked(h) \/ MeetNoRow(h)
  \/ RejectCsr(h) \/ StartProcessing(h)
  \/ UpstreamIssues(h) \/ UpstreamFails(h)
  \/ SaveCertificate(h) \/ RejectChain(h) \/ SaveFailure(h)
  \/ LoadAuthz(h) \/ TurnDown(h) \/ Accept(h) \/ Refuse(h) \/ SaveAnswer(h)

Maintain(p) == PurgeScan(p) \/ PurgeDelete(p)

Next ==
  \/ \E o \in Orders : NewOrder(o) \/ Expire(o)
  \/ \E h \in Handlers : Request(h) \/ Handle(h)
  \/ \E p \in Purgers : Maintain(p)
  \/ Crash

Spec == Init /\ [][Next]_vars

\* The event loop resumes every coroutine whose await is over, and the waits
\* end: the validators have a timeout and fulfil_order a deadline.
FairSpec == Spec /\ \A h \in Handlers : WF_vars(Handle(h))
-----------------------------------------------------------------------------
DatabaseType ==
  /\ ordStatus \in [Orders -> OrderStatus]
  /\ ordError \subseteq Orders
  /\ certs \in Seq(Orders)
  /\ ordCert \in [Orders -> Nat]
  /\ authz \in [Orders -> [Idents -> ItemStatus]]
  /\ chall \in [Orders -> [Idents -> [ChallengeTypes -> ItemStatus]]]
RequestType ==
  /\ pc \in [Handlers -> PC]
  /\ mem \in [Handlers -> Session]
WorldType ==
  /\ expired \subseteq Orders
  /\ doomed \in [Purgers -> SUBSET Orders]
  /\ proved \subseteq Orders \X Idents
  /\ refuted \subseteq Orders \X Idents
  /\ issued \in [Orders -> Nat]
  /\ stranded \subseteq Orders
  /\ crashes \in Nat
  /\ overlaps \in [Orders -> 0 .. MaxIssued]

\* The tables, the sessions and what surrounds them hold values of their types.
TypeOK == DatabaseType /\ RequestType /\ WorldType

\* What a session holds at each point of a request.
SessionAt(h) ==
  LET m == mem[h]
  IN  /\ pc[h] = "idle" => m = Blank
      /\ pc[h] # "idle" => m.order \in Orders
      /\ pc[h] \in {"polled", "finalizing"} => m.attr = m.loaded
      /\ pc[h] \in OrderPC => m.attr # "none"
      /\ pc[h] \in {"checked", "decided"} =>
           m.attr = m.loaded \/ m.attr \in {"pending", "ready", "invalid"}
      /\ pc[h] \in IssuePC => m.attr = "processing" /\ m.loaded = "processing"
      /\ pc[h] \in AnswerPC => m.ident \in Idents /\ m.type \in ChallengeTypes
      /\ pc[h] = "accepted" => m.attr = "valid"
      /\ pc[h] = "refused" => m.attr = "invalid"
SessionOK == \A h \in Handlers : SessionAt(h)

\* Requests are about orders, and challenges about authorizations, that were
\* created.
OrderExisted ==
  /\ \A h \in Handlers : pc[h] # "idle" => ordStatus[mem[h].order] # "absent"
  /\ \A h \in Handlers :
       pc[h] \in AnswerPC => authz[mem[h].order][mem[h].ident] # "absent"
  /\ \A o \in Orders : issued[o] > 0 => ordStatus[o] # "absent"
  /\ \A o \in Orders, i \in Idents, t \in ChallengeTypes :
       chall[o][i][t] # "absent" =>
         ordStatus[o] # "absent" /\ authz[o][i] # "absent"

AllProved(o) == \A i \in Wanted(o) : <<o, i>> \in proved

\* Why IssuedOnlyIfProved is kept: each thing a "ready" is derived from, and
\* each copy of a status past it, goes back to what the validators accepted.
Earned == {"ready", "processing", "valid"}
Provenance ==
  /\ \A o \in Orders, i \in Idents : authz[o][i] = "valid" => <<o, i>> \in proved
  /\ \A h \in Handlers :
       pc[h] = "accepted" => <<mem[h].order, mem[h].ident>> \in proved
  /\ \A o \in Orders : ordStatus[o] \in Earned => AllProved(o)
  /\ \A h \in Handlers :
       pc[h] \in OrderPC \cup IssuePC /\ mem[h].attr \in Earned =>
         AllProved(mem[h].order)
  /\ \A o \in Orders : issued[o] > 0 => AllProved(o)

\* Why InvalidHasCause is kept, along the same path.
Cause(o) == o \in ordError \/ \E i \in Idents : <<o, i>> \in refuted
Causes ==
  /\ \A o \in Orders, i \in Idents :
       authz[o][i] = "invalid" => <<o, i>> \in refuted
  /\ \A h \in Handlers :
       pc[h] = "refused" => <<mem[h].order, mem[h].ident>> \in refuted
  /\ \A o \in Orders : ordStatus[o] = "invalid" => Cause(o)
  /\ \A h \in Handlers :
       pc[h] \in OrderPC /\ mem[h].attr = "invalid" => Cause(mem[h].order)

\* The upstream CA is asked for a certificate only when a validator has, at
\* some time, accepted every identifier of the order: whatever polls, answers
\* and finalizations interleave, the "ready" a finalize acts on was earned.
IssuedOnlyIfProved ==
  \A o \in Orders :
    (issued[o] > 0 \/ \E h \in Handlers : Working(o, h)) => AllProved(o)

\* A valid order names a certificate row, and the row names the order: no
\* interleaving of two finalizations, a poll and a crash tears them apart.
ValidHasCertificate ==
  \A o \in Orders :
    /\ ordStatus[o] = "valid" => ordCert[o] # 0
    /\ ordCert[o] # 0 => ordCert[o] \in DOMAIN certs /\ certs[ordCert[o]] = o

\* An order is invalid only for a cause the client can be shown: a validator
\* turned one of its identifiers down, or its own issuance failed and the
\* error is stored on it.
InvalidHasCause ==
  \A o \in Orders :
    ordStatus[o] = "invalid" => Cause(o)

\* "processing" is nobody's resting place: a request is at work on the order,
\* unless it died in a crash or on a chain that does not parse.
ProcessingHasWorker ==
  \A o \in Orders :
    ordStatus[o] = "processing" =>
      o \in stranded \/ \E h \in Handlers : Working(o, h)

\* Every certificate the upstream issued is a row of the table or in the hands
\* of a request about to store it, unless that request died or the order is
\* gone: two finalizations at once both keep what they got.
IssuanceAccounted ==
  \A o \in Orders :
    (HasRow(o) /\ o \notin stranded) =>
      issued[o] =   Cardinality({k \in DOMAIN certs : certs[k] = o})
                  + Cardinality({h \in Handlers : pc[h] = "chain" /\ mem[h].order = o})

\* An order is issued for once, and once more for each time that work on it began
\* while other work on it was under way: two finalizes at once are two certificates,
\* and so is a poll that writes back "ready" over a finalize; a retry after an answer, a
\* poll, a rejected CSR, a failure or a crash is not.
IssuedPerOverlap == \A o \in Orders : issued[o] <= 1 + overlaps[o]

\* Orders follow OrderLifecycle: exactly, as long as no work on them overlaps.
Lifecycle == INSTANCE OrderLifecycle
               WITH life <- ordStatus,
                    granted <- {o \in Orders : ordCert[o] # 0},
                    overlapped <- {o \in Orders : overlaps[o] > 0}
ImplementsLifecycle == Lifecycle!Spec

\* An order being processed is resolved, or its request died; or other work has run into
\* it, and then at least it does not stay "processing".
FinalizeResolves ==
  \A o \in Orders :
    ordStatus[o] = "processing" ~>
      \/ ordStatus[o] \in {"valid", "invalid"} \/ o \in stranded
      \/ overlaps[o] > 0 /\ ordStatus[o] # "processing"

\* acme/orders.py:48, of recompute_order_status: "Derive order status from its
\* authorizations, without downgrading terminal states".  The statuses it
\* returns early for are processing, valid and invalid.
TerminalNotDowngraded ==
  [][\A o \in Orders :
       ordStatus[o] \in {"processing", "valid", "invalid"} =>
         ordStatus'[o] \notin {"pending", "ready"}]_ordStatus

\* acme/orders.py:106: "offer both http-01 and tls-alpn-01 so a client can
\* validate without running HTTP; answering either one is enough".
EitherIsEnough ==
  \A o \in Orders, i \in Idents :
    (\E t \in ChallengeTypes : chall[o][i][t] = "valid") => authz[o][i] = "valid"

\* maintenance.py:22, of purge_expired_orders: "Delete pending/invalid orders
\* past their expiry. Valid orders are kept."
ValidOrdersKept ==
  [][\A o \in Orders : ordStatus[o] = "valid" => ordStatus'[o] # "deleted"]_ordStatus
=============================================================================
