------------------------- MODULE CertificateRecords -------------------------
(***************************************************************************)
(* What becomes of issued certificates: their rows and retirement          *)
(* (certlifecycle.py), the notifier (notifications.py), the list of the    *)
(* dashboard (management/api.py), and the audit of what an endpoint serves *)
(* (certaudit.py, health.py).                                              *)
(*                                                                         *)
(* A certificate is its number, in the order of issuance; its end is a     *)
(* day, and days are whole days, rounded down, as in the code.  Three      *)
(* parts look for the newest one, each in its own way: the notifier per    *)
(* host or set of domains, the list per primary domain, the audit by the   *)
(* end of validity.                                                        *)
(***************************************************************************)
EXTENDS Naturals, Sequences, FiniteSets

CONSTANTS
  Hosts,         \* ids of managed hosts
  Identifiers,   \* what a certificate is for, wildcards among them
  Bare,          \* identifier -> the name an endpoint is asked for, without "*."
  NameLists,     \* lists of identifiers that are asked for together
  Lives,         \* days a certificate is valid
  WarnDays,      \* expiry_warn_days
  MaxCerts, MaxDays, MaxFaults, MaxEdits   \* bounds

VARIABLES
  certs,      \* the rows
  today,
  served,     \* what the endpoint of a domain serves: a certificate, or Foreign
  pc, todo,   \* the notifier's tick: what it will warn about,
  told,       \* and did, without a row that says so
  sends,      \* warnings about each certificate that went out
  edits,
  lost, faults   \* ticks that ended before their commit, all failures

tick == <<pc, todo, told>>
vars == <<certs, today, served, tick, sends, edits, lost, faults>>

Foreign == 0      \* a certificate of another CA
Service == "service"   \* issued for this server itself, and
Client == "client"     \* to an ACME client
Domains == {Bare[i] : i \in Identifiers}
Row == [source: Hosts \cup {Service, Client}, names: NameLists,
        end: Nat, retired: BOOLEAN, warned: BOOLEAN]
Numbers == 1 .. MaxCerts

ASSUME RecordsAssumption ==
  /\ NameLists \subseteq Seq(Identifiers) /\ \A names \in NameLists : names # <<>>
  /\ Lives \subseteq Nat
  /\ {WarnDays, MaxCerts, MaxDays, MaxFaults, MaxEdits} \subseteq Nat

Init ==
  /\ certs = <<>> /\ today = 0
  /\ served = [d \in Domains |-> Foreign]
  /\ pc = "idle" /\ todo = {} /\ told = {}
  /\ sends = [c \in Numbers |-> 0]
  /\ edits = 0 /\ lost = 0 /\ faults = 0
-----------------------------------------------------------------------------
\* Three ways to find the newest.

Live == {c \in DOMAIN certs : ~certs[c].retired}

\* The key is host_id, or the domains, or the row's own id: finalize writes no domains,
\* so each certificate of a client is a group of its own.
SameGroup(b, c) ==
  \/ b = c
  \/ /\ certs[b].source = certs[c].source
     /\ \/ certs[c].source \in Hosts
        \/ certs[c].source = Service /\ certs[b].names = certs[c].names

EndsWithin(c, days) == certs[c].end <= today + days

Expiring ==
  {c \in Live : /\ \A b \in Live : SameGroup(b, c) => b <= c
                /\ EndsWithin(c, WarnDays)}

Unwarned == {c \in Expiring : ~certs[c].warned}

\* The list has a client's names from its order, which stays as long as it is valid.
Primary(c) == certs[c].names[1]
Superseded == {c \in Live : \E b \in Live : b > c /\ Primary(b) = Primary(c)}

Covers(c) == {Bare[certs[c].names[i]] : i \in DOMAIN certs[c].names}
Issued(d) == {c \in Live : d \in Covers(c)}
\* max(live, key=not_after): any of them, as the rows are read in no order.
LatestIssued(d) == {c \in Issued(d) : \A b \in Issued(d) : certs[b].end <= certs[c].end}

\* One CA has issued all the rows here.
Audit(d, latest) ==
  IF Issued(d) = {} THEN "unknown_records"
  ELSE IF served[d] = latest THEN "ok"
  ELSE IF served[d] \in Issued(d) THEN "stale"
  ELSE IF served[d] = Foreign THEN "foreign"
  ELSE "unknown"
-----------------------------------------------------------------------------
\* Issuance, renewal and the operator.

\* deploy_host, ensure_service_certificate, finalize_order.
Issue(source, names, days) ==
  /\ Len(certs) < MaxCerts
  /\ source = Service => Len(names) = 1
  /\ certs' = Append(certs, [source |-> source, names |-> names, end |-> today + days,
                             retired |-> FALSE, warned |-> FALSE])
  /\ UNCHANGED <<today, served, tick, sends, edits, lost, faults>>

Edit == edits < MaxEdits /\ edits' = edits + 1

Retire(c) ==
  /\ Edit
  /\ certs' = [certs EXCEPT ![c].retired = TRUE]
  /\ UNCHANGED <<today, served, tick, sends, lost, faults>>

Unretire(c) ==
  /\ Edit
  /\ certs' = [certs EXCEPT ![c].retired = FALSE]
  /\ UNCHANGED <<today, served, tick, sends, lost, faults>>

Install(d, c) ==
  /\ served[d] # c
  /\ c # Foreign => d \in Covers(c)
  /\ served' = [served EXCEPT ![d] = c]
  /\ UNCHANGED <<certs, today, tick, sends, edits, lost, faults>>

Day ==
  /\ today < MaxDays
  /\ today' = today + 1
  /\ UNCHANGED <<certs, served, tick, sends, edits, lost, faults>>
-----------------------------------------------------------------------------
\* notify_expiring: rows are read once, warnings are sent one by one, in whatever order
\* the database lists the rows, and the rows are committed together.

StartTick ==
  /\ pc = "idle"
  /\ Unwarned # {}
  /\ pc' = "sending"
  /\ todo' = Unwarned
  /\ UNCHANGED <<certs, today, served, told, sends, edits, lost, faults>>

\* send_notification: at least one channel takes it.
Send(c) ==
  /\ pc = "sending"
  /\ sends' = [sends EXCEPT ![c] = @ + 1]
  /\ todo' = todo \ {c} /\ told' = told \cup {c}
  /\ UNCHANGED <<certs, today, served, pc, edits, lost, faults>>

Fault == faults < MaxFaults /\ faults' = faults + 1

NoChannelIsTold(c) ==   \* mutant: a warning that no channel took counts
  /\ pc = "sending"
  /\ Fault
  /\ todo' = todo \ {c} /\ told' = told \cup {c}
  /\ UNCHANGED <<certs, today, served, pc, sends, edits, lost>>
NoChannel(c) ==
  /\ pc = "sending"
  /\ Fault
  /\ todo' = todo \ {c}
  /\ UNCHANGED <<certs, today, served, pc, told, sends, edits, lost>>

\* Only what the tick changed is written: a retirement meanwhile stays.
CommitNothing ==   \* mutant: the session is closed without a commit
  /\ pc = "sending" /\ todo = {}
  /\ pc' = "idle" /\ told' = {}
  /\ UNCHANGED <<certs, today, served, todo, sends, edits, lost, faults>>
CommitRead ==   \* mutant: the rows are written as they were read
  /\ pc = "sending" /\ todo = {}
  /\ certs' = [c \in DOMAIN certs |->
       IF c \in told THEN [certs[c] EXCEPT !.warned = TRUE, !.retired = FALSE]
       ELSE certs[c]]
  /\ pc' = "idle" /\ told' = {}
  /\ UNCHANGED <<today, served, todo, sends, edits, lost, faults>>
Commit ==
  /\ pc = "sending" /\ todo = {}
  /\ certs' = [c \in DOMAIN certs |-> [certs[c] EXCEPT !.warned = @ \/ c \in told]]
  /\ pc' = "idle" /\ told' = {}
  /\ UNCHANGED <<today, served, todo, sends, edits, lost, faults>>

\* The process ends, or the database refuses the commit.
CrashKeepsList ==   \* mutant: what was told survives the tick
  /\ pc = "sending"
  /\ Fault
  /\ lost' = lost + 1
  /\ pc' = "idle" /\ todo' = {}
  /\ UNCHANGED <<certs, today, served, told, sends, edits>>
Crash ==
  /\ pc = "sending"
  /\ Fault
  /\ lost' = lost + 1
  /\ pc' = "idle" /\ todo' = {} /\ told' = {}
  /\ UNCHANGED <<certs, today, served, sends, edits>>
-----------------------------------------------------------------------------
Notify == StartTick \/ (\E c \in todo : Send(c)) \/ Commit

Next ==
  \/ \E source \in Hosts \cup {Service, Client}, names \in NameLists, days \in Lives :
       Issue(source, names, days)
  \/ \E c \in DOMAIN certs : Retire(c) \/ Unretire(c)
  \/ \E d \in Domains, c \in {Foreign} \cup DOMAIN certs : Install(d, c)
  \/ Day
  \/ Notify \/ (\E c \in todo : NoChannel(c)) \/ Crash

\* run_notifier loops, once it runs: main.py starts it only when a channel is configured
\* by then.
Spec == Init /\ [][Next]_vars /\ WF_vars(Notify)
-----------------------------------------------------------------------------
\* Rows and counters hold values of their types; the notifier has rows in hand only
\* during a tick, and what it has told was in its list.
TypeOK ==
  /\ certs \in Seq(Row) /\ Len(certs) <= MaxCerts
  /\ today \in 0 .. MaxDays
  /\ served \in [Domains -> {Foreign} \cup DOMAIN certs]
  /\ pc \in {"idle", "sending"} /\ (pc = "idle" => todo = {} /\ told = {})
  /\ todo \cup told \subseteq DOMAIN certs /\ todo \cap told = {}
  /\ sends \in [Numbers -> Nat]
  /\ lost \in 0 .. faults /\ faults \in 0 .. MaxFaults /\ edits \in 0 .. MaxEdits

\* notifications.py:138: "Each certificate is warned about once"; a tick that ends
\* before its commit may repeat each of its warnings once.
WarnedOnce == \A c \in Numbers : sends[c] <= 1 + lost

\* A retirement is the operator's: nothing else sets or clears it, whatever rows the
\* notifier read before.
RetirementStays ==
  [][\A c \in DOMAIN certs : certs'[c].retired # certs[c].retired => edits' = edits + 1]_vars

\* Whoever is to be warned of is told of, retired or renewed, as soon as a channel
\* works and the process stays up for a tick: no warning is written off unsent.
EveryoneIsWarned ==
  \A c \in Numbers : c \in Expiring ~> (sends[c] > 0 \/ c \notin Expiring)

\* certlifecycle.py:44: "so a superseded older cert doesn't keep firing warnings after a
\* successful renewal".
SupersededIsQuiet == Expiring \cap Superseded = {}

\* certlifecycle.py:5: retired "so it stops raising expiry warnings".
RetiredIsQuiet ==
  [][\A c \in DOMAIN certs : sends'[c] # sends[c] => ~certs[c].retired]_vars

\* certaudit.py:39: "unknown -- serial we have no record of".
UnknownHasNoRecord ==
  \A d \in Domains : \A latest \in LatestIssued(d) :
    Audit(d, latest) = "unknown" => served[d] \notin DOMAIN certs
=============================================================================
