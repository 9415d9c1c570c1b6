--------------------------- MODULE OrderLifecycle ---------------------------
(***************************************************************************)
(* What the ACME front end promises about an order, whatever the requests  *)
(* that touch it: the statuses of models.py OrderStatus, the only moves    *)
(* between them, and that an order is valid exactly when it was granted a  *)
(* certificate.  "absent" and "deleted" are an order without a row, before *)
(* newOrder and after the maintenance job.  Nothing serialises the work on *)
(* an order: where it has overlapped, a session may have written back what *)
(* it had read before, and less is promised.                               *)
(***************************************************************************)
CONSTANT Orders

VARIABLES life,       \* life[o]: the status of order o
          granted,    \* the orders a certificate was recorded for
          overlapped  \* the orders that two have worked on at once

lifeVars == <<life, granted, overlapped>>

Init ==
  /\ life = [o \in Orders |-> "absent"]
  /\ granted = {} /\ overlapped = {}

Move(o, from, to) ==
  /\ life[o] \in from
  /\ life' = [life EXCEPT ![o] = to]
  /\ UNCHANGED overlapped

Place(o)     == Move(o, {"absent"}, "pending") /\ UNCHANGED granted
Authorize(o) == Move(o, {"pending"}, "ready") /\ UNCHANGED granted
Start(o)     == Move(o, {"pending", "ready"}, "processing") /\ UNCHANGED granted
Abort(o)     == /\ Move(o, {"pending", "ready", "processing"}, "invalid")
                /\ UNCHANGED granted

\* The certificate and the status arrive together, and only once.
Grant(o) ==
  /\ Move(o, {"processing"}, "valid")
  /\ o \notin granted
  /\ granted' = granted \cup {o}

\* Two begin to work on an order at once.  From then on its status may be set back or
\* skip; but it stays created or deleted, and is valid only with a certificate.
Overlap(D) == overlapped' = overlapped \cup D /\ UNCHANGED <<life, granted>>

Rows == {"pending", "ready", "processing", "valid", "invalid"}
Slip(o, to) ==
  /\ o \in overlapped
  /\ Move(o, Rows, to)
  /\ granted' = IF to = "valid" THEN granted \cup {o} ELSE granted

\* Maintenance removes unfinished orders, several at a time; valid ones and those an
\* issuance is running for are kept, unless they were touched while it chose.
Discard(D) ==
  /\ D # {}
  /\ \A o \in D : \/ life[o] \in {"pending", "ready", "invalid"}
                  \/ o \in overlapped /\ life[o] # "absent"
  /\ life' = [o \in Orders |-> IF o \in D THEN "deleted" ELSE life[o]]
  /\ UNCHANGED <<granted, overlapped>>

Next ==
  \/ \E o \in Orders :
       Place(o) \/ Authorize(o) \/ Start(o) \/ Abort(o) \/ Grant(o)
  \/ \E o \in Orders, to \in Rows : Slip(o, to)
  \/ \E D \in SUBSET Orders : Overlap(D) \/ Discard(D)

Spec == Init /\ [][Next]_lifeVars
=============================================================================
