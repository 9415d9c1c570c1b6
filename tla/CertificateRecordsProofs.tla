---------------------- MODULE CertificateRecordsProofs ----------------------
(***************************************************************************)
(* Warnings and retirements, for any certificates, days and failures, and  *)
(* whatever is retired while the notifier has read the rows.               *)
(***************************************************************************)
EXTENDS CertificateRecords, SequenceTheorems, TLAPS

\* A warning is counted by its row, or by the tick that sent it.
Counted(c) == c \in DOMAIN certs /\ (certs[c].warned \/ c \in told)

\* More warnings than that went out only in ticks that were lost; and a tick works on
\* rows without a warning.
Accounted ==
  /\ \A c \in todo \cup told : ~certs[c].warned
  /\ \A c \in Numbers : sends[c] <= IF Counted(c) THEN 1 + lost ELSE lost

Inv == TypeOK /\ Accounted

LEMMA Rows ==
  ASSUME TypeOK
  PROVE  /\ DOMAIN certs = 1 .. Len(certs) /\ Len(certs) \in Nat
         /\ DOMAIN certs \subseteq Numbers
         /\ \A c \in DOMAIN certs : certs[c] \in Row
<1>1. certs \in Seq(Row) /\ Len(certs) <= MaxCerts
  BY DEF TypeOK
<1>2. DOMAIN certs = 1 .. Len(certs) /\ Len(certs) \in Nat
  BY <1>1
<1>3. DOMAIN certs \subseteq Numbers
  BY <1>1, <1>2, RecordsAssumption DEF Numbers
<1>4. \A c \in DOMAIN certs : certs[c] \in Row
  BY <1>1
<1> QED
  BY <1>2, <1>3, <1>4

\* A table whose rows keep their numbers and sources.
SameRows ==
  /\ certs' \in Seq(Row) /\ Len(certs') = Len(certs) /\ DOMAIN certs' = DOMAIN certs
  /\ \A c \in DOMAIN certs : certs'[c].source = certs[c].source

LEMMA RetiredRow ==
  ASSUME TypeOK, NEW c \in DOMAIN certs, NEW b \in BOOLEAN,
         certs' = [certs EXCEPT ![c].retired = b]
  PROVE  SameRows /\ \A a \in DOMAIN certs : certs'[a].warned = certs[a].warned
<1> DEFINE row == [certs[c] EXCEPT !.retired = b]
<1>1. row \in Row /\ row.warned = certs[c].warned /\ row.source = certs[c].source
  <2>1. certs[c] \in Row
    BY Rows
  <2> QED
    BY <2>1 DEF Row
<1>2. certs' = [certs EXCEPT ![c] = row]
  OBVIOUS
<1> HIDE DEF row
<1>3. certs \in Seq(Row)
  BY DEF TypeOK
<1>4. certs' \in Seq(Row) /\ Len(certs') = Len(certs) /\ DOMAIN certs' = DOMAIN certs
  BY <1>1, <1>2, <1>3, ExceptSeq
<1>5. \A a \in DOMAIN certs : certs'[a] = IF a = c THEN row ELSE certs[a]
  BY <1>2, <1>3
<1> QED
  BY <1>1, <1>4, <1>5 DEF SameRows

LEMMA WarnedRows ==
  ASSUME TypeOK,
         certs' = [c \in DOMAIN certs |-> [certs[c] EXCEPT !.warned = @ \/ c \in told]]
  PROVE  /\ SameRows
         /\ \A c \in DOMAIN certs : /\ certs'[c].warned = (certs[c].warned \/ c \in told)
                                    /\ certs'[c].retired = certs[c].retired
<1> DEFINE warned(c) == certs[c].warned \/ c \in told
           row(c) == [certs[c] EXCEPT !.warned = warned(c)]
<1>1. \A c \in DOMAIN certs : warned(c) \in BOOLEAN
  BY Zenon
<1>2. \A c \in DOMAIN certs : /\ row(c) \in Row /\ row(c).source = certs[c].source
                              /\ row(c).retired = certs[c].retired
                              /\ row(c).warned = warned(c)
  <2> TAKE c \in DOMAIN certs
  <2>1. certs[c] \in Row /\ warned(c) \in BOOLEAN
    BY <1>1, Rows
  <2> HIDE DEF warned
  <2> QED
    BY <2>1 DEF Row
<1>3. certs' = [c \in 1 .. Len(certs) |-> row(c)] /\ Len(certs) \in Nat
  BY Rows
<1> HIDE DEF row
<1>4. certs' \in Seq(Row) /\ Len(certs') = Len(certs) /\ DOMAIN certs' = DOMAIN certs
  BY <1>2, <1>3, Rows
<1>5. \A c \in DOMAIN certs : certs'[c] = row(c)
  BY <1>3, Rows
<1> QED
  BY <1>2, <1>4, <1>5 DEF SameRows
-----------------------------------------------------------------------------
LEMMA InvInit == Init => Inv
<1> SUFFICES ASSUME Init PROVE Inv
  OBVIOUS
<1>1. certs \in Seq(Row) /\ Len(certs) = 0 /\ DOMAIN certs = {}
  BY DEF Init
<1>2. TypeOK
  BY <1>1, RecordsAssumption DEF Init, TypeOK, Foreign
<1>3. Accounted
  BY <1>1 DEF Init, Accounted, Counted
<1> QED
  BY <1>2, <1>3 DEF Inv

\* Steps that leave the tick, the warnings and the rows' numbers alone.
LEMMA OthersAccounted ==
  ASSUME Inv, UNCHANGED <<todo, told, sends, lost>>, DOMAIN certs' = DOMAIN certs,
         \A c \in DOMAIN certs : certs'[c].warned = certs[c].warned
  PROVE  Accounted'
<1>1. todo \cup told \subseteq DOMAIN certs
  BY DEF Inv, TypeOK
<1>2. \A c \in Numbers : Counted(c)' <=> Counted(c)
  BY DEF Counted
<1> QED
  BY <1>1, <1>2 DEF Inv, Accounted

LEMMA InvStep == Inv /\ [Next]_vars => Inv'
<1> SUFFICES ASSUME Inv, [Next]_vars PROVE TypeOK' /\ Accounted'
  BY DEF Inv
<1> USE RecordsAssumption DEF Inv
<1>1. ASSUME NEW source \in Hosts \cup {Service, Client}, NEW names \in NameLists,
             NEW days \in Lives, Issue(source, names, days)
      PROVE  TypeOK' /\ Accounted'
  <2> DEFINE n == Len(certs) + 1
             row == [source |-> source, names |-> names, end |-> today + days,
                     retired |-> FALSE, warned |-> FALSE]
  <2>1. row \in Row /\ row.warned = FALSE
    BY DEF TypeOK, Row
  <2>2. certs' = Append(certs, row) /\ Len(certs) < MaxCerts
    BY <1>1 DEF Issue
  <2> HIDE DEF row
  <2>3. /\ certs' \in Seq(Row) /\ Len(certs') = n /\ certs'[n] = row
        /\ DOMAIN certs' = DOMAIN certs \cup {n} /\ n \notin DOMAIN certs
        /\ \A c \in DOMAIN certs : certs'[c] = certs[c]
    BY <2>1, <2>2, AppendProperties DEF TypeOK
  <2>4. Len(certs') <= MaxCerts
    BY <2>2, <2>3, Rows
  <2>5. UNCHANGED <<today, served, pc, todo, told, sends, edits, lost, faults>>
    BY <1>1 DEF Issue, tick
  <2> HIDE DEF n
  <2>6. TypeOK'
    BY <2>3, <2>4, <2>5 DEF TypeOK
  <2>7. \A c \in Numbers : Counted(c)' <=> Counted(c)
    BY <2>1, <2>3, <2>5 DEF Counted, TypeOK
  <2>8. Accounted'
    BY <2>3, <2>5, <2>7 DEF Accounted, TypeOK
  <2> QED
    BY <2>6, <2>8
<1>2. ASSUME NEW c \in DOMAIN certs, Retire(c) \/ Unretire(c) PROVE TypeOK' /\ Accounted'
  <2>1. SameRows /\ \A a \in DOMAIN certs : certs'[a].warned = certs[a].warned
    BY <1>2, RetiredRow DEF Retire, Unretire
  <2>2. Edit /\ UNCHANGED <<today, served, pc, todo, told, sends, lost, faults>>
    BY <1>2 DEF Retire, Unretire, tick
  <2>3. TypeOK'
    BY <2>1, <2>2, SMTT(20) DEF SameRows, Edit, TypeOK
  <2> QED
    BY <2>1, <2>2, <2>3, OthersAccounted DEF SameRows
<1>3. ASSUME NEW d \in Domains, NEW c \in {Foreign} \cup DOMAIN certs, Install(d, c)
      PROVE  TypeOK' /\ Accounted'
  <2>1. TypeOK'
    BY <1>3 DEF Install, tick, TypeOK
  <2> QED
    BY <1>3, <2>1, OthersAccounted DEF Install, tick
<1>4. CASE Day
  <2>1. TypeOK'
    BY <1>4 DEF Day, tick, TypeOK
  <2> QED
    BY <1>4, <2>1, OthersAccounted DEF Day, tick
<1>5. CASE StartTick
  <2>1. /\ pc = "idle" /\ pc' = "sending" /\ todo' = Unwarned
        /\ UNCHANGED <<certs, today, served, told, sends, edits, lost, faults>>
    BY <1>5 DEF StartTick
  <2>2. Unwarned \subseteq DOMAIN certs /\ \A c \in Unwarned : ~certs[c].warned
    BY DEF Unwarned, Expiring, Live
  <2>3. TypeOK'
    BY <2>1, <2>2 DEF TypeOK
  <2>4. told = {}
    BY <2>1 DEF TypeOK
  <2>5. Accounted'
    BY <2>1, <2>2, <2>4 DEF Accounted, Counted
  <2> QED
    BY <2>3, <2>5
<1>6. ASSUME NEW c \in todo, Send(c) PROVE TypeOK' /\ Accounted'
  <2>1. /\ pc = "sending" /\ sends' = [sends EXCEPT ![c] = @ + 1]
        /\ todo' = todo \ {c} /\ told' = told \cup {c}
        /\ UNCHANGED <<certs, today, served, pc, edits, lost, faults>>
    BY <1>6 DEF Send
  <2>2. c \in DOMAIN certs /\ c \in Numbers /\ c \notin told /\ ~certs[c].warned
    BY Rows DEF TypeOK, Accounted
  <2>3. sends[c] <= lost /\ sends[c] \in Nat /\ lost \in Nat
    BY <2>2 DEF TypeOK, Accounted, Counted
  <2>4. TypeOK'
    BY <2>1, <2>2 DEF TypeOK
  <2>5. Counted(c)' /\ sends'[c] <= 1 + lost
    BY <2>1, <2>2, <2>3 DEF Counted, TypeOK
  <2>6. \A b \in Numbers : b # c => (Counted(b)' <=> Counted(b)) /\ sends'[b] = sends[b]
    BY <2>1 DEF Counted, TypeOK
  <2>7. \A b \in todo' \cup told' : ~certs'[b].warned
    BY <2>1, <2>2 DEF Accounted
  <2> QED
    BY <2>1, <2>4, <2>5, <2>6, <2>7 DEF Accounted
<1>7. ASSUME NEW c \in todo, NoChannel(c) PROVE TypeOK' /\ Accounted'
  <2>1. /\ pc = "sending" /\ todo' = todo \ {c} /\ Fault
        /\ UNCHANGED <<certs, today, served, pc, told, sends, edits, lost>>
    BY <1>7 DEF NoChannel
  <2>2. TypeOK'
    BY <2>1 DEF Fault, TypeOK
  <2>3. Accounted'
    BY <2>1 DEF Accounted, Counted
  <2> QED
    BY <2>2, <2>3
<1>8. CASE Commit
  <2>1. /\ pc = "sending" /\ todo = {} /\ pc' = "idle" /\ told' = {}
        /\ UNCHANGED <<today, served, todo, sends, edits, lost, faults>>
    BY <1>8 DEF Commit
  <2>2. /\ SameRows
        /\ \A c \in DOMAIN certs : certs'[c].warned = (certs[c].warned \/ c \in told)
    BY <1>8, WarnedRows DEF Commit
  <2>3. TypeOK'
    BY <2>1, <2>2 DEF SameRows, TypeOK
  <2>4. \A c \in Numbers : Counted(c)' <=> Counted(c)
    BY <2>1, <2>2 DEF SameRows, Counted
  <2>5. Accounted'
    BY <2>1, <2>4 DEF Accounted
  <2> QED
    BY <2>3, <2>5
<1>9. CASE Crash
  <2>1. /\ pc = "sending" /\ Fault /\ lost' = lost + 1
        /\ pc' = "idle" /\ todo' = {} /\ told' = {}
        /\ UNCHANGED <<certs, today, served, sends, edits>>
    BY <1>9 DEF Crash
  <2>2. TypeOK'
    BY <2>1 DEF Fault, TypeOK
  <2>3. lost \in Nat /\ \A c \in Numbers : sends[c] \in Nat
    BY DEF TypeOK
  <2>4. \A c \in Numbers : sends'[c] <= lost'
    BY <2>1, <2>3 DEF Accounted
  <2>5. Accounted'
    BY <2>1, <2>3, <2>4 DEF Accounted
  <2> QED
    BY <2>2, <2>5
<1>10. CASE UNCHANGED vars
  <2>1. TypeOK'
    BY <1>10 DEF vars, tick, TypeOK
  <2> QED
    BY <1>10, <2>1, OthersAccounted DEF vars, tick
<1> QED
  BY <1>1, <1>2, <1>3, <1>4, <1>5, <1>6, <1>7, <1>8, <1>9, <1>10 DEF Next, Notify
-----------------------------------------------------------------------------
\* What the tick holds and what was sent fit the rows, whatever is issued, retired or
\* lost in between.
THEOREM Invariance == Spec => []Inv
  BY InvInit, InvStep, PTL DEF Spec

\* certlifecycle.py, notifications.py: rows, warnings and the notifier's lists are typed.
THEOREM TypeCorrect == Spec => []TypeOK
<1>1. Inv => TypeOK
  BY DEF Inv
<1> QED
  BY <1>1, Invariance, PTL

\* notifications.py:138, "Each certificate is warned about once": but for ticks that
\* ended before their commit.
THEOREM WarningsAreOnce == Spec => []WarnedOnce
<1>1. Inv => WarnedOnce
  BY DEF Inv, TypeOK, Accounted, WarnedOnce
<1> QED
  BY <1>1, Invariance, PTL

\* Whatever rows the notifier read, its commit leaves retirements to the operator.
THEOREM RetirementIsTheOperators == Spec => RetirementStays
<1> DEFINE Stays == \A c \in DOMAIN certs :
                      certs'[c].retired # certs[c].retired => edits' = edits + 1
<1>1. Inv /\ [Next]_vars => [Stays]_vars
  <2> SUFFICES ASSUME Inv, Next PROVE Stays
    OBVIOUS
  <2> USE DEF Inv
  <2>1. CASE Commit
    BY <2>1, WarnedRows DEF Commit
  <2>2. CASE \E c \in DOMAIN certs : Retire(c) \/ Unretire(c)
    BY <2>2 DEF Retire, Unretire, Edit
  <2>3. CASE \E source \in Hosts \cup {Service, Client}, names \in NameLists,
                   days \in Lives : Issue(source, names, days)
    <3>1. PICK row : certs' = Append(certs, row)
      BY <2>3 DEF Issue
    <3>2. certs \in Seq(Row)
      BY DEF TypeOK
    <3>3. \A c \in DOMAIN certs : certs'[c] = certs[c]
      BY <3>1, <3>2
    <3> QED
      BY <3>3
  <2>4. CASE certs' = certs
    BY <2>4
  <2> QED
    BY <2>1, <2>2, <2>3, <2>4
       DEF Next, Notify, StartTick, Send, NoChannel, Crash, Install, Day
<1> QED
  BY <1>1, Invariance, PTL DEF Spec, RetirementStays
=============================================================================
