------------------------- MODULE IosDeploymentProofs -------------------------
(***************************************************************************)
(* What a device is left with, for any number of overlapping renewals,     *)
(* keys, certificates and failures.                                        *)
(***************************************************************************)
EXTENDS IosDeployment, SequenceTheorems, FiniteSetTheorems, TLAPS

\* Types, without the bounds.
Shape ==
  /\ key \in Nat /\ keys \in Nat
  /\ running \in Side /\ startup \in Side
  /\ running.cert \in {0} \cup DOMAIN certs /\ startup.cert \in {0} \cup DOMAIN certs
  /\ certs \in Seq(Nat \ {0})
  /\ pc \in [Workers -> PC] /\ job \in [Workers -> Job \cup {None}]
  /\ \A w \in Workers : Busy(w) <=> job[w] # None
  /\ alone \subseteq Workers

\* Where a renewal is tells what it holds.
Before == {"opening", "listing", "generating", "enrolling", "issuing"}
Later == {"reopening", "authenticating", "importing", "wrapping", "serving", "ending", "saving"}
Ended == {"storing", "recording"}
StageOf(w) ==
  /\ pc[w] \in Before => job[w].cert = 0
  /\ pc[w] \in Later => job[w].cert # 0
  /\ pc[w] = "closing" /\ job[w].cert = 0 => job[w].result \in {"none", "raised"}
  /\ pc[w] = "closing" /\ job[w].cert # 0 => job[w].result \in {"ok", "failed"}
  /\ pc[w] \in Ended => job[w].cert # 0 /\ job[w].result \in {"ok", "failed"}
  /\ pc[w] \notin {"closing"} \cup Ended => job[w].result = "none"
  /\ pc[w] = "issuing" \/ (pc[w] = "closing" /\ job[w].result = "none") => job[w].csr # 0
  /\ job[w].cert # 0 => job[w].cert \in DOMAIN certs /\ certs[job[w].cert] = job[w].csr
Stage == \A w \in Workers : Busy(w) => StageOf(w)

\* A renewal that is alone is the only one under way.
Alone ==
  \A w \in alone : Busy(w) => (\A v \in Workers : Busy(v) => v = w)

\* A dialog that may not take a certificate away finds none to take.
Kept ==
  /\ KeepsCertificate
  /\ \A w \in alone :
       pc[w] = "generating" /\ w \notin deaf /\ "regenerate" \notin config => ~had

\* What a dialog has come to, if it is alone.
Ok(w) == pc[w] \in {"closing"} \cup Ended /\ job[w].result = "ok"
InstalledBy(w) ==
  /\ pc[w] \in {"serving", "ending", "saving"} \/ Ok(w) =>
       running.cert = job[w].cert /\ Usable
  /\ pc[w] \in {"ending", "saving"} \/ Ok(w) => (w \notin deaf => running.https)
  /\ Ok(w) /\ w \notin deaf /\ "write" \in config => startup = running
Installed == \A w \in alone : InstalledBy(w)

\* The running and the saved certificate have a row, a renewal that will add it, or one
\* that raised.
HasRow(c) == c \in rows \cup lost \/ \E w \in Workers : Busy(w) /\ job[w].cert = c
Recorded ==
  /\ running.cert # 0 => HasRow(running.cert)
  /\ startup.cert # 0 => HasRow(startup.cert)

Inv == Shape /\ Stage /\ Alone /\ Kept /\ Installed /\ Recorded

LEMMA InvInit == Init => Inv
<1> SUFFICES ASSUME Init PROVE Inv
  OBVIOUS
<1>1. Shape
  BY DeploymentAssumption DEF Init, Shape, Side, PC, Busy
<1>2. \A w \in Workers : ~Busy(w)
  BY DEF Init, Busy
<1> QED
  BY <1>1, <1>2
     DEF Init, Inv, Stage, Alone, Kept, KeepsCertificate, Installed, Recorded

\* A job with some fields set.
LEMMA JobFields ==
  ASSUME NEW j \in Job
  PROVE  /\ \A b \in BOOLEAN : [j EXCEPT !.inConfig = b] \in Job /\ [j EXCEPT !.silent = b] \in Job
         /\ \A n \in Nat : [j EXCEPT !.csr = n] \in Job /\ [j EXCEPT !.cert = n] \in Job
         /\ \A r \in {"none", "ok", "failed", "raised"} : [j EXCEPT !.result = r] \in Job
  BY DEF Job

\* What a command does to the device.
LEMMA Command ==
  ASSUME Inv, NEW w \in Workers, pc[w] \in Dialog, Effect(w), certs' = certs
  PROVE  /\ key' \in Nat /\ keys' \in Nat /\ running' \in Side /\ startup' \in Side
         /\ had' => Usable'
         /\ had' => had \/ pc[w] \in {"importing", "wrapping"}
         /\ running'.cert \in {0, running.cert, job[w].cert}
         /\ startup'.cert \in {startup.cert, running.cert}
         /\ pc[w] \in {"importing", "wrapping"} => running'.cert = job[w].cert /\ Usable'
         /\ pc[w] \in {"serving", "ending", "saving"} =>
              running'.cert = running.cert /\ key' = key
         /\ pc[w] = "serving" => running'.https
         /\ pc[w] \in {"ending", "saving"} => running' = running
         /\ pc[w] = "saving" => startup' = running
<1>1. /\ job[w] \in Job /\ StageOf(w) /\ key \in Nat /\ keys \in Nat
      /\ running \in Side /\ startup \in Side /\ (had => Usable)
  BY DEF Inv, Shape, Stage, Kept, KeepsCertificate, Busy, Dialog
<1>2. CASE pc[w] = "generating" /\ GenerateKey(w)
  <2>1. had' => had /\ w \in alone /\ w \notin deaf /\ "regenerate" \notin config
    BY <1>2 DEF GenerateKey
  <2>2. ~had'
    BY <1>2, <2>1 DEF Inv, Kept
  <2> QED
    BY <1>1, <1>2, <2>2 DEF GenerateKey, Side
<1>3. CASE pc[w] = "authenticating" /\ AuthenticateCa(w)
  BY <1>1, <1>3 DEF AuthenticateCa, Side, Usable
<1>4. CASE pc[w] = "importing" /\ Importable(w) /\ ImportCert(w)
  BY <1>1, <1>4 DEF Importable, ImportCert, Side, Usable, StageOf, Later, Job
<1>5. CASE pc[w] = "wrapping" /\ ImportPkcs12(w)
  BY <1>1, <1>5 DEF ImportPkcs12, Side, Usable, StageOf, Later, Job
<1>6. CASE pc[w] = "serving" /\ ApplyHttps(w)
  BY <1>1, <1>6 DEF ApplyHttps, Side, Usable
<1>7. CASE pc[w] = "saving" /\ Save(w)
  BY <1>1, <1>7 DEF Save, Usable
<1>8. CASE pc[w] \in {"listing", "enrolling", "ending"} /\ UNCHANGED <<device, had>>
  BY <1>1, <1>8 DEF device, Usable
<1> QED
  BY <1>2, <1>3, <1>4, <1>5, <1>6, <1>7, <1>8 DEF Effect
-----------------------------------------------------------------------------
\* A step of one renewal, what it has to show of itself, and what follows for the others.
LEMMA Only ==
  ASSUME Inv, NEW w \in Workers, Busy(w), NEW to, NEW j, Goto(w, to, j),
         (to = "idle" /\ j = None) \/ (to \in PC \ {"idle"} /\ j \in Job),
         alone' = alone,
         \A c \in DOMAIN certs : c \in DOMAIN certs' /\ certs'[c] = certs[c]
  PROVE  /\ pc'[w] = to /\ job'[w] = j
         /\ \A v \in Workers : v # w => pc'[v] = pc[v] /\ job'[v] = job[v]
         /\ pc' \in [Workers -> PC] /\ job' \in [Workers -> Job \cup {None}]
         /\ \A v \in Workers : Busy(v)' <=> job'[v] # None
         /\ Alone'
         /\ (to # "idle" => StageOf(w)') => Stage'
         /\ (w \in alone /\ to # "idle" => InstalledBy(w)') => Installed'
         /\ /\ KeepsCertificate'
            /\ w \in alone /\ to = "generating" /\ w \notin deaf' /\ "regenerate" \notin config'
               => ~had'
            => Kept'
<1>0. Shape /\ Stage /\ Alone /\ None \notin Job
  BY DeploymentAssumption DEF Inv
<1>1. pc'[w] = to /\ job'[w] = j
  BY <1>0 DEF Goto, Shape
<1>2. \A v \in Workers : v # w => pc'[v] = pc[v] /\ job'[v] = job[v]
  BY <1>0 DEF Goto, Shape
<1>3. pc' \in [Workers -> PC] /\ job' \in [Workers -> Job \cup {None}]
  BY <1>0 DEF Goto, Shape, PC
<1>4. \A v \in Workers : Busy(v)' <=> job'[v] # None
  BY <1>0, <1>1, <1>2 DEF Shape, Busy
<1>5. \A v \in alone : v # w => ~Busy(v) /\ ~Busy(v)'
  BY <1>0, <1>2 DEF Alone, Busy, Shape
<1>6. Alone'
  BY <1>0, <1>2, <1>5 DEF Alone, Busy
<1>7. ASSUME to # "idle" => StageOf(w)' PROVE Stage'
  <2> SUFFICES ASSUME NEW v \in Workers, v # w, Busy(v) PROVE StageOf(v)'
    BY <1>1, <1>2, <1>7 DEF Stage, Busy
  <2>1. StageOf(v) /\ pc'[v] = pc[v] /\ job'[v] = job[v]
    BY <1>0, <1>2 DEF Stage
  <2> QED
    BY <2>1 DEF StageOf
<1>8. ASSUME w \in alone /\ to # "idle" => InstalledBy(w)' PROVE Installed'
  <2> SUFFICES ASSUME NEW v \in alone, ~Busy(v)' PROVE InstalledBy(v)'
    BY <1>1, <1>5, <1>8 DEF Installed, Busy
  <2> QED
    BY DEF InstalledBy, Ok, Busy, Ended
<1>9. ASSUME KeepsCertificate',
             w \in alone /\ to = "generating" /\ w \notin deaf' /\ "regenerate" \notin config'
             => ~had'
      PROVE  Kept'
  BY <1>1, <1>5, <1>9 DEF Kept, Busy
<1> QED
  BY <1>1, <1>2, <1>3, <1>4, <1>6, <1>7, <1>8, <1>9

LEMMA OnlyRow ==
  ASSUME Inv, NEW w \in Workers, NEW to, NEW j, Goto(w, to, j),
         rows \cup lost \subseteq rows' \cup lost', NEW c, HasRow(c),
         job[w].cert = c => c \in rows' \cup lost' \/ (to # "idle" /\ j.cert = c)
  PROVE  HasRow(c)'
<1>1. pc'[w] = to /\ job'[w] = j
  BY DEF Goto, Inv, Shape
<1>2. \A v \in Workers : v # w => pc'[v] = pc[v] /\ job'[v] = job[v]
  BY DEF Goto, Inv, Shape
<1> QED
  BY <1>1, <1>2 DEF HasRow, Busy

\* A step that leaves the device alone.
LEMMA DeviceStays ==
  ASSUME Inv, UNCHANGED <<key, running, had>>,
         \A c \in DOMAIN certs : c \in DOMAIN certs' /\ certs'[c] = certs[c]
  PROVE  (Usable => Usable') /\ KeepsCertificate'
<1>1. Usable => Usable'
  BY DEF Usable, Inv, Shape
<1> QED
  BY <1>1 DEF Inv, Kept, KeepsCertificate

LEMMA RenewInv == ASSUME Inv, NEW w \in Workers, NEW m \in {"device", "local"}, Renew(w, m)
                  PROVE  Inv'
<1> DEFINE to == IF m = "device" THEN "opening" ELSE "issuing"
           j == NewJob(m, IF m = "device" THEN 0 ELSE keys + 1)
<1>0. Shape /\ Stage /\ None \notin Job /\ pc[w] = "idle"
  BY DeploymentAssumption DEF Inv, Renew, Busy
<1>1. j \in Job /\ j.cert = 0 /\ j.result = "none" /\ (m = "local" => j.csr # 0)
  BY <1>0 DEF Job, Shape, NewJob
<1>2. Goto(w, to, j) /\ keys' \in Nat
  <2>1. CASE m = "device"
    BY <1>0, <2>1 DEF Renew, Shape
  <2>2. CASE m = "local"
    BY <1>0, <2>2 DEF Renew, Shape
  <2> QED
    BY <2>1, <2>2
<1>3. UNCHANGED <<config, key, running, startup, certs, rows, lost, had>>
  BY DEF Renew, stores
<1>4. alone' = {} \/ (alone' = {w} /\ \A v \in Workers : ~Busy(v))
  BY DEF Renew
<1>5. to \in {"opening", "issuing"} /\ (to = "issuing" => j.csr # 0)
  BY <1>1
<1> HIDE DEF to, j
<1>6. pc'[w] = to /\ job'[w] = j /\ \A v \in Workers : v # w => pc'[v] = pc[v] /\ job'[v] = job[v]
  BY <1>0, <1>2 DEF Goto, Shape
<1>7. pc' \in [Workers -> PC] /\ job' \in [Workers -> Job \cup {None}]
  BY <1>0, <1>1, <1>2, <1>5 DEF Goto, Shape, PC
<1>8. Shape'
  BY <1>0, <1>1, <1>2, <1>3, <1>4, <1>5, <1>6, <1>7 DEF Shape, Busy
<1>9. Stage'
  <2>1. StageOf(w)'
    BY <1>1, <1>5, <1>6 DEF StageOf, Later, Before, Ended
  <2>2. \A v \in Workers : v # w /\ Busy(v)' => StageOf(v)'
    BY <1>0, <1>3, <1>6 DEF Stage, StageOf, Busy
  <2> QED
    BY <2>1, <2>2 DEF Stage
<1>10. Alone'
  BY <1>4, <1>6 DEF Alone, Busy
<1>11. Kept'
  BY <1>3, <1>4, <1>5, <1>6, DeviceStays DEF Kept
<1>12. Installed'
  BY <1>4, <1>5, <1>6 DEF Installed, InstalledBy, Ok, Ended
<1>13. \A c : HasRow(c) => HasRow(c)'
  BY <1>0, <1>3, <1>6 DEF HasRow, Busy
<1>14. Recorded'
  BY <1>3, <1>13 DEF Inv, Recorded
<1> QED
  BY <1>8, <1>9, <1>10, <1>11, <1>12, <1>14 DEF Inv

\* Steps that change neither the device nor what is known of it.
LEMMA Outside ==
  ASSUME Inv, NEW w \in Workers, Busy(w), NEW to, NEW j, Goto(w, to, j),
         (to = "idle" /\ j = None) \/ (to \in PC \ {"idle"} /\ j \in Job),
         to = "generating" => pc[w] = "generating" \/ w \in deaf',
         UNCHANGED <<config, key, keys, running, startup, alone, had>>,
         deaf \subseteq deaf',
         certs' \in Seq(Nat \ {0}),
         \A c \in DOMAIN certs : c \in DOMAIN certs' /\ certs'[c] = certs[c],
         to # "idle" => StageOf(w)',
         w \in alone /\ to # "idle" => InstalledBy(w)',
         rows \cup lost \subseteq rows' \cup lost',
         job[w].cert # 0 =>
           job[w].cert \in rows' \cup lost' \/ (to # "idle" /\ j.cert = job[w].cert)
  PROVE  Inv'
<1>1. /\ pc' \in [Workers -> PC] /\ job' \in [Workers -> Job \cup {None}]
      /\ \A v \in Workers : Busy(v)' <=> job'[v] # None
      /\ Alone' /\ Stage' /\ Installed'
  BY Only
<1>2. w \in alone /\ to = "generating" /\ w \notin deaf' /\ "regenerate" \notin config' => ~had'
  BY DEF Inv, Kept
<1>3. Kept'
  BY <1>2, Only, DeviceStays
<1>4. Shape'
  BY <1>1 DEF Inv, Shape
<1>5. ASSUME NEW c, c # 0, HasRow(c) PROVE HasRow(c)'
  BY <1>5, OnlyRow
<1>6. Recorded'
  BY <1>5 DEF Inv, Recorded
<1> QED
  BY <1>1, <1>3, <1>4, <1>6 DEF Inv

\* Steps of a command that took effect.
LEMMA Inside ==
  ASSUME Inv, NEW w \in Workers, pc[w] \in Dialog, Effect(w), NEW to, NEW j, Goto(w, to, j),
         to \in PC \ {"idle"}, j \in Job, j.cert = job[w].cert,
         UNCHANGED <<config, certs, rows, alone, deaf, lost>>,
         w \in alone /\ to = "generating" /\ w \notin deaf' /\ "regenerate" \notin config' => ~had',
         StageOf(w)', w \in alone => InstalledBy(w)'
  PROVE  Inv'
<1>0. Busy(w)
  BY DEF Dialog, Busy
<1>1. /\ pc' \in [Workers -> PC] /\ job' \in [Workers -> Job \cup {None}]
      /\ \A v \in Workers : Busy(v)' <=> job'[v] # None
      /\ Alone' /\ Stage' /\ Installed'
  BY <1>0, Only
<1>2. /\ key' \in Nat /\ keys' \in Nat /\ running' \in Side /\ startup' \in Side
      /\ had' => Usable'
      /\ running'.cert \in {0, running.cert, job[w].cert}
      /\ startup'.cert \in {startup.cert, running.cert}
  BY Command
<1>3. KeepsCertificate'
  BY <1>2 DEF KeepsCertificate
<1>4. Kept'
  BY <1>0, <1>3, Only
<1>5. job[w].cert \in {0} \cup DOMAIN certs
  BY <1>0 DEF Inv, Stage, StageOf
<1>6. Shape'
  BY <1>1, <1>2, <1>5 DEF Inv, Shape
<1>7. \A c : HasRow(c) => HasRow(c)'
  BY OnlyRow
<1>8. HasRow(job[w].cert)
  BY <1>0 DEF HasRow
<1>9. Recorded'
  BY <1>2, <1>7, <1>8 DEF Inv, Recorded
<1> QED
  BY <1>1, <1>4, <1>6, <1>9 DEF Inv
-----------------------------------------------------------------------------
\* What a busy renewal holds.
LEMMA Held ==
  ASSUME Inv, NEW w \in Workers, Busy(w)
  PROVE  job[w] \in Job /\ StageOf(w) /\ pc[w] \in PC /\ (w \in alone => InstalledBy(w))
  BY DEF Inv, Shape, Stage, Installed

LEMMA Moved ==
  ASSUME Inv, NEW w \in Workers, NEW to, NEW j, Goto(w, to, j)
  PROVE  pc'[w] = to /\ job'[w] = j
  BY DEF Inv, Shape, Goto

LEMMA IssueInv == ASSUME Inv, NEW w \in Workers, Issue(w) PROVE Inv'
<1> DEFINE c == Len(certs) + 1
<1>1. /\ Busy(w) /\ pc[w] = "issuing" /\ certs \in Seq(Nat \ {0})
      /\ job[w] \in Job /\ StageOf(w) /\ job[w].cert = 0 /\ job[w].csr # 0
      /\ job[w].result = "none"
  BY Held DEF Issue, Busy, StageOf, Before, Inv, Shape
<1>2. UNCHANGED <<config, key, keys, running, startup, alone, had, deaf, lost>>
  BY DEF Issue, device, ghosts
<1>3. CASE certs' = Append(certs, job[w].csr)
  <2>1. /\ certs' \in Seq(Nat \ {0}) /\ certs'[c] = job[w].csr /\ c \in DOMAIN certs'
        /\ \A b \in DOMAIN certs : b \in DOMAIN certs' /\ certs'[b] = certs[b]
        /\ c \in Nat \ {0}
    BY <1>1, <1>3, AppendProperties DEF Job
  <2> HIDE DEF c
  <2>2. rows' = rows
    BY DEF Issue
  <2>3. CASE Goto(w, "storing", Unable([job[w] EXCEPT !.cert = c]))
    <3> DEFINE j == Unable([job[w] EXCEPT !.cert = c])
    <3>1. j \in Job /\ j.cert = c /\ j.csr = job[w].csr /\ j.result = "failed"
      BY <1>1, <2>1 DEF Job, Unable
    <3>2. Goto(w, "storing", j)
      BY <2>3
    <3> HIDE DEF j
    <3>3. StageOf(w)' /\ InstalledBy(w)'
      BY <2>1, <3>1, <3>2, Moved DEF StageOf, InstalledBy, Ok, Before, Later, Ended
    <3> QED
      BY <1>1, <1>2, <2>1, <2>2, <3>1, <3>2, <3>3, Outside DEF PC
  <2>4. CASE Goto(w, "reopening", [job[w] EXCEPT !.cert = c])
    <3> DEFINE j == [job[w] EXCEPT !.cert = c]
    <3>1. j \in Job /\ j.cert = c /\ j.csr = job[w].csr /\ j.result = "none"
      BY <1>1, <2>1 DEF Job
    <3>2. Goto(w, "reopening", j)
      BY <2>4
    <3> HIDE DEF j
    <3>3. StageOf(w)' /\ InstalledBy(w)'
      BY <2>1, <3>1, <3>2, Moved DEF StageOf, InstalledBy, Ok, Before, Later, Ended
    <3> QED
      BY <1>1, <1>2, <2>1, <2>2, <3>1, <3>2, <3>3, Outside DEF PC
  <2> QED
    BY <1>3, <2>3, <2>4 DEF Issue, c
<1>4. CASE UNCHANGED certs /\ Goto(w, "idle", None)
  BY <1>1, <1>2, <1>4, Outside DEF Issue
<1> QED
  BY <1>3, <1>4 DEF Issue

LEMMA OpenInv == ASSUME Inv, NEW w \in Workers, Open(w) PROVE Inv'
<1> DEFINE to == CASE pc[w] = "opening" -> "listing"
                   [] pc[w] = "reopening" /\ job[w].mode = "device" -> "authenticating"
                   [] OTHER -> "wrapping"
           j == [job[w] EXCEPT !.inConfig = pc[w] = "reopening"]
<1>1. Busy(w) /\ job[w] \in Job /\ StageOf(w) /\ pc[w] \in {"opening", "reopening"}
  BY Held DEF Open, Busy
<1>2. Goto(w, to, j)
  BY DEF Open
<1>3. j \in Job /\ j.cert = job[w].cert /\ j.csr = job[w].csr /\ j.result = job[w].result
  BY <1>1 DEF Job
<1>4. to \in {"listing", "authenticating", "wrapping"} /\ (to = "listing" <=> pc[w] = "opening")
  <2>1. CASE pc[w] = "opening"
    BY <2>1, "opening" # "reopening"
  <2>2. CASE pc[w] = "reopening" /\ job[w].mode = "device"
    BY <2>2, "opening" # "reopening"
  <2>3. CASE pc[w] = "reopening" /\ job[w].mode # "device"
    BY <2>3, "opening" # "reopening"
  <2> QED
    BY <1>1, <2>1, <2>2, <2>3
<1>5. UNCHANGED <<config, key, keys, running, startup, certs, rows, alone, had, deaf, lost>>
  BY DEF Open, device, stores, ghosts
<1> HIDE DEF to, j
<1>6. StageOf(w)' /\ InstalledBy(w)'
  BY <1>1, <1>2, <1>3, <1>4, <1>5, Moved DEF StageOf, InstalledBy, Ok, Before, Later, Ended
<1>7. certs' \in Seq(Nat \ {0})
  BY <1>5 DEF Inv, Shape
<1> QED
  BY <1>1, <1>2, <1>3, <1>4, <1>5, <1>6, <1>7, Outside DEF PC, Dialog

LEMMA LoginFailsInv == ASSUME Inv, NEW w \in Workers, LoginFails(w) PROVE Inv'
<1>1. Busy(w) /\ job[w] \in Job /\ StageOf(w) /\ pc[w] \in {"opening", "reopening"}
  BY Held DEF LoginFails, Busy
<1>2. UNCHANGED <<config, key, keys, running, startup, certs, rows, alone, had, deaf, lost>>
  BY DEF LoginFails, device, stores, ghosts
<1>3. certs' \in Seq(Nat \ {0})
  BY <1>2 DEF Inv, Shape
<1>4. CASE pc[w] = "opening" /\ Goto(w, "idle", None)
  BY <1>1, <1>2, <1>3, <1>4, Outside DEF StageOf, Before
<1>5. CASE pc[w] = "reopening" /\ Goto(w, "storing", Unable(job[w]))
  <2> DEFINE j == Unable(job[w])
  <2>1. j \in Job /\ j.cert = job[w].cert /\ j.csr = job[w].csr /\ j.result = "failed"
    BY <1>1 DEF Job, Unable
  <2>2. Goto(w, "storing", j)
    BY <1>5
  <2> HIDE DEF j
  <2>3. StageOf(w)' /\ InstalledBy(w)'
    BY <1>1, <1>2, <1>5, <2>1, <2>2, Moved DEF StageOf, InstalledBy, Ok, Before, Later, Ended
  <2> QED
    BY <1>1, <1>2, <1>3, <2>1, <2>2, <2>3, Outside DEF PC
<1> QED
  BY <1>4, <1>5 DEF LoginFails

\* The end of a dialog that failed.
LEMMA FailWithInv ==
  ASSUME Inv, NEW w \in Workers, pc[w] \in Dialog \ {"closing"}, FailWith(w),
         UNCHANGED <<config, device, stores, ghosts>>
  PROVE  Inv'
<1> DEFINE r == IF Fetching(w) THEN "raised" ELSE "failed"
           j == [job[w] EXCEPT !.result = r]
<1>1. Busy(w) /\ job[w] \in Job /\ StageOf(w)
  BY Held DEF Busy, Dialog
<1>2. /\ Goto(w, "closing", j) /\ j \in Job
      /\ j.cert = job[w].cert /\ j.csr = job[w].csr /\ j.result = r
  BY <1>1 DEF FailWith, Job
<1>3. (r = "raised" /\ job[w].cert = 0) \/ (r = "failed" /\ job[w].cert # 0)
  <2>1. CASE Fetching(w)
    BY <1>1, <2>1 DEF Fetching, StageOf, Before
  <2>2. CASE ~Fetching(w)
    BY <1>1, <2>2 DEF Fetching, StageOf, Later, Dialog
  <2> QED
    BY <2>1, <2>2
<1>4. UNCHANGED <<config, key, keys, running, startup, certs, rows, alone, had, deaf, lost>>
  BY DEF device, stores, ghosts
<1> HIDE DEF r, j
<1>5. StageOf(w)' /\ InstalledBy(w)'
  BY <1>1, <1>2, <1>3, <1>4, Moved DEF StageOf, InstalledBy, Ok, Before, Later, Ended
<1>6. certs' \in Seq(Nat \ {0})
  BY <1>4 DEF Inv, Shape
<1> QED
  BY <1>1, <1>2, <1>4, <1>5, <1>6, Outside DEF PC, Dialog

LEMMA CloseInv == ASSUME Inv, NEW w \in Workers, Close(w) PROVE Inv'
<1>1. /\ Busy(w) /\ job[w] \in Job /\ StageOf(w) /\ pc[w] = "closing"
      /\ w \in alone => InstalledBy(w)
  BY Held DEF Close, Busy
<1>2. UNCHANGED <<config, key, keys, running, startup, certs, rows, alone, had, deaf, lost>>
  BY DEF Close, device, stores, ghosts
<1>3. certs' \in Seq(Nat \ {0})
  BY <1>2 DEF Inv, Shape
<1>4. CASE job[w].result = "none" /\ Goto(w, "issuing", job[w])
  <2>1. StageOf(w)' /\ InstalledBy(w)'
    BY <1>1, <1>2, <1>4, Moved DEF StageOf, InstalledBy, Ok, Before, Later, Ended
  <2> QED
    BY <1>1, <1>2, <1>3, <1>4, <2>1, Outside DEF PC
<1>5. CASE job[w].result \in {"ok", "failed"} /\ Goto(w, "storing", job[w])
  <2>1. StageOf(w)' /\ (w \in alone => InstalledBy(w)')
    BY <1>1, <1>2, <1>5, Moved DEF StageOf, InstalledBy, Ok, Before, Later, Ended, Usable
  <2> QED
    BY <1>1, <1>2, <1>3, <1>5, <2>1, Outside DEF PC
<1>6. CASE job[w].result = "raised" /\ Goto(w, "idle", None)
  BY <1>1, <1>2, <1>3, <1>6, Outside DEF StageOf
<1> QED
  BY <1>4, <1>5, <1>6 DEF Close

LEMMA StoreInv == ASSUME Inv, NEW w \in Workers, Store(w) PROVE Inv'
<1>1. /\ Busy(w) /\ job[w] \in Job /\ StageOf(w) /\ pc[w] = "storing"
      /\ w \in alone => InstalledBy(w)
  BY Held DEF Store, Busy
<1>2. UNCHANGED <<config, key, keys, running, startup, certs, rows, alone, had, deaf, lost>>
  BY DEF Store, device, stores, ghosts
<1>3. certs' \in Seq(Nat \ {0})
  BY <1>2 DEF Inv, Shape
<1>4. Goto(w, "recording", job[w])
  BY DEF Store
<1>5. StageOf(w)' /\ (w \in alone => InstalledBy(w)')
  BY <1>1, <1>2, <1>4, Moved DEF StageOf, InstalledBy, Ok, Before, Later, Ended, Usable
<1> QED
  BY <1>1, <1>2, <1>3, <1>4, <1>5, Outside DEF PC

\* A renewal that ends with its certificate recorded or lost.
LEMMA EndInv ==
  ASSUME Inv, NEW w \in Workers, Busy(w), Goto(w, "idle", None),
         UNCHANGED <<config, key, keys, running, startup, certs, alone, had, deaf>>,
         rows \cup lost \subseteq rows' \cup lost',
         job[w].cert # 0 => job[w].cert \in rows' \cup lost'
  PROVE  Inv'
<1>1. certs' \in Seq(Nat \ {0})
  BY DEF Inv, Shape
<1> QED
  BY <1>1, Outside

LEMMA RaisesInv ==
  ASSUME Inv, NEW w \in Workers, Record(w) \/ RecordRaises(w) \/ CloseRaises(w) PROVE Inv'
<1>1. /\ Busy(w) /\ Goto(w, "idle", None)
      /\ UNCHANGED <<config, key, keys, running, startup, certs, alone, had, deaf>>
  BY DEF Record, RecordRaises, CloseRaises, Busy, device, stores, ghosts
<1>2. \/ rows' = rows \cup {job[w].cert} /\ lost' = lost
      \/ rows' = rows /\ lost' = lost \cup ({job[w].cert} \ {0})
  BY DEF Record, RecordRaises, CloseRaises, stores, ghosts, Lose
<1> QED
  BY <1>1, <1>2, EndInv

LEMMA RestartInv == ASSUME Inv, Restart PROVE Inv'
<1>1. /\ UNCHANGED <<config, key, running, startup, keys, certs, rows, had>> /\ alone' = {}
      /\ pc' = [w \in Workers |-> "idle"] /\ job' = [w \in Workers |-> None]
      /\ lost' = lost \cup ({job[w].cert : w \in {w \in Workers : Busy(w)}} \ {0})
  BY DEF Restart, device, stores, Lose
<1>2. Shape'
  BY <1>1 DEF Inv, Shape, Busy, PC
<1>3. Stage'
  BY <1>1 DEF Stage, Busy
<1>4. Alone' /\ Kept' /\ Installed'
  BY <1>1 DEF Inv, Alone, Kept, KeepsCertificate, Usable, Installed
<1>5. \A c : c # 0 /\ HasRow(c) => HasRow(c)'
  BY <1>1 DEF HasRow
<1>6. Recorded'
  BY <1>1, <1>5 DEF Inv, Recorded
<1> QED
  BY <1>2, <1>3, <1>4, <1>6 DEF Inv
-----------------------------------------------------------------------------
\* The order of the commands.
LEMMA AfterIs ==
  ASSUME NEW w \in Workers, Speaking(w)
  PROVE  /\ After(w) \in PC \ {"idle"}
         /\ pc[w] = "listing" => After(w) = IF MustGenerate THEN "generating" ELSE "enrolling"
         /\ pc[w] = "generating" => After(w) = "enrolling"
         /\ pc[w] = "enrolling" => After(w) = "closing"
         /\ pc[w] = "authenticating" => After(w) = "importing"
         /\ pc[w] \in {"importing", "wrapping"} => After(w) = "serving"
         /\ pc[w] = "serving" => After(w) = IF "write" \in config THEN "ending" ELSE "closing"
         /\ pc[w] = "ending" => After(w) = "saving"
         /\ pc[w] = "saving" => After(w) = "closing"
  BY DEF Speaking, Dialog, After, PC

\* What an installation that is alone has come to, one command on.
LEMMA NowInstalled ==
  ASSUME Inv, NEW w \in alone, w \in Workers, pc[w] \in Dialog \ {"closing"}, Effect(w),
         UNCHANGED <<config, certs, deaf>>, job'[w].cert = job[w].cert
  PROVE  /\ pc[w] \in {"importing", "wrapping", "serving", "ending", "saving"} =>
              running'.cert = job'[w].cert /\ Usable'
         /\ pc[w] \in {"serving", "ending", "saving"} => (w \notin deaf' => running'.https)
         /\ pc[w] = "saving" => startup' = running'
<1>1. InstalledBy(w)
  BY Held DEF Busy, Dialog
<1>2. CASE pc[w] \in {"importing", "wrapping"}
  BY <1>2, Command DEF Dialog
<1>3. CASE pc[w] \in {"serving", "ending", "saving"}
  <2>1. running.cert = job[w].cert /\ Usable
    BY <1>1, <1>3 DEF InstalledBy
  <2>2. running'.cert = running.cert /\ key' = key
    BY <1>3, Command DEF Dialog
  <2>3. Usable'
    BY <2>1, <2>2 DEF Usable
  <2>4. pc[w] = "serving" => running'.https
    BY <1>3, Command DEF Dialog
  <2>5. pc[w] \in {"ending", "saving"} => running' = running /\ (w \notin deaf => running.https)
    BY <1>1, <1>3, Command DEF Dialog, InstalledBy
  <2>6. pc[w] = "saving" => startup' = running
    BY <1>3, Command DEF Dialog
  <2> QED
    BY <2>1, <2>2, <2>3, <2>4, <2>5, <2>6
<1> QED
  BY <1>2, <1>3

LEMMA DoneInv == ASSUME Inv, NEW w \in Workers, Done(w) PROVE Inv'
<1>1. /\ Busy(w) /\ job[w] \in Job /\ StageOf(w) /\ Speaking(w) /\ Effect(w)
      /\ pc[w] \in Dialog \ {"closing"} /\ (pc[w] = "enrolling" => key # 0) /\ key \in Nat
  BY Held DEF Done, Speaking, Busy, Dialog, Inv, Shape
<1> DEFINE to == After(w)
<1>2. PICK j : /\ Goto(w, to, j) /\ j \in Job /\ j.cert = job[w].cert
               /\ j.csr = IF pc[w] = "enrolling" THEN key ELSE job[w].csr
               /\ j.result = IF pc[w] # "enrolling" /\ to = "closing" THEN "ok" ELSE "none"
  <2>0. job[w].result = "none"
    BY <1>1 DEF StageOf, Dialog, Ended
  <2>1. CASE pc[w] = "listing"
    <3> DEFINE k == [job[w] EXCEPT !.inConfig = TRUE]
    <3>1. Goto(w, to, k)
      BY <2>1 DEF Done
    <3>2. k \in Job /\ k.cert = job[w].cert /\ k.csr = job[w].csr /\ k.result = "none"
      BY <1>1, <2>0 DEF Job
    <3>3. to # "closing"
      BY <1>1, <2>1, AfterIs
    <3> HIDE DEF k, to
    <3> QED
      BY <2>1, <3>1, <3>2, <3>3
  <2>2. CASE pc[w] = "enrolling"
    <3>1. Goto(w, to, [job[w] EXCEPT !.csr = key])
      BY <2>2 DEF Done
    <3> QED
      BY <1>1, <2>0, <2>2, <3>1 DEF Job
  <2>3. CASE pc[w] = "ending"
    <3> DEFINE k == [job[w] EXCEPT !.inConfig = FALSE]
    <3>1. Goto(w, to, k)
      BY <2>3 DEF Done
    <3>2. k \in Job /\ k.cert = job[w].cert /\ k.csr = job[w].csr /\ k.result = "none"
      BY <1>1, <2>0 DEF Job
    <3>3. to # "closing"
      BY <1>1, <2>3, AfterIs
    <3> HIDE DEF k, to
    <3> QED
      BY <2>3, <3>1, <3>2, <3>3
  <2>4. CASE pc[w] \notin {"listing", "enrolling", "ending"}
    <3>1. Goto(w, to, Concluded(w))
      BY <2>4 DEF Done
    <3> QED
      BY <1>1, <2>0, <2>4, <3>1 DEF Job, Concluded
  <2> QED
    BY <2>1, <2>2, <2>3, <2>4
<1>3. UNCHANGED <<config, certs, rows, alone, deaf, lost>>
  BY DEF Done, stores
<1>4. pc'[w] = to /\ job'[w] = j
  BY <1>2, Moved
<1> HIDE DEF to
<1>5. StageOf(w)'
  BY <1>1, <1>2, <1>3, <1>4, AfterIs DEF StageOf, Before, Later, Ended, Dialog, to
<1>6. w \in alone /\ to = "generating" /\ w \notin deaf' /\ "regenerate" \notin config' => ~had'
  <2> SUFFICES ASSUME to = "generating", "regenerate" \notin config PROVE ~had'
    BY <1>3
  <2>1. pc[w] = "listing"
    BY <1>1, AfterIs DEF to, Dialog
  <2>2. key = 0
    BY <1>1, <2>1, AfterIs DEF to, MustGenerate
  <2>3. ~had
    BY <2>2 DEF Inv, Shape, Kept, KeepsCertificate, Usable
  <2>4. had' => had
    BY <1>1, <1>3, <2>1, Command
  <2> QED
    BY <2>3, <2>4
<1>7. w \in alone => InstalledBy(w)'
  BY <1>1, <1>2, <1>3, <1>4, NowInstalled, AfterIs DEF InstalledBy, Ok, Dialog, to
<1>8. to \in PC \ {"idle"}
  BY <1>1, AfterIs DEF to
<1> QED
  BY <1>1, <1>2, <1>3, <1>5, <1>6, <1>7, <1>8, Inside

LEMMA FallSilentInv == ASSUME Inv, NEW w \in Workers, FallSilent(w) PROVE Inv'
<1> DEFINE j == [job[w] EXCEPT !.silent = TRUE]
<1>1. /\ Busy(w) /\ job[w] \in Job /\ StageOf(w) /\ pc[w] \in Dialog \ {"closing"}
      /\ w \in alone => InstalledBy(w)
  BY Held DEF FallSilent, Speaking, Busy, Dialog
<1>2. /\ Goto(w, pc[w], j) /\ j \in Job /\ j.cert = job[w].cert /\ j.csr = job[w].csr
      /\ j.result = job[w].result
  BY <1>1 DEF FallSilent, Job
<1>3. UNCHANGED <<config, certs, rows, alone, deaf, lost>>
  BY DEF FallSilent, stores
<1> HIDE DEF j
<1>4. pc'[w] = pc[w] /\ job'[w] = j
  BY <1>2, Moved
<1>5. StageOf(w)'
  BY <1>1, <1>2, <1>3, <1>4 DEF StageOf
<1>6. pc[w] \in PC \ {"idle"}
  BY <1>1 DEF PC, Dialog
<1>7. CASE Effect(w)
  <2>1. w \in alone => InstalledBy(w)'
    BY <1>1, <1>2, <1>3, <1>4, <1>7, NowInstalled DEF InstalledBy, Ok, Ended, Dialog
  <2>2. w \in alone /\ pc[w] = "generating" /\ w \notin deaf' /\ "regenerate" \notin config'
        => ~had'
    BY <1>1, <1>3, <1>7, Command DEF Inv, Kept
  <2> QED
    BY <1>1, <1>2, <1>3, <1>5, <1>6, <1>7, <2>1, <2>2, Inside
<1>8. CASE UNCHANGED <<device, had>>
  <2>1. UNCHANGED <<key, keys, running, startup, had>>
    BY <1>8 DEF device
  <2>2. w \in alone => InstalledBy(w)'
    BY <1>1, <1>2, <1>3, <1>4, <2>1 DEF InstalledBy, Ok, Usable
  <2>3. certs' \in Seq(Nat \ {0})
    BY <1>3 DEF Inv, Shape
  <2> QED
    BY <1>1, <1>2, <1>3, <1>5, <1>6, <2>1, <2>2, <2>3, Outside
<1> QED
  BY <1>7, <1>8 DEF FallSilent

LEMMA OverheardInv == ASSUME Inv, NEW w \in Workers, Overheard(w) PROVE Inv'
<1> DEFINE to == IF pc[w] = "listing" THEN "generating" ELSE After(w)
           j == IF pc[w] = "listing" THEN [job[w] EXCEPT !.inConfig = TRUE] ELSE Concluded(w)
<1>1. /\ Busy(w) /\ job[w] \in Job /\ StageOf(w) /\ Speaking(w)
      /\ pc[w] \in {"listing", "generating", "authenticating", "serving", "saving"}
      /\ w \in alone => InstalledBy(w)
  BY Held DEF Overheard, Busy
<1>2. /\ j \in Job /\ j.cert = job[w].cert /\ j.csr = job[w].csr
      /\ pc[w] \in {"generating", "authenticating", "listing"} => j.result = "none"
      /\ pc[w] = "serving" /\ "write" \in config => j.result = "none"
      /\ pc[w] = "serving" /\ "write" \notin config => j.result = "ok"
      /\ pc[w] = "saving" => j.result = "ok"
  BY <1>1, AfterIs DEF Job, Concluded, StageOf, Ended
<1>3. Goto(w, to, j)
  BY DEF Overheard
<1>4. /\ UNCHANGED <<config, key, keys, running, startup, certs, rows, alone, lost, had>>
      /\ deaf' = deaf \cup {w}
  BY DEF Overheard, device, stores
<1> HIDE DEF j
<1>5. pc'[w] = to /\ job'[w] = j
  BY <1>3, Moved
<1>6. /\ to \in PC \ {"idle"}
      /\ pc[w] = "listing" => to = "generating"
      /\ pc[w] = "generating" => to = "enrolling"
      /\ pc[w] = "authenticating" => to = "importing"
      /\ pc[w] = "serving" => to = IF "write" \in config THEN "ending" ELSE "closing"
      /\ pc[w] = "saving" => to = "closing"
  BY <1>1, AfterIs DEF PC, Dialog
<1> HIDE DEF to
<1>7. StageOf(w)'
  BY <1>1, <1>2, <1>4, <1>5, <1>6 DEF StageOf, Before, Later, Ended
<1>8. w \in alone => InstalledBy(w)'
  BY <1>1, <1>2, <1>4, <1>5, <1>6 DEF InstalledBy, Ok, Usable
<1>9. certs' \in Seq(Nat \ {0})
  BY <1>4 DEF Inv, Shape
<1> QED
  BY <1>1, <1>2, <1>3, <1>4, <1>6, <1>7, <1>8, <1>9, Outside

LEMMA ReloadInv == ASSUME Inv, Reload PROVE Inv'
<1>1. /\ running' = startup /\ had' = FALSE /\ alone' = {}
      /\ UNCHANGED <<config, key, startup, keys, certs, rows, pc, job, deaf, lost>>
  BY DEF Reload, stores
<1>2. Shape'
  BY <1>1 DEF Inv, Shape, Busy
<1>3. Stage'
  BY <1>1 DEF Inv, Stage, StageOf, Busy
<1>4. Alone' /\ Kept' /\ Installed'
  BY <1>1 DEF Alone, Kept, KeepsCertificate, Installed
<1>5. Recorded'
  BY <1>1 DEF Inv, Recorded, HasRow, Busy
<1> QED
  BY <1>2, <1>3, <1>4, <1>5 DEF Inv

LEMMA StutterInv == Inv /\ UNCHANGED vars => Inv'
  BY DEF Inv, vars, device, stores, ghosts, Shape, Stage, StageOf, Alone, Kept,
     KeepsCertificate, Installed, InstalledBy, Ok, Usable, Recorded, HasRow, Busy
-----------------------------------------------------------------------------
\* What the renewals hold where they are, what the device keeps and what is recorded are
\* inductive together, whatever renewals overlap and commands fail.
THEOREM Invariance == Spec => []Inv
<1>1. Inv /\ [Next]_vars => Inv'
  <2> SUFFICES ASSUME Inv, [Next]_vars PROVE Inv'
    OBVIOUS
  <2>1. ASSUME NEW w \in Workers, NEW mode \in {"device", "local"}, Renew(w, mode) PROVE Inv'
    BY <2>1, RenewInv
  <2>2. ASSUME NEW w \in Workers, Rejected(w) PROVE Inv'
    BY <2>2, FailWithInv DEF Rejected, Speaking
  <2>3. ASSUME NEW w \in Workers, Deadline(w) PROVE Inv'
    BY <2>3, FailWithInv DEF Deadline
  <2>4. ASSUME NEW w \in Workers, Run(w) PROVE Inv'
    BY <2>2, <2>3, <2>4, IssueInv, OpenInv, DoneInv, CloseInv, StoreInv, RaisesInv DEF Run
  <2>5. ASSUME NEW w \in Workers, LoginFails(w) \/ Overheard(w) \/ FallSilent(w)
                               \/ RecordRaises(w)
        PROVE  Inv'
    BY <2>5, LoginFailsInv, OverheardInv, FallSilentInv, RaisesInv
  <2>6. CASE Restart \/ Reload
    BY <2>6, RestartInv, ReloadInv
  <2>7. CASE UNCHANGED vars
    BY <2>7, StutterInv
  <2> QED
    BY <2>1, <2>4, <2>5, <2>6, <2>7 DEF Next
<1> QED
  BY <1>1, InvInit, PTL DEF Spec

\* deploy/cisco_ios.py: whatever fails, a device that had a certificate and its key keeps
\* one, but in four cases, and a refused command is one of them: the list of the keys
\* not shown (it is then taken for a list without the key, and a new key is generated).
\* The others are regenerate_key, renewals that overlap, and a reload.
THEOREM CertificateIsKept == Spec => []KeepsCertificate
<1>1. Inv => KeepsCertificate
  BY DEF Inv, Kept
<1> QED
  BY <1>1, Invariance, PTL

\* A renewal that met no other one and reports success has installed its certificate,
\* with HTTPS on it and saved as asked for, if the device refused it nothing in words the
\* dialog does not know.  It is still so when the success is recorded.
THEOREM SuccessIsReal == Spec => []SuccessIsInstalled
<1>1. Inv => SuccessIsInstalled
  BY DEF Inv, Stage, StageOf, Shape, PC, Dialog, Ended, Installed, InstalledBy, Ok, Busy,
     SuccessIsInstalled
<1> QED
  BY <1>1, Invariance, PTL

\* renew_and_deploy: what is on the device has a row once the renewal that issued it is
\* over, also when it failed halfway; unless that renewal raised (in the dialog's last
\* words, the certificate store or the commit) or was cut by a restart.
THEOREM RecordsAreKept == Spec => []InstalledIsRecorded
<1>1. Inv => InstalledIsRecorded
  BY DEF Inv, Recorded, HasRow, InstalledIsRecorded
<1> QED
  BY <1>1, Invariance, PTL
-----------------------------------------------------------------------------
(* Types with the bounds: what a renewal under way may still add.          *)

\* The renewals still to get their certificate, and those still to generate a key.
Due(w) == pc[w] \notin {"idle", "reopening"} /\ job[w] # None /\ job[w].cert = 0
Generates(w) ==
  Due(w) /\ (pc[w] \in {"opening", "listing"} \/ (pc[w] = "generating" /\ ~job[w].silent))
DueSet == {w \in Workers : Due(w)}
GenSet == {w \in Workers : Generates(w)}

Counted ==
  /\ IsFiniteSet(DueSet)
  /\ Len(certs) + Cardinality(DueSet) <= MaxCerts
  /\ keys + Cardinality(GenSet) <= MaxKeys

\* Every key there is was counted.
Known ==
  /\ key <= keys
  /\ \A w \in Workers : Busy(w) => job[w].csr <= keys
  /\ \A c \in DOMAIN certs : certs[c] <= keys

Kinds ==
  /\ config \subseteq Options /\ rows \cup lost \subseteq DOMAIN certs
  /\ open = {w \in Workers : pc[w] \in Dialog}
  /\ faults \in Nat /\ faults <= MaxFaults /\ leaked \in Nat /\ leaked <= faults

Limits == Counted /\ Known /\ Kinds

\* Counting a subset.
LEMMA Fewer ==
  ASSUME NEW S, IsFiniteSet(S), NEW T \in SUBSET S
  PROVE  /\ IsFiniteSet(T) /\ Cardinality(S) \in Nat /\ Cardinality(T) \in Nat
         /\ Cardinality(T) <= Cardinality(S)
         /\ \A x \in S : x \notin T => Cardinality(T) <= Cardinality(S) - 1
<1>1. IsFiniteSet(T) /\ Cardinality(T) <= Cardinality(S)
  BY FS_Subset
<1>2. Cardinality(S) \in Nat /\ Cardinality(T) \in Nat
  BY <1>1, FS_CardinalityType
<1>3. ASSUME NEW x \in S, x \notin T
      PROVE  Cardinality(T) <= Cardinality(S) - 1
  <2>1. IsFiniteSet(S \ {x}) /\ Cardinality(S \ {x}) = Cardinality(S) - 1
    BY FS_RemoveElement
  <2>2. T \in SUBSET (S \ {x})
    BY <1>3
  <2> QED
    BY <2>1, <2>2, FS_Subset
<1> QED
  BY <1>1, <1>2, <1>3

LEMMA LimitsInit == Init => Limits
<1> SUFFICES ASSUME Init PROVE Limits
  OBVIOUS
<1>1. DueSet = {} /\ GenSet = {}
  BY DEF Init, DueSet, GenSet, Due, Generates
<1>2. Counted
  BY <1>1, FS_EmptySet, DeploymentAssumption DEF Counted, Init
<1>3. Known
  BY DEF Known, Init, Busy
<1>4. Kinds
  BY DeploymentAssumption DEF Kinds, Init, Dialog
<1> QED
  BY <1>2, <1>3, <1>4 DEF Limits

\* A step of one renewal that asks for nothing it had not announced.
LEMMA CountedStep ==
  ASSUME Inv, Counted, NEW w \in Workers, NEW to, NEW j, Goto(w, to, j),
         Due(w)' => Due(w), Generates(w)' => Generates(w),
         \/ certs' = certs
         \/ Len(certs') = Len(certs) + 1 /\ Due(w) /\ ~Due(w)',
         \/ keys' = keys
         \/ keys' = keys + 1 /\ Generates(w) /\ ~Generates(w)'
  PROVE  Counted'
<1>1. \A v \in Workers : v # w => pc'[v] = pc[v] /\ job'[v] = job[v]
  BY DEF Goto, Inv, Shape
<1>2. \A v \in Workers : (Due(v)' => Due(v)) /\ (Generates(v)' => Generates(v))
  <2> SUFFICES ASSUME NEW v \in Workers, v # w
               PROVE  (Due(v)' => Due(v)) /\ (Generates(v)' => Generates(v))
    OBVIOUS
  <2> QED
    BY <1>1 DEF Due, Generates
<1>3. DueSet' \in SUBSET DueSet /\ GenSet' \in SUBSET GenSet /\ GenSet \in SUBSET DueSet
  BY <1>2 DEF DueSet, GenSet, Generates
<1>4. /\ w \in DueSet <=> Due(w)
      /\ w \in DueSet' <=> Due(w)'
      /\ w \in GenSet <=> Generates(w)
      /\ w \in GenSet' <=> Generates(w)'
  BY DEF DueSet, GenSet
<1>5. IsFiniteSet(DueSet) /\ IsFiniteSet(GenSet)
  BY <1>3, Fewer DEF Counted
<1>6. /\ IsFiniteSet(DueSet') /\ Cardinality(DueSet') \in Nat /\ Cardinality(DueSet) \in Nat
      /\ Cardinality(DueSet') <= Cardinality(DueSet)
      /\ Due(w) /\ ~Due(w)' => Cardinality(DueSet') <= Cardinality(DueSet) - 1
  BY <1>3, <1>4, <1>5, Fewer
<1>7. /\ Cardinality(GenSet') \in Nat /\ Cardinality(GenSet) \in Nat
      /\ Cardinality(GenSet') <= Cardinality(GenSet)
      /\ Generates(w) /\ ~Generates(w)' => Cardinality(GenSet') <= Cardinality(GenSet) - 1
  BY <1>3, <1>4, <1>5, Fewer
<1>8. /\ Len(certs) \in Nat /\ keys \in Nat /\ MaxCerts \in Nat /\ MaxKeys \in Nat
      /\ Len(certs) + Cardinality(DueSet) <= MaxCerts
      /\ keys + Cardinality(GenSet) <= MaxKeys
  BY DeploymentAssumption DEF Inv, Shape, Counted
<1>9. Len(certs') + Cardinality(DueSet') <= MaxCerts
  BY <1>6, <1>8
<1>10. keys' + Cardinality(GenSet') <= MaxKeys
  BY <1>7, <1>8
<1> QED
  BY <1>6, <1>9, <1>10 DEF Counted

\* The same for the keys that were counted.
LEMMA KnownStep ==
  ASSUME Inv, Known, NEW w \in Workers, NEW to, NEW j, Goto(w, to, j),
         keys' \in Nat, keys <= keys', key' <= keys', to # "idle" => j.csr <= keys',
         \/ certs' = certs
         \/ Busy(w) /\ certs' = Append(certs, job[w].csr)
  PROVE  Known'
<1>1. pc'[w] = to /\ job'[w] = j
  BY DEF Goto, Inv, Shape
<1>2. \A v \in Workers : v # w => pc'[v] = pc[v] /\ job'[v] = job[v]
  BY DEF Goto, Inv, Shape
<1>3. \A v \in Workers : Busy(v) => job[v].csr \in Nat /\ job[v].csr <= keys
  BY DeploymentAssumption DEF Known, Inv, Shape, Job
<1>4. keys \in Nat /\ \A c \in DOMAIN certs : certs[c] \in Nat /\ certs[c] <= keys
  BY DEF Known, Inv, Shape
<1>5. \A v \in Workers : Busy(v)' => job'[v].csr <= keys'
  BY <1>1, <1>2, <1>3, <1>4 DEF Busy
<1>6. \A c \in DOMAIN certs' : certs'[c] <= keys'
  <2>1. CASE certs' = certs
    BY <1>4, <2>1
  <2>2. CASE Busy(w) /\ certs' = Append(certs, job[w].csr)
    <3>1. job[w].csr \in Nat /\ job[w].csr <= keys
      BY <1>3, <2>2
    <3>2. certs \in Seq(Nat)
      BY DEF Inv, Shape
    <3> QED
      BY <1>4, <2>2, <3>1, <3>2
  <2> QED
    BY <2>1, <2>2
<1> QED
  BY <1>5, <1>6 DEF Known

\* The channel of a dialog that goes on, that begins and that ends.
LEMMA Channels ==
  ASSUME Inv, Kinds, NEW w \in Workers, NEW to, NEW j, Goto(w, to, j),
         \/ open' = open /\ (pc[w] \in Dialog <=> to \in Dialog)
         \/ open' = open \cup {w} /\ to \in Dialog
         \/ open' = open \ {w} /\ to \notin Dialog
  PROVE  open' = {v \in Workers : pc'[v] \in Dialog}
<1>1. pc'[w] = to /\ \A v \in Workers : v # w => pc'[v] = pc[v]
  BY DEF Goto, Inv, Shape
<1>2. \A v : v \in open <=> v \in Workers /\ pc[v] \in Dialog
  BY DEF Kinds
<1>3. \A v : v \in open' <=> v \in Workers /\ pc'[v] \in Dialog
  BY <1>1, <1>2
<1> QED
  BY <1>3

\* One more failure is counted.
LEMMA Faulty ==
  ASSUME Kinds, Fault \/ faults' = faults
  PROVE  /\ faults' \in Nat /\ faults' <= MaxFaults /\ leaked \in Nat /\ leaked <= faults'
         /\ Fault => leaked + 1 <= faults'
  BY DeploymentAssumption DEF Kinds, Fault

\* What a job and the device are made of.
LEMMA Parts ==
  ASSUME Inv, Known, NEW w \in Workers, Busy(w)
  PROVE  /\ job[w] \in Job /\ job[w] # None /\ StageOf(w) /\ pc[w] \in PC \ {"idle"}
         /\ key \in Nat /\ keys \in Nat /\ key <= keys
         /\ job[w].csr \in Nat /\ job[w].csr <= keys
<1>1. job[w] \in Job /\ job[w] # None
  BY DEF Inv, Shape
<1> QED
  BY <1>1 DEF Inv, Shape, Stage, Known, Busy, Job

LEMMA RenewLimits ==
  ASSUME Inv, Limits, NEW w \in Workers, NEW m \in {"device", "local"}, Renew(w, m)
  PROVE  Limits'
<1> DEFINE to == IF m = "device" THEN "opening" ELSE "issuing"
           j == NewJob(m, IF m = "device" THEN 0 ELSE keys + 1)
<1>0. pc[w] = "idle" /\ key \in Nat /\ keys \in Nat /\ key <= keys /\ Len(certs) \in Nat
  BY DEF Renew, Busy, Inv, Shape, Limits, Known
<1>1. j \in Job /\ j.cert = 0 /\ ~j.silent /\ j.csr <= keys'
  BY <1>0 DEF Job, NewJob, Renew
<1>2. Goto(w, to, j) /\ keys' = IF m = "device" THEN keys ELSE keys + 1
  BY DEF Renew
<1>3. UNCHANGED <<config, key, certs, rows, lost, open, leaked, faults>>
  BY DEF Renew, stores
<1>4. to = IF m = "device" THEN "opening" ELSE "issuing"
  OBVIOUS
<1> HIDE DEF to, j
<1>5. pc'[w] = to /\ job'[w] = j /\ \A v \in Workers : v # w => pc'[v] = pc[v] /\ job'[v] = job[v]
  BY <1>2 DEF Goto, Inv, Shape
<1>6. Known'
  BY <1>0, <1>1, <1>2, <1>3, <1>4, KnownStep DEF Limits
<1>7. Kinds'
  <2>1. open' = {v \in Workers : pc'[v] \in Dialog}
    BY <1>0, <1>2, <1>3, <1>4, Channels DEF Limits, Dialog
  <2> QED
    BY <1>3, <2>1 DEF Limits, Kinds
<1>8. Counted'
  <2>1. \A v : v \in DueSet' <=> v \in DueSet \/ v = w
    <3>1. Due(w)'
      BY <1>1, <1>4, <1>5, DeploymentAssumption DEF Due
    <3>2. \A v \in Workers : v # w => (Due(v)' <=> Due(v))
      BY <1>5 DEF Due
    <3> QED
      BY <3>1, <3>2 DEF DueSet
  <2>2. \A v : v \in GenSet' => v \in GenSet \/ (v = w /\ m = "device")
    <3>1. Generates(w)' => m = "device"
      BY <1>4, <1>5 DEF Generates
    <3>2. \A v \in Workers : v # w => (Generates(v)' <=> Generates(v))
      BY <1>5 DEF Generates, Due
    <3> QED
      BY <3>1, <3>2 DEF GenSet
  <2>3. w \notin DueSet /\ GenSet \in SUBSET DueSet
    BY <1>0 DEF DueSet, Due, GenSet, Generates
  <2>4. /\ DueSet' = DueSet \cup {w}
        /\ GenSet' \in SUBSET (IF m = "device" THEN DueSet \cup {w} ELSE DueSet)
    BY <2>1, <2>2, <2>3
  <2>5. IsFiniteSet(DueSet) /\ Cardinality(DueSet) \in Nat /\ Room = Cardinality(DueSet)
    BY FS_CardinalityType DEF Limits, Counted, Room, DueSet, Due
  <2>6. /\ IsFiniteSet(DueSet \cup {w})
        /\ Cardinality(DueSet \cup {w}) = Cardinality(DueSet) + 1
    BY <2>3, <2>5, FS_AddElement
  <2>7. Cardinality(GenSet') \in Nat /\ Cardinality(GenSet') <=
          IF m = "device" THEN Cardinality(DueSet) + 1 ELSE Cardinality(DueSet)
    BY <2>4, <2>5, <2>6, Fewer
  <2>8. Len(certs) + Cardinality(DueSet) < MaxCerts /\ keys + Cardinality(DueSet) < MaxKeys
    BY <2>5 DEF Renew
  <2>9. MaxCerts \in Nat /\ MaxKeys \in Nat
    BY DeploymentAssumption
  <2>10. Len(certs') + Cardinality(DueSet') <= MaxCerts
    BY <1>0, <1>3, <2>4, <2>5, <2>6, <2>8, <2>9
  <2>11. keys' + Cardinality(GenSet') <= MaxKeys
    BY <1>0, <1>2, <2>5, <2>7, <2>8, <2>9
  <2> QED
    BY <2>4, <2>6, <2>10, <2>11 DEF Counted
<1> QED
  BY <1>6, <1>7, <1>8 DEF Limits

\* A step of a renewal that touches neither keys nor certificates.
LEMMA QuietLimits ==
  ASSUME Inv, Limits, NEW w \in Workers, Busy(w), NEW to, NEW j, Goto(w, to, j),
         UNCHANGED <<config, key, keys, certs>>,
         Due(w)' => Due(w), Generates(w)' => Generates(w),
         to # "idle" => j.csr <= keys,
         rows' \cup lost' \in SUBSET (rows \cup lost \cup DOMAIN certs),
         \/ open' = open /\ (pc[w] \in Dialog <=> to \in Dialog)
         \/ open' = open \cup {w} /\ to \in Dialog
         \/ open' = open \ {w} /\ to \notin Dialog,
         Fault \/ faults' = faults,
         leaked' = leaked \/ (Fault /\ leaked' = leaked + 1)
  PROVE  Limits'
<1>1. key <= keys /\ keys \in Nat
  BY Parts DEF Limits
<1>2. Counted'
  BY CountedStep DEF Limits
<1>3. Known'
  BY <1>1, KnownStep DEF Limits
<1>4. open' = {v \in Workers : pc'[v] \in Dialog}
  BY Channels DEF Limits
<1>5. faults' \in Nat /\ faults' <= MaxFaults /\ leaked' \in Nat /\ leaked' <= faults'
  BY Faulty DEF Limits, Kinds
<1>6. Kinds'
  BY <1>4, <1>5 DEF Limits, Kinds
<1> QED
  BY <1>2, <1>3, <1>6 DEF Limits

LEMMA IssueLimits == ASSUME Inv, Limits, NEW w \in Workers, Issue(w) PROVE Limits'
<1> DEFINE c == Len(certs) + 1
<1>1. /\ pc[w] = "issuing" /\ Busy(w) /\ job[w] \in Job /\ job[w] # None /\ job[w].cert = 0
      /\ key <= keys /\ keys \in Nat /\ job[w].csr \in Nat /\ job[w].csr # 0 /\ job[w].csr <= keys
  BY Parts DEF Issue, Busy, Limits, StageOf, Before
<1>2. UNCHANGED <<config, key, keys, rows, lost, open, leaked, faults>>
  BY DEF Issue, device, ghosts
<1> DEFINE k == [job[w] EXCEPT !.cert = c]
<1>3. c \in Nat /\ c # 0 /\ k \in Job /\ k.csr = job[w].csr /\ k.cert = c
      /\ Unable(k).csr = job[w].csr /\ Unable(k).cert = c
  <2>1. c \in Nat /\ c # 0
    BY DEF Inv, Shape
  <2> HIDE DEF c
  <2>2. k \in Job /\ k.csr = job[w].csr /\ k.cert = c
    BY <1>1, <2>1 DEF Job
  <2> HIDE DEF k
  <2> QED
    BY <2>1, <2>2 DEF Unable, Job
<1>4. PICK to, j : /\ Goto(w, to, j) /\ to \in {"reopening", "storing", "idle"}
                   /\ to # "idle" => j.csr = job[w].csr /\ j.cert # 0
                   /\ UNCHANGED certs \/ certs' = Append(certs, job[w].csr)
  BY <1>3 DEF Issue
<1>5. pc'[w] = to /\ job'[w] = j
  BY <1>4 DEF Goto, Inv, Shape
<1>6. Due(w) /\ ~Due(w)' /\ ~Generates(w)'
  BY <1>1, <1>4, <1>5 DEF Due, Generates
<1>7. \/ certs' = certs
      \/ Len(certs') = Len(certs) + 1 /\ DOMAIN certs' = 1 .. c
  <2>1. certs \in Seq(Nat)
    BY DEF Inv, Shape
  <2>2. CASE certs' = Append(certs, job[w].csr)
    BY <1>1, <2>1, <2>2
  <2> QED
    BY <1>4, <2>2
<1>8. Counted'
  BY <1>2, <1>4, <1>6, <1>7, CountedStep DEF Limits
<1>9. Known'
  BY <1>1, <1>2, <1>4, KnownStep DEF Limits
<1>10. open' = {v \in Workers : pc'[v] \in Dialog}
  BY <1>1, <1>2, <1>4, Channels DEF Limits, Dialog
<1>11. rows' \cup lost' \in SUBSET DOMAIN certs'
  <2>1. DOMAIN certs = 1 .. Len(certs) /\ Len(certs) \in Nat
    BY DEF Inv, Shape
  <2> QED
    BY <1>2, <1>7, <2>1 DEF Limits, Kinds
<1> QED
  BY <1>2, <1>8, <1>9, <1>10, <1>11 DEF Limits, Kinds

LEMMA OpenLimits == ASSUME Inv, Limits, NEW w \in Workers, Open(w) PROVE Limits'
<1>1. /\ pc[w] \in {"opening", "reopening"} /\ Busy(w) /\ job[w] \in Job /\ StageOf(w)
      /\ job[w].csr <= keys
  BY Parts DEF Open, Busy, Limits
<1> DEFINE b == pc[w] = "reopening"
<1> HIDE DEF b
<1>2. /\ [job[w] EXCEPT !.inConfig = b].csr = job[w].csr
      /\ [job[w] EXCEPT !.inConfig = b].cert = job[w].cert
      /\ [job[w] EXCEPT !.inConfig = b].silent = job[w].silent
  BY <1>1 DEF Job
<1>3. PICK to, j : /\ Goto(w, to, j) /\ to \in {"listing", "authenticating", "wrapping"}
                   /\ pc[w] = "opening" <=> to = "listing"
                   /\ j = [job[w] EXCEPT !.inConfig = b]
  BY <1>1 DEF Open, b
<1>4. pc'[w] = to /\ job'[w] = j
  BY <1>3 DEF Goto, Inv, Shape
<1>5. UNCHANGED <<config, key, keys, certs, rows, lost, leaked, faults>> /\ open' = open \cup {w}
  BY DEF Open, device, stores, ghosts, Connect
<1>6. Due(w)' => Due(w)
  BY <1>1, <1>2, <1>3, <1>4, Parts DEF Due, StageOf, Later, Limits
<1>7. Generates(w)' => Generates(w)
  BY <1>3, <1>4, <1>6 DEF Generates
<1> QED
  BY <1>1, <1>2, <1>3, <1>5, <1>6, <1>7, QuietLimits DEF Dialog

\* A renewal that ends.
LEMMA EndLimits ==
  ASSUME Inv, Limits, NEW w \in Workers, Busy(w), Goto(w, "idle", None),
         UNCHANGED <<config, key, keys, certs>>,
         rows' \cup lost' \in SUBSET (rows \cup lost \cup DOMAIN certs),
         open' = open \ {w},
         Fault \/ faults' = faults,
         leaked' = leaked \/ (Fault /\ leaked' = leaked + 1)
  PROVE  Limits'
<1>1. pc'[w] = "idle"
  BY DEF Goto, Inv, Shape
<1>2. ~Due(w)' /\ ~Generates(w)' /\ "idle" \notin Dialog
  BY <1>1 DEF Due, Generates, Dialog
<1> QED
  BY <1>2, QuietLimits

\* A renewal that goes on to be recorded.
LEMMA OnLimits ==
  ASSUME Inv, Limits, NEW w \in Workers, Busy(w), NEW to \in Ended, NEW j, Goto(w, to, j),
         UNCHANGED <<config, key, keys, certs, rows, lost>>,
         job[w].cert # 0, j.cert = job[w].cert, j.csr = job[w].csr,
         open' = open \ {w},
         Fault \/ faults' = faults,
         leaked' = leaked \/ (Fault /\ leaked' = leaked + 1)
  PROVE  Limits'
<1>1. pc'[w] = to /\ job'[w] = j
  BY DEF Goto, Inv, Shape
<1>2. ~Due(w)' /\ ~Generates(w)' /\ to \notin Dialog /\ to # "idle"
  BY <1>1 DEF Due, Generates, Dialog, Ended
<1>3. job[w].csr <= keys
  BY Parts DEF Limits
<1> QED
  BY <1>2, <1>3, QuietLimits

LEMMA LoginFailsLimits == ASSUME Inv, Limits, NEW w \in Workers, LoginFails(w) PROVE Limits'
<1>1. /\ pc[w] \in {"opening", "reopening"} /\ Busy(w) /\ StageOf(w) /\ job[w] \in Job
  BY Parts DEF LoginFails, Busy, Limits
<1>2. open' = open \ {w}
  BY <1>1 DEF LoginFails, Limits, Kinds, Dialog
<1>3. /\ UNCHANGED <<config, key, keys, certs, rows, lost>> /\ Fault /\ leaked' = leaked + 1
  BY DEF LoginFails, device, stores, ghosts
<1>4. Unable(job[w]).cert = job[w].cert /\ Unable(job[w]).csr = job[w].csr
  BY <1>1 DEF Unable, Job
<1>5. CASE Goto(w, "idle", None)
  BY <1>1, <1>2, <1>3, <1>5, EndLimits
<1>6. CASE pc[w] = "reopening" /\ Goto(w, "storing", Unable(job[w]))
  BY <1>1, <1>2, <1>3, <1>4, <1>6, OnLimits DEF StageOf, Later, Ended
<1> QED
  BY <1>5, <1>6 DEF LoginFails

LEMMA FailWithLimits ==
  ASSUME Inv, Limits, NEW w \in Workers, FailWith(w), pc[w] \in Dialog \ {"closing"},
         UNCHANGED <<config, device, stores, lost, open, leaked>>, Fault \/ faults' = faults
  PROVE  Limits'
<1>1. Busy(w) /\ job[w] \in Job /\ job[w] # None /\ job[w].csr <= keys
  BY Parts DEF Busy, Dialog, Limits
<1>2. PICK j : /\ Goto(w, "closing", j) /\ j.csr = job[w].csr /\ j.cert = job[w].cert
  BY <1>1 DEF FailWith, Job
<1>3. pc'[w] = "closing" /\ job'[w] = j
  BY <1>2 DEF Goto, Inv, Shape
<1>4. (Due(w)' => Due(w)) /\ ~Generates(w)'
  BY <1>1, <1>2, <1>3 DEF Due, Generates, Dialog
<1> QED
  BY <1>1, <1>2, <1>4, QuietLimits DEF Dialog, device, stores

LEMMA CloseLimits == ASSUME Inv, Limits, NEW w \in Workers, Close(w) PROVE Limits'
<1>1. pc[w] = "closing" /\ Busy(w) /\ StageOf(w) /\ job[w].csr <= keys /\ job[w] # None
  BY Parts DEF Close, Busy, Limits
<1>2. UNCHANGED <<config, key, keys, certs, rows, lost, leaked, faults>> /\ open' = open \ {w}
  BY <1>1 DEF Close, device, stores, ghosts, Disconnect
<1>3. CASE Goto(w, "idle", None)
  BY <1>1, <1>2, <1>3, EndLimits
<1>4. CASE job[w].result \in {"ok", "failed"} /\ Goto(w, "storing", job[w])
  BY <1>1, <1>2, <1>4, OnLimits DEF StageOf, Ended
<1>5. CASE Goto(w, "issuing", job[w])
  <2>1. pc'[w] = "issuing" /\ job'[w] = job[w]
    BY <1>5 DEF Goto, Inv, Shape
  <2>2. (Due(w)' => Due(w)) /\ ~Generates(w)'
    BY <1>1, <2>1 DEF Due, Generates
  <2> QED
    BY <1>1, <1>2, <1>5, <2>2, QuietLimits DEF Dialog
<1> QED
  BY <1>3, <1>4, <1>5 DEF Close

LEMMA StoreLimits == ASSUME Inv, Limits, NEW w \in Workers, Store(w) PROVE Limits'
<1>1. pc[w] = "storing" /\ Busy(w) /\ StageOf(w) /\ Goto(w, "recording", job[w])
  BY Parts DEF Store, Busy, Limits
<1>2. UNCHANGED <<config, key, keys, certs, rows, lost, leaked, faults>> /\ open' = open \ {w}
  BY <1>1 DEF Store, device, stores, ghosts, Limits, Kinds, Dialog
<1> QED
  BY <1>1, <1>2, OnLimits DEF StageOf, Ended

LEMMA RaisesLimits ==
  ASSUME Inv, Limits, NEW w \in Workers, Record(w) \/ RecordRaises(w) \/ CloseRaises(w)
  PROVE  Limits'
<1>1. Busy(w) /\ StageOf(w) /\ Goto(w, "idle", None)
  BY Parts DEF Record, RecordRaises, CloseRaises, Busy, Limits
<1>2. UNCHANGED <<config, key, keys, certs, leaked>> /\ (Fault \/ faults' = faults)
  BY DEF Record, RecordRaises, CloseRaises, device, stores
<1>3. open' = open \ {w}
  BY DEF Record, RecordRaises, CloseRaises, Disconnect, Limits, Kinds, Dialog
<1>4. rows' \cup lost' \in SUBSET (rows \cup lost \cup ({job[w].cert} \ {0}) \cup DOMAIN certs)
  <2>1. \/ rows' = rows \cup {job[w].cert} /\ job[w].cert # 0 /\ lost' = lost
        \/ rows' = rows /\ lost' = lost \cup ({job[w].cert} \ {0})
    BY <1>1 DEF Record, RecordRaises, CloseRaises, stores, ghosts, Lose, StageOf, Ended
  <2> QED
    BY <2>1
<1>5. job[w].cert # 0 => job[w].cert \in DOMAIN certs
  BY <1>1 DEF StageOf
<1> QED
  BY <1>1, <1>2, <1>3, <1>4, <1>5, EndLimits

LEMMA RestartLimits == ASSUME Inv, Limits, Restart PROVE Limits'
<1>1. /\ UNCHANGED <<config, key, keys, certs, rows>> /\ open' = {} /\ leaked' = 0 /\ Fault
      /\ pc' = [w \in Workers |-> "idle"] /\ job' = [w \in Workers |-> None]
      /\ lost' = lost \cup ({job[w].cert : w \in {w \in Workers : Busy(w)}} \ {0})
  BY DEF Restart, device, stores, Lose
<1>2. DueSet' = {} /\ GenSet' = {}
  BY <1>1 DEF DueSet, GenSet, Due, Generates
<1>3. /\ IsFiniteSet(DueSet) /\ GenSet \in SUBSET DueSet
      /\ Cardinality(DueSet) \in Nat /\ Cardinality(GenSet) \in Nat
  <2>1. IsFiniteSet(DueSet) /\ GenSet \in SUBSET DueSet
    BY DEF Limits, Counted, GenSet, DueSet, Generates
  <2> QED
    BY <2>1, Fewer
<1>4. IsFiniteSet({}) /\ Cardinality({}) = 0
  BY FS_EmptySet
<1>5. /\ Len(certs) \in Nat /\ keys \in Nat /\ MaxCerts \in Nat /\ MaxKeys \in Nat
      /\ Len(certs) + Cardinality(DueSet) <= MaxCerts
      /\ keys + Cardinality(GenSet) <= MaxKeys
  BY DeploymentAssumption DEF Inv, Shape, Limits, Counted
<1>6. Counted'
  BY <1>1, <1>2, <1>3, <1>4, <1>5 DEF Counted
<1>7. Known'
  BY <1>1 DEF Limits, Known, Busy
<1>8. \A w \in Workers : Busy(w) => job[w].cert \in {0} \cup DOMAIN certs
  BY DEF Inv, Stage, StageOf
<1>9. rows' \cup lost' \subseteq DOMAIN certs'
  BY <1>1, <1>8 DEF Limits, Kinds
<1>10. open' = {w \in Workers : pc'[w] \in Dialog}
  BY <1>1 DEF Dialog
<1>11. Kinds'
  BY <1>1, <1>9, <1>10, Faulty DEF Limits, Kinds
<1> QED
  BY <1>6, <1>7, <1>11 DEF Limits

\* What a command adds to the keys.
LEMMA KeysAdded ==
  ASSUME Inv, Limits, NEW w \in Workers, pc[w] \in Dialog, Effect(w)
  PROVE  /\ key' \in Nat /\ keys' \in Nat /\ key' <= keys'
         /\ keys' = keys \/ (keys' = keys + 1 /\ pc[w] = "generating")
<1>1. /\ key \in Nat /\ keys \in Nat /\ key <= keys
      /\ job[w].csr \in Nat /\ job[w].csr <= keys
  BY Parts DEF Limits, Busy, Dialog
<1> QED
  BY <1>1 DEF Effect, GenerateKey, AuthenticateCa, ImportCert, ImportPkcs12, ApplyHttps,
     Save, device

\* A dialog that goes on.
LEMMA DialogLimits ==
  ASSUME Inv, Limits, NEW w \in Workers, Speaking(w), NEW to, NEW j, Goto(w, to, j),
         to \in Dialog, j \in Job, j.cert = job[w].cert,
         key' \in Nat, keys' \in Nat, key' <= keys', j.csr <= keys',
         keys' = keys \/ (keys' = keys + 1 /\ pc[w] = "generating"
                          /\ (to = "generating" => j.silent)),
         to = "listing" => pc[w] = "listing",
         to = "generating" => pc[w] \in {"listing", "generating"},
         UNCHANGED <<config, stores, lost, open, leaked>>, Fault \/ faults' = faults
  PROVE  Limits'
<1>1. Busy(w) /\ job[w] # None /\ pc[w] \in Dialog /\ StageOf(w) /\ ~job[w].silent
  BY Parts DEF Speaking, Busy, Dialog, Limits
<1>2. pc'[w] = to /\ job'[w] = j
  BY DEF Goto, Inv, Shape
<1>3. Due(w)' => Due(w)
  BY <1>1, <1>2 DEF Due, Dialog
<1>4. Generates(w)' => Generates(w)
  BY <1>1, <1>2, <1>3 DEF Generates, Dialog
<1>5. keys' = keys + 1 /\ keys' # keys => Generates(w) /\ ~Generates(w)'
  <2> SUFFICES ASSUME pc[w] = "generating", to = "generating" => j.silent, to # "opening",
                      to # "listing"
               PROVE  Generates(w) /\ ~Generates(w)'
    BY DEF Dialog
  <2>1. Generates(w)
    BY <1>1, DeploymentAssumption DEF Generates, Due, StageOf, Before
  <2>2. ~Generates(w)'
    BY <1>2 DEF Generates
  <2> QED
    BY <2>1, <2>2
<1>6. keys \in Nat
  BY DEF Inv, Shape
<1>7. Counted'
  BY <1>3, <1>4, <1>5, <1>6, CountedStep DEF Limits, stores
<1>8. Known'
  BY <1>6, KnownStep DEF Limits, stores
<1>9. open' = {v \in Workers : pc'[v] \in Dialog}
  BY <1>1, Channels DEF Limits
<1>10. Kinds'
  BY <1>9, Faulty DEF Limits, Kinds, stores
<1> QED
  BY <1>7, <1>8, <1>10 DEF Limits

LEMMA DoneLimits == ASSUME Inv, Limits, NEW w \in Workers, Done(w) PROVE Limits'
<1>1. /\ pc[w] \in Dialog /\ pc[w] # "closing" /\ job[w] \in Job /\ job[w].csr <= keys
      /\ keys \in Nat /\ job[w].csr \in Nat
  BY Parts DEF Done, Speaking, Busy, Dialog, Limits
<1>2. /\ key' \in Nat /\ keys' \in Nat /\ key' <= keys'
      /\ keys' = keys \/ (keys' = keys + 1 /\ pc[w] = "generating")
  BY <1>1, KeysAdded DEF Done
<1>3. /\ After(w) \in Dialog /\ After(w) # "listing"
      /\ After(w) = "generating" => pc[w] = "listing"
  BY <1>1 DEF After, Dialog
<1>4. Concluded(w) \in Job /\ Concluded(w).cert = job[w].cert /\ Concluded(w).csr = job[w].csr
  BY <1>1 DEF Concluded, Job
<1>5. key \in Nat /\ key <= keys
  BY DEF Inv, Shape, Limits, Known
<1>6. /\ [job[w] EXCEPT !.inConfig = TRUE] \in Job /\ [job[w] EXCEPT !.inConfig = FALSE] \in Job
      /\ [job[w] EXCEPT !.csr = key] \in Job
      /\ [job[w] EXCEPT !.inConfig = TRUE].cert = job[w].cert
      /\ [job[w] EXCEPT !.inConfig = FALSE].cert = job[w].cert
      /\ [job[w] EXCEPT !.csr = key].cert = job[w].cert
      /\ [job[w] EXCEPT !.inConfig = TRUE].csr = job[w].csr
      /\ [job[w] EXCEPT !.inConfig = FALSE].csr = job[w].csr
      /\ [job[w] EXCEPT !.csr = key].csr = key
  BY <1>1, <1>5 DEF Job
<1> DEFINE j == CASE pc[w] = "listing" -> [job[w] EXCEPT !.inConfig = TRUE]
                  [] pc[w] = "enrolling" -> [job[w] EXCEPT !.csr = key]
                  [] pc[w] = "ending" -> [job[w] EXCEPT !.inConfig = FALSE]
                  [] OTHER -> Concluded(w)
<1>7. j \in Job /\ j.cert = job[w].cert /\ j.csr \in {job[w].csr, key}
  BY <1>4, <1>6
<1>8. Goto(w, After(w), j)
  BY DEF Done
<1> HIDE DEF j
<1>9. j.csr <= keys'
  BY <1>1, <1>2, <1>5, <1>7
<1> QED
  BY <1>2, <1>3, <1>7, <1>8, <1>9, DialogLimits DEF Done

LEMMA OverheardLimits == ASSUME Inv, Limits, NEW w \in Workers, Overheard(w) PROVE Limits'
<1>1. /\ pc[w] \in Dialog /\ pc[w] # "closing" /\ job[w] \in Job /\ job[w].csr <= keys
      /\ key \in Nat /\ keys \in Nat /\ key <= keys
  BY Parts DEF Overheard, Speaking, Busy, Dialog, Limits
<1>2. /\ After(w) \in Dialog /\ After(w) # "listing"
      /\ After(w) = "generating" => pc[w] = "listing"
  BY <1>1 DEF After, Dialog
<1>3. Concluded(w) \in Job /\ Concluded(w).cert = job[w].cert /\ Concluded(w).csr = job[w].csr
  BY <1>1 DEF Concluded, Job
<1>4. /\ [job[w] EXCEPT !.inConfig = TRUE] \in Job
      /\ [job[w] EXCEPT !.inConfig = TRUE].cert = job[w].cert
      /\ [job[w] EXCEPT !.inConfig = TRUE].csr = job[w].csr
  BY <1>1 DEF Job
<1>5. UNCHANGED <<key, keys, config, stores, lost, open, leaked>> /\ Speaking(w) /\ Fault
  BY DEF Overheard, device
<1>6. CASE pc[w] = "listing"
  <2>1. Goto(w, "generating", [job[w] EXCEPT !.inConfig = TRUE])
    BY <1>6 DEF Overheard
  <2> QED
    BY <1>1, <1>4, <1>5, <1>6, <2>1, DialogLimits DEF Dialog
<1>7. CASE pc[w] # "listing"
  <2>1. Goto(w, After(w), Concluded(w))
    BY <1>7 DEF Overheard
  <2> QED
    BY <1>1, <1>2, <1>3, <1>5, <2>1, DialogLimits
<1> QED
  BY <1>6, <1>7

LEMMA FallSilentLimits == ASSUME Inv, Limits, NEW w \in Workers, FallSilent(w) PROVE Limits'
<1>1. /\ pc[w] \in Dialog /\ job[w] \in Job /\ job[w].csr <= keys /\ job[w].csr \in Nat
      /\ key \in Nat /\ keys \in Nat /\ key <= keys
  BY Parts DEF FallSilent, Speaking, Busy, Dialog, Limits
<1>2. /\ key' \in Nat /\ keys' \in Nat /\ key' <= keys'
      /\ keys' = keys \/ (keys' = keys + 1 /\ pc[w] = "generating")
  <2>1. CASE Effect(w)
    BY <1>1, <2>1, KeysAdded
  <2>2. CASE UNCHANGED <<device, had>>
    BY <1>1, <2>2 DEF device
  <2> QED
    BY <2>1, <2>2 DEF FallSilent
<1>3. PICK j \in Job : /\ Goto(w, pc[w], j) /\ j.cert = job[w].cert /\ j.csr = job[w].csr
                       /\ j.silent
  <2>1. Goto(w, pc[w], [job[w] EXCEPT !.silent = TRUE])
    BY DEF FallSilent
  <2>2. /\ [job[w] EXCEPT !.silent = TRUE] \in Job
        /\ [job[w] EXCEPT !.silent = TRUE].cert = job[w].cert
        /\ [job[w] EXCEPT !.silent = TRUE].csr = job[w].csr
        /\ [job[w] EXCEPT !.silent = TRUE].silent
    BY <1>1 DEF Job
  <2> QED
    BY <2>1, <2>2
<1>4. j.csr <= keys'
  BY <1>1, <1>2, <1>3
<1> QED
  BY <1>1, <1>2, <1>3, <1>4, DialogLimits DEF FallSilent

\* Steps that are about no renewal.
LEMMA IdleLimits ==
  ASSUME Limits, UNCHANGED <<config, key, keys, stores, lost, pc, job, open, leaked, faults>>
  PROVE  Limits'
  BY DEF Limits, Counted, Known, Kinds, DueSet, GenSet, Due, Generates, Busy, stores

\* Types and bounds, the bounds of the model for every number of renewals: a renewal
\* is begun only when there is room for its key and its certificate.
THEOREM TypeCorrect == Spec => []TypeOK
<1>1. Inv /\ Limits /\ [Next]_vars => Limits'
  <2> SUFFICES ASSUME Inv, Limits, [Next]_vars PROVE Limits'
    OBVIOUS
  <2>1. ASSUME NEW w \in Workers, NEW mode \in {"device", "local"}, Renew(w, mode)
        PROVE  Limits'
    BY <2>1, RenewLimits
  <2>2. ASSUME NEW w \in Workers, Rejected(w) PROVE Limits'
    BY <2>2, FailWithLimits DEF Rejected, Speaking, ghosts
  <2>3. ASSUME NEW w \in Workers, Deadline(w) PROVE Limits'
    BY <2>3, FailWithLimits DEF Deadline, ghosts
  <2>4. ASSUME NEW w \in Workers, Run(w) PROVE Limits'
    BY <2>2, <2>3, <2>4, IssueLimits, OpenLimits, DoneLimits, CloseLimits, StoreLimits,
       RaisesLimits
       DEF Run
  <2>5. ASSUME NEW w \in Workers, LoginFails(w) \/ Overheard(w) \/ FallSilent(w)
                               \/ RecordRaises(w)
        PROVE  Limits'
    BY <2>5, LoginFailsLimits, OverheardLimits, FallSilentLimits, RaisesLimits
  <2>6. CASE Restart \/ Reload
    BY <2>6, RestartLimits, IdleLimits DEF Reload
  <2>7. CASE UNCHANGED vars
    BY <2>7, IdleLimits DEF vars, device, stores, ghosts
  <2> QED
    BY <2>1, <2>4, <2>5, <2>6, <2>7 DEF Next
<1>2. Inv /\ Limits => TypeOK
  <2> SUFFICES ASSUME Inv, Limits PROVE TypeOK
    OBVIOUS
  <2>1. Cardinality(DueSet) \in Nat /\ Cardinality(GenSet) \in Nat
    <3>1. GenSet \in SUBSET DueSet
      BY DEF GenSet, DueSet, Generates
    <3> QED
      BY <3>1, Fewer DEF Limits, Counted
  <2>2. /\ keys \in Nat /\ keys <= MaxKeys /\ Len(certs) \in Nat /\ Len(certs) <= MaxCerts
        /\ {MaxKeys, MaxCerts, MaxFaults} \subseteq Nat /\ DOMAIN certs = 1 .. Len(certs)
    BY <2>1, DeploymentAssumption DEF Inv, Shape, Limits, Counted
  <2>3. certs \in Seq(1 .. MaxKeys)
    <3>1. \A c \in DOMAIN certs : certs[c] \in 1 .. MaxKeys
      BY <2>2 DEF Inv, Shape, Limits, Known
    <3>2. \A c \in 1 .. Len(certs) : certs[c] \in 1 .. MaxKeys
      BY <2>2, <3>1
    <3> QED
      BY <2>2, <3>2, SMTT(20) DEF Inv, Shape
  <2>4. key \in 0 .. keys /\ keys \in 0 .. MaxKeys
    BY <2>2 DEF Inv, Shape, Limits, Known
  <2>5. running \in Side /\ startup \in Side /\ running.cert <= Len(certs)
    BY <2>2 DEF Inv, Shape
  <2>6. leaked \in 0 .. MaxFaults /\ faults \in 0 .. MaxFaults
    BY <2>2 DEF Limits, Kinds
  <2> QED
    BY <2>2, <2>3, <2>4, <2>5, <2>6 DEF TypeOK, Inv, Shape, Limits, Kinds
<1> QED
  BY <1>1, <1>2, LimitsInit, Invariance, PTL DEF Spec
=============================================================================
