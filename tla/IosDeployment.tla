--------------------------- MODULE IosDeployment ---------------------------
(***************************************************************************)
(* Certificates for a Cisco IOS device over its terminal: the dialogs of   *)
(* deploy/cisco_ios.py (the device's own key and a CSR, or a PKCS#12) and  *)
(* the channel under them (deploy/iosshell.py), with renew_and_deploy of   *)
(* hosts.py around them.                                                   *)
(*                                                                         *)
(* One action is one command, or a few that leave nothing behind when they *)
(* fail.  A device does what a command says, or rejects it with a message  *)
(* the dialog knows (ERROR_MARKERS) or with one it does not, or is silent. *)
(* The device is external.  Renewals of one host may overlap.              *)
(***************************************************************************)
EXTENDS Naturals, Sequences, FiniteSets

CONSTANTS
  Workers,     \* threads that renew the host
  None,
  MaxKeys, MaxCerts, MaxFaults   \* bounds

VARIABLES
  config,      \* regenerate_key, write_memory; apply_to_https is on, as by default
  key,         \* the key under the label, kept over reloads; 0 without
  running,     \* certificate and CA of the trustpoint, and whether HTTPS uses it
  startup,     \* the same, as saved
  keys,        \* number of keys generated
  certs,       \* certificates issued: for which key
  pc, job,     \* the renewals
  open,        \* channels that are not closed
  leaked,      \* channels whose login failed
  rows,        \* certificates with a row
  alone,       \* renewals that met no other one, and no reload
  deaf,        \* renewals with a command refused in words the dialog does not know
  lost,        \* certificates whose renewal raised, or was cut by a restart
  had,         \* a certificate was imported, and nothing foreseen took it away
  faults

device == <<key, running, startup, keys>>
stores == <<certs, rows>>
ghosts == <<alone, deaf, lost, had>>
vars == <<config, device, stores, pc, job, open, leaked, ghosts, faults>>

Options == {"regenerate", "write"}
Side == [ca: BOOLEAN, cert: Nat, https: BOOLEAN]
\* inConfig: "end" is still to be said.
Job == [mode: {"device", "local"}, csr: Nat, cert: Nat, inConfig: BOOLEAN,
        result: {"none", "ok", "failed", "raised"}, silent: BOOLEAN]

ASSUME DeploymentAssumption ==
  /\ None \notin Job
  /\ {MaxKeys, MaxCerts, MaxFaults} \subseteq Nat

Dialog == {"listing", "generating", "enrolling", "authenticating", "importing",
           "wrapping", "serving", "ending", "saving", "closing"}
PC == Dialog \cup {"idle", "opening", "issuing", "reopening", "storing", "recording"}

Busy(w) == pc[w] # "idle"
Goto(w, to, j) == pc' = [pc EXCEPT ![w] = to] /\ job' = [job EXCEPT ![w] = j]

Usable == running.cert # 0 /\ certs[running.cert] = key

Init ==
  /\ config \in SUBSET Options
  /\ key = 0 /\ keys = 0 /\ certs = <<>> /\ rows = {}
  /\ running = [ca |-> FALSE, cert |-> 0, https |-> FALSE] /\ startup = running
  /\ pc = [w \in Workers |-> "idle"] /\ job = [w \in Workers |-> None]
  /\ open = {} /\ leaked = 0
  /\ alone = {} /\ deaf = {} /\ lost = {} /\ had = FALSE /\ faults = 0
-----------------------------------------------------------------------------
\* renew_and_deploy: the key of the device, or one of acme-lan's own.

Room == Cardinality({w \in Workers : pc[w] \notin {"idle", "reopening"}
                                       /\ job[w] # None /\ job[w].cert = 0})
NewJob(mode, k) == [mode |-> mode, csr |-> k, cert |-> 0, inConfig |-> FALSE,
                    result |-> "none", silent |-> FALSE]

Renew(w, mode) ==
  /\ ~Busy(w)
  /\ Len(certs) + Room < MaxCerts /\ keys + Room < MaxKeys
  /\ alone' = IF \E v \in Workers : Busy(v) THEN {} ELSE {w}
  /\ deaf' = deaf \ {w}
  /\ IF mode = "device" THEN Goto(w, "opening", NewJob(mode, 0)) /\ keys' = keys
     ELSE Goto(w, "issuing", NewJob(mode, keys + 1)) /\ keys' = keys + 1
  /\ UNCHANGED <<config, key, running, startup, stores, open, leaked, lost, had, faults>>

\* The answer of the plugin, when it fails before a dialog.
Unable(j) == [j EXCEPT !.result = "failed"]

\* The CA fails: the renewal ends.  In device mode a chain of one certificate is not
\* installed.
Issue(w) ==
  LET j == [job[w] EXCEPT !.cert = Len(certs) + 1]
  IN
  /\ pc[w] = "issuing"
  /\ \/ /\ certs' = Append(certs, job[w].csr)
        /\ \/ Goto(w, "reopening", j)
           \/ job[w].mode = "device" /\ Goto(w, "storing", Unable(j))
     \/ UNCHANGED certs /\ Goto(w, "idle", None)
  /\ UNCHANGED <<config, device, rows, open, leaked, ghosts, faults>>

\* OpenSshPtyChannel.
Connect(w) == open' = open \cup {w}
Disconnect(w) == open' = open \ {w}

\* _open: the channel, the login, privileged mode.
Open(w) ==
  /\ pc[w] \in {"opening", "reopening"}
  /\ Connect(w)
  /\ Goto(w, CASE pc[w] = "opening" -> "listing"
               [] pc[w] = "reopening" /\ job[w].mode = "device" -> "authenticating"
               [] OTHER -> "wrapping",
          [job[w] EXCEPT !.inConfig = pc[w] = "reopening"])
  /\ UNCHANGED <<config, device, stores, leaked, ghosts, faults>>

Fault == faults < MaxFaults /\ faults' = faults + 1

\* A login that fails leaves its channel as it is.  It raises before the CSR; after it
\* the plugin says that it failed.
LoginFails(w) ==
  /\ Fault
  /\ leaked' = leaked + 1
  /\ \/ pc[w] = "opening" /\ Goto(w, "idle", None)
     \/ pc[w] = "reopening" /\ Goto(w, "storing", Unable(job[w]))
  /\ UNCHANGED <<config, device, stores, open, ghosts>>
-----------------------------------------------------------------------------
\* What the commands do on the device.

\* crypto key generate: the certificates of a key that is replaced go.
GenerateKey(w) ==
  /\ key' = keys + 1 /\ keys' = keys + 1
  /\ running' = [running EXCEPT !.cert = 0]
  /\ had' = (had /\ w \in alone \ deaf /\ "regenerate" \notin config)
  /\ UNCHANGED startup

AuthenticateCa(w) ==
  running' = [running EXCEPT !.ca = TRUE] /\ UNCHANGED <<key, keys, startup, had>>

\* crypto pki import takes a certificate for its key only.
ImportCert(w) ==
  /\ running' = [running EXCEPT !.cert = job[w].cert]
  /\ had' = TRUE
  /\ UNCHANGED <<key, keys, startup>>
Importable(w) == running.ca /\ certs[job[w].cert] = key

ImportPkcs12(w) ==
  /\ key' = job[w].csr
  /\ running' = [running EXCEPT !.ca = TRUE, !.cert = job[w].cert]
  /\ had' = TRUE
  /\ UNCHANGED <<keys, startup>>

ApplyHttps(w) ==
  running' = [running EXCEPT !.https = TRUE] /\ UNCHANGED <<key, keys, startup, had>>

SaveNever(w) ==   \* mutant: the configuration is not saved
  UNCHANGED <<key, keys, running, startup, had>>
Save(w) ==
  startup' = running /\ UNCHANGED <<key, keys, running, had>>

Effect(w) ==
  \/ pc[w] = "generating" /\ GenerateKey(w)
  \/ pc[w] = "authenticating" /\ AuthenticateCa(w)
  \/ pc[w] = "importing" /\ Importable(w) /\ ImportCert(w)
  \/ pc[w] = "wrapping" /\ ImportPkcs12(w)
  \/ pc[w] = "serving" /\ ApplyHttps(w)
  \/ pc[w] = "saving" /\ Save(w)
  \/ pc[w] \in {"listing", "enrolling", "ending"} /\ UNCHANGED <<device, had>>
-----------------------------------------------------------------------------
\* The dialogs.

Speaking(w) == pc[w] \in Dialog \ {"closing"} /\ ~job[w].silent

\* fetch_csr generates when the label is not in the list.
MustGenerateAlways == TRUE   \* mutant: the keys of the device are not looked at
MustGenerate == key = 0 \/ "regenerate" \in config

After(w) ==
  CASE pc[w] = "listing" -> IF MustGenerate THEN "generating" ELSE "enrolling"
    [] pc[w] = "generating" -> "enrolling"
    [] pc[w] = "authenticating" -> "importing"
    [] pc[w] \in {"importing", "wrapping"} -> "serving"
    [] pc[w] = "serving" /\ "write" \in config -> "ending"
    [] pc[w] = "ending" -> "saving"
    [] OTHER -> "closing"

\* The last command of an installation makes it a success.
Concluded(w) ==
  IF After(w) = "closing" THEN [job[w] EXCEPT !.result = "ok"] ELSE job[w]

\* A command is done and its prompt is back.
Done(w) ==
  LET j == job[w]
  IN
  /\ Speaking(w)
  /\ pc[w] = "enrolling" => key # 0
  /\ Effect(w)
  /\ Goto(w, After(w), CASE pc[w] = "listing" -> [j EXCEPT !.inConfig = TRUE]
                         [] pc[w] = "enrolling" -> [j EXCEPT !.csr = key]
                         [] pc[w] = "ending" -> [j EXCEPT !.inConfig = FALSE]
                         [] OTHER -> Concluded(w))
  /\ UNCHANGED <<config, stores, open, leaked, alone, deaf, lost, faults>>

Fetching(w) == pc[w] \in {"listing", "generating", "enrolling"}
FailWith(w) ==
  Goto(w, "closing",
       [job[w] EXCEPT !.result = IF Fetching(w) THEN "raised" ELSE "failed"])

\* An error marker, or no confirmation of an import.
Rejected(w) ==
  /\ Speaking(w) /\ pc[w] # "ending"
  /\ IF \/ pc[w] = "importing" /\ ~Importable(w)
        \/ pc[w] = "enrolling" /\ key = 0
     THEN UNCHANGED faults ELSE Fault
  /\ FailWith(w)
  /\ UNCHANGED <<config, device, stores, open, leaked, ghosts>>

\* No marker in the answer, and none that confirms is asked for: the dialog goes on.  A
\* list of keys that failed is one without the label.
Overheard(w) ==
  /\ Speaking(w)
  /\ pc[w] \in {"listing", "generating", "authenticating", "serving", "saving"}
  /\ Fault
  /\ deaf' = deaf \cup {w}
  /\ IF pc[w] = "listing" THEN Goto(w, "generating", [job[w] EXCEPT !.inConfig = TRUE])
     ELSE Goto(w, After(w), Concluded(w))
  /\ UNCHANGED <<config, device, stores, open, leaked, alone, lost, had>>

\* The connection breaks, or a question comes that has no answer: the command did what
\* it does, or did not, and nothing more is heard.
FallSilent(w) ==
  /\ Speaking(w)
  /\ Fault
  /\ Effect(w) \/ UNCHANGED <<device, had>>
  /\ Goto(w, pc[w], [job[w] EXCEPT !.silent = TRUE])
  /\ UNCHANGED <<config, stores, open, leaked, alone, deaf, lost>>

\* The deadline of drain and expect.
Deadline(w) ==
  /\ pc[w] \in Dialog \ {"closing"} /\ job[w].silent
  /\ FailWith(w)
  /\ UNCHANGED <<config, device, stores, open, leaked, ghosts, faults>>

\* The finally block: "end", then the channel, then what the dialog had to say.
CloseForgetsFailure(w) ==   \* mutant: a certificate whose deployment failed is not kept
  /\ pc[w] = "closing" /\ (job[w].inConfig => ~job[w].silent)
  /\ Disconnect(w)
  /\ \/ job[w].result = "none" /\ Goto(w, "issuing", job[w])
     \/ job[w].result = "ok" /\ Goto(w, "storing", job[w])
     \/ job[w].result \in {"failed", "raised"} /\ Goto(w, "idle", None)
  /\ UNCHANGED <<config, device, stores, leaked, ghosts, faults>>
Close(w) ==
  /\ pc[w] = "closing" /\ (job[w].inConfig => ~job[w].silent)
  /\ Disconnect(w)
  /\ \/ job[w].result = "none" /\ Goto(w, "issuing", job[w])
     \/ job[w].result \in {"ok", "failed"} /\ Goto(w, "storing", job[w])
     \/ job[w].result = "raised" /\ Goto(w, "idle", None)
  /\ UNCHANGED <<config, device, stores, leaked, ghosts, faults>>

Lose(ws) == lost' = lost \cup ({job[w].cert : w \in ws} \ {0})

\* "end" raises, in place of what was to be returned; the channel is closed still.
CloseLeavesOpen(w) ==   \* mutant: the channel is closed only after "end"
  /\ pc[w] = "closing" /\ job[w].inConfig
  /\ IF job[w].silent THEN UNCHANGED faults ELSE Fault
  /\ Lose({w})
  /\ Goto(w, "idle", None)
  /\ UNCHANGED <<config, device, stores, open, leaked, alone, deaf, had>>
CloseRaises(w) ==
  /\ pc[w] = "closing" /\ job[w].inConfig
  /\ IF job[w].silent THEN UNCHANGED faults ELSE Fault
  /\ Disconnect(w)
  /\ Lose({w})
  /\ Goto(w, "idle", None)
  /\ UNCHANGED <<config, device, stores, leaked, alone, deaf, had>>
-----------------------------------------------------------------------------
\* The rest of renew_and_deploy: the certificate store, then the row, with the status
\* of the host.
Store(w) ==
  /\ pc[w] = "storing"
  /\ Goto(w, "recording", job[w])
  /\ UNCHANGED <<config, device, stores, open, leaked, ghosts, faults>>

Record(w) ==
  /\ pc[w] = "recording"
  /\ rows' = rows \cup {job[w].cert}
  /\ Goto(w, "idle", None)
  /\ UNCHANGED <<config, device, certs, open, leaked, ghosts, faults>>

\* The store raises, or the commit, when the host was deleted.
RecordRaises(w) ==
  /\ pc[w] \in {"storing", "recording"}
  /\ Fault
  /\ Lose({w})
  /\ Goto(w, "idle", None)
  /\ UNCHANGED <<config, device, stores, open, leaked, alone, deaf, had>>

\* The server is restarted; the device stays where its dialog was.
Restart ==
  /\ \E w \in Workers : Busy(w)
  /\ Fault
  /\ Lose({w \in Workers : Busy(w)})
  /\ pc' = [w \in Workers |-> "idle"] /\ job' = [w \in Workers |-> None]
  /\ open' = {} /\ leaked' = 0 /\ alone' = {} /\ deaf' = {}
  /\ UNCHANGED <<config, device, stores, had>>
-----------------------------------------------------------------------------
\* The device starts again between dialogs: what was not saved is gone, keys are kept.
Reload ==
  /\ \A w \in Workers : pc[w] \notin Dialog
  /\ running # startup
  /\ running' = startup
  /\ had' = FALSE /\ alone' = {}
  /\ UNCHANGED <<config, key, startup, keys, stores, pc, job, open, leaked, deaf, lost,
                 faults>>

Run(w) == Issue(w) \/ Open(w) \/ Done(w) \/ Rejected(w) \/ Deadline(w) \/ Close(w)
            \/ CloseRaises(w) \/ Store(w) \/ Record(w)

Next ==
  \/ \E w \in Workers :
       \/ \E mode \in {"device", "local"} : Renew(w, mode)
       \/ Run(w) \/ LoginFails(w) \/ Overheard(w) \/ FallSilent(w) \/ RecordRaises(w)
  \/ Restart \/ Reload

Spec == Init /\ [][Next]_vars
-----------------------------------------------------------------------------
\* The device and the renewals hold values of their types, and a dialog has a channel:
\* no other channel is open, but those of failed logins.
TypeOK ==
  /\ config \subseteq Options
  /\ key \in 0 .. keys /\ keys \in 0 .. MaxKeys
  /\ running \in Side /\ startup \in Side /\ running.cert <= Len(certs)
  /\ certs \in Seq(1 .. MaxKeys) /\ Len(certs) <= MaxCerts
  /\ rows \subseteq DOMAIN certs /\ lost \subseteq DOMAIN certs
  /\ pc \in [Workers -> PC] /\ job \in [Workers -> Job \cup {None}]
  /\ \A w \in Workers : Busy(w) <=> job[w] # None
  /\ open = {w \in Workers : pc[w] \in Dialog}
  /\ leaked \in 0 .. MaxFaults /\ faults \in 0 .. MaxFaults

\* A renewal that reports success, and met no other one, leaves the device with its
\* certificate and the key of it; with HTTPS on it and the configuration saved, if it
\* is to be, unless the device refused one of its commands in words the dialog does not
\* know.  It is still so when that success is recorded.
SuccessIsInstalled ==
  \A w \in Workers :
    Busy(w) /\ job[w].result = "ok" /\ w \in alone =>
      /\ running.cert = job[w].cert /\ Usable
      /\ w \notin deaf => running.https /\ ("write" \in config => startup = running)

\* Renewals that fail, wherever they do, leave the device with a certificate and its
\* key, if it had them: but for regenerate_key, for renewals that overlap, for a reload
\* without a saved configuration, and for a renewal to which the device would not show
\* the list of its keys.
KeepsCertificate == had => Usable

\* The certificate on the device has a row, also when its deployment failed halfway, or
\* is in the hands of a renewal; unless the one renewal that issued it raised, in its
\* dialog's last words, in the store or in the commit, or was cut by a restart.
InstalledIsRecorded ==
  running.cert # 0 =>
    \/ running.cert \in rows \cup lost
    \/ \E w \in Workers : Busy(w) /\ job[w].cert = running.cert
=============================================================================
