-------------------------- MODULE DashboardSettings --------------------------
(***************************************************************************)
(* Configuration: Settings and its cache (config.py), the file below the   *)
(* environment (configfile.py), and its editing from the dashboard         *)
(* (management/settings_api.py, settings_schema.py).                       *)
(*                                                                         *)
(* The dashboard's requests run on the event loop without an await; the    *)
(* threads that order and deploy call get_settings at any time.  A process *)
(* keeps its environment; .env is taken to be part of it.                  *)
(***************************************************************************)
EXTENDS Naturals

CONSTANTS
  Keys,        \* names of settings
  Secrets,     \* SECRET_FIELDS among them
  ExternalUrl, ServiceDomain,   \* external_url, service_domain
  Values,
  Valid,       \* key -> the values its type accepts: any string for a secret
  Usable,      \* key -> the values the server can start with
  Default,     \* key -> its default
  Empty,       \* the empty string
  HostOf,      \* an URL -> the host that urlparse finds; Unset: it raises
  Environments, HandFiles, Bodies,   \* the inputs that are tried
  Mask,        \* what is shown of a secret
  Garbage,     \* a file that is not YAML, or not a mapping
  Threads,
  Unset,
  MaxFileEdits \* bound on edits of the file by hand

VARIABLES
  env,         \* the environment of the process
  file,        \* the configuration file
  cache,       \* config._settings
  server,
  put,         \* the step of a PUT on the event loop
  loads,       \* Settings() under way, per thread and on the loop: what was read
  by,          \* who wrote the file last
  old, late,   \* loads that began before the last save; one of them was stored last
  fileEdits

ghosts == <<by, old, late, fileEdits>>
settingsVars == <<env, file, cache, server, put, loads, ghosts>>

Loop == "loop"
Loaders == Threads \cup {Loop}

Settings == [Keys -> Values]
Partial == [Keys -> Values \cup {Unset}]
Nothing == [k \in Keys |-> Unset]

ASSUME SettingsAssumption ==
  /\ Secrets \subseteq Keys /\ Loop \notin Threads
  /\ {ExternalUrl, ServiceDomain} \subseteq Keys \ Secrets
  /\ Valid \in [Keys -> SUBSET (Values \cup {Mask})]
  /\ HostOf \in [Values -> Values \cup {Unset}]
  /\ Default \in [Keys -> Values] /\ \A k \in Keys : Default[k] \in Valid[k]
  /\ {Mask, Unset} \cap Values = {} /\ Mask # Unset
  /\ Garbage \notin Partial /\ Unset \notin Settings
  /\ MaxFileEdits \in Nat

ValidPart(p) == \A k \in Keys : p[k] # Unset => p[k] \in Valid[k]

\* What the form sends are new values, and secrets as they were shown.
ASSUME InputsAssumption ==
  /\ Environments \subseteq {e \in Partial : ValidPart(e)}
  /\ HandFiles \subseteq Partial \cup {Garbage}
  /\ Bodies \subseteq {v \in [Keys -> Values \cup {Unset, Mask}] :
                         \A k \in Keys \ Secrets : v[k] # Mask}

SettingsInit ==
  /\ env \in Environments
  /\ file = Nothing /\ cache = Unset
  /\ server = "down" /\ put = "idle"
  /\ loads = [l \in Loaders |-> Unset]
  /\ by = "dashboard" /\ old = {} /\ late = FALSE /\ fileEdits = 0
-----------------------------------------------------------------------------
\* Where values come from.

\* load_config_file: what is not a mapping reads as an empty one.
Stored == IF file = Garbage THEN Nothing ELSE file

\* settings_customise_sources: the first source that has the key.
Over(upper, lower) == [k \in Keys |-> IF upper[k] # Unset THEN upper[k] ELSE lower[k]]
Effective(part) == Over(Over(env, part), Default)

\* Each value is of its type, and the host of the server is known or can be told.
Typed(s) == \A k \in Keys : s[k] \in Valid[k]
Accepted(s) ==
  Typed(s) /\ (s[ServiceDomain] = Empty => HostOf[s[ExternalUrl]] # Unset)

\* _default_service_domain
Validated(s) ==
  [k \in Keys |-> IF k = ServiceDomain /\ s[k] = Empty THEN HostOf[s[ExternalUrl]]
                  ELSE s[k]]

Enforced == {k \in Keys : env[k] # Unset}
-----------------------------------------------------------------------------
\* get_settings, on a thread or on the loop: Settings() reads the file, then is stored.

BeginLoad(l) ==
  /\ server = "up" /\ loads[l] = Unset
  /\ l = Loop => put # "saved"
  /\ cache = Unset
  /\ loads' = [loads EXCEPT ![l] = Effective(Stored)]
  /\ UNCHANGED <<env, file, cache, server, put, ghosts>>

\* By now it may be another file that is there.
EndLoad(l) ==
  /\ loads[l] # Unset
  /\ IF Accepted(loads[l])
     THEN cache' = Validated(loads[l]) /\ late' = (l \in old)
     ELSE UNCHANGED <<cache, late>>
  /\ loads' = [loads EXCEPT ![l] = Unset] /\ old' = old \ {l}
  /\ put' = IF l = Loop THEN "idle" ELSE put
  /\ UNCHANGED <<env, file, server, by, fileEdits>>
-----------------------------------------------------------------------------
\* PUT /api/settings.

\* A secret as it was shown is no new value.
IncomingAsSent(values) == values   \* mutant: masks are taken for values
Incoming(values) ==
  [k \in Keys |-> IF k \in Secrets /\ values[k] = Mask THEN Unset ELSE values[k]]

Merged(values, unset) ==
  [k \in Keys |-> IF k \in unset THEN Unset ELSE Over(Incoming(values), Stored)[k]]

\* Settings(**merged): arguments come before the environment.
ChecksNewValues(values, unset) ==   \* mutant: only what was sent is validated
  ValidPart(Incoming(values))
Checks(values, unset) == Accepted(Over(Merged(values, unset), Over(env, Default)))

\* save_config_file: a temporary file that replaces the old one.
Save(f) == file' = f /\ by' = "dashboard"

WriteSettings(values, unset) ==
  LET touched == {k \in Keys : values[k] # Unset} \cup unset
  IN
  /\ server = "up" /\ put = "idle" /\ loads[Loop] = Unset
  /\ touched \cap Enforced = {}
  /\ Checks(values, unset)
  /\ Save(Merged(values, unset))
  /\ old' = {l \in Loaders : loads[l] # Unset}
  /\ put' = "saved"
  /\ UNCHANGED <<env, cache, server, loads, late, fileEdits>>

ResetCacheNever ==   \* mutant: the cache is kept
  /\ put = "saved"
  /\ put' = "idle"
  /\ UNCHANGED <<env, file, cache, server, loads, ghosts>>
ResetCache ==
  /\ put = "saved"
  /\ cache' = Unset
  /\ put' = "describing"
  /\ UNCHANGED <<env, file, server, loads, ghosts>>

\* A thread was first.
Cached ==
  /\ put = "describing" /\ loads[Loop] = Unset
  /\ cache # Unset
  /\ put' = "idle"
  /\ UNCHANGED <<env, file, cache, server, loads, ghosts>>
-----------------------------------------------------------------------------
\* The process and the operator.

\* The port of the URL is a number, the database can be opened.
Starts(s) == Accepted(s) /\ \A k \in Keys : Validated(s)[k] \in Usable[k]

Start ==
  /\ server \in {"down", "failed"}
  /\ IF Starts(Effective(Stored))
     THEN server' = "up" /\ cache' = Validated(Effective(Stored))
     ELSE server' = "failed" /\ UNCHANGED cache
  /\ UNCHANGED <<env, file, put, loads, ghosts>>

Exit ==
  /\ server = "up"
  /\ server' = "down" /\ cache' = Unset /\ put' = "idle"
  /\ loads' = [l \in Loaders |-> Unset] /\ old' = {} /\ late' = FALSE
  /\ UNCHANGED <<env, file, by, fileEdits>>

ChangeEnvironment(e) ==
  /\ server \in {"down", "failed"}
  /\ env' = e
  /\ UNCHANGED <<file, cache, server, put, loads, ghosts>>

\* At any time.
EditFile(f) ==
  /\ fileEdits < MaxFileEdits
  /\ file' = f /\ by' = "hand" /\ fileEdits' = fileEdits + 1
  /\ UNCHANGED <<env, cache, server, put, loads, old, late>>
SettingsNext ==
  \/ \E v \in Bodies, u \in SUBSET Keys : WriteSettings(v, u)
  \/ ResetCache \/ Cached
  \/ \E l \in Loaders : BeginLoad(l) \/ EndLoad(l)
  \/ Start \/ Exit
  \/ \E e \in Environments : ChangeEnvironment(e)
  \/ \E f \in HandFiles : EditFile(f)

SettingsSpec == SettingsInit /\ [][SettingsNext]_settingsVars
-----------------------------------------------------------------------------
\* The layers hold values, and no mask of a secret; a process that does not run
\* holds nothing, and the loop does one thing at a time.
SettingsTypeOK ==
  /\ env \in Environments /\ file \in Partial \cup {Garbage}
  /\ cache \in Settings \cup {Unset}
  /\ server \in {"down", "up", "failed"}
  /\ put \in {"idle", "saved", "describing"}
  /\ loads \in [Loaders -> Settings \cup {Unset}]
  /\ server # "up" =>
       cache = Unset /\ put = "idle" /\ \A l \in Loaders : loads[l] = Unset
  /\ loads[Loop] # Unset => put # "saved"
  /\ by \in {"dashboard", "hand"} /\ late \in BOOLEAN /\ fileEdits \in 0 .. MaxFileEdits
  /\ old \subseteq {l \in Threads : loads[l] # Unset}

\* What the dashboard saves can be loaded: whatever was in the file before by hand,
\* the values in it are of their types, also those that the environment hides; and
\* while nothing in it is hidden, no request of the running server fails for it.
SavedFileLoads ==
  by = "dashboard" =>
    /\ \A e \in Environments : Typed(Over(Over(e, Stored), Default))
    /\ server = "up" /\ (\A k \in Enforced : Stored[k] = Unset) =>
         Accepted(Effective(Stored))

\* settings_api.py:185: validated "so a bad value can't break startup".
SavedFileStarts ==
  server = "failed" /\ by = "dashboard" => ~Starts(Effective(Nothing))

\* After a save the process runs with what was saved, under the environment; unless a
\* thread that began to load before the save stored its copy after it.
CacheIsFresh ==
  by = "dashboard" /\ cache # Unset /\ ~late /\ put # "saved" =>
    cache = Validated(Effective(Stored))
=============================================================================
