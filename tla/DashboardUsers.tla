--------------------------- MODULE DashboardUsers ---------------------------
(***************************************************************************)
(* The accounts of the dashboard and their sessions: users.py, the login   *)
(* gate management/auth.py, the handlers of management/auth_api.py and the *)
(* single sign-on round trip of oidc.py.                                   *)
(*                                                                         *)
(* Every request has a database session of its own: a row it has loaded    *)
(* stays as it was then, and an update writes the attributes that differ   *)
(* from it.  One action is one stretch between two awaits; what happens in *)
(* one transaction is one action.  Of a password only its being there is   *)
(* kept: a login with a wrong one changes nothing.  A person's user name,  *)
(* e-mail address and OIDC subject are all written as the person.          *)
(***************************************************************************)
EXTENDS Naturals, FiniteSets

CONSTANTS
  Visitors,     \* requests that need no login, at the same time
  Admins,       \* requests behind require_admin, at the same time
  People, None,
  AuthRequired, AdminToken,   \* settings: auth_required; an admin_token is set
  AutoCreate,   \* oidc_auto_create_users
  Allowed,      \* oidc_allowed_emails; nobody listed means everybody
  MaxUsers, MaxSessions, MaxEdits, MaxStates   \* bounds: rows made, PATCH requests

Requests == Visitors \cup Admins
Ids == 1 .. MaxUsers
Tokens == 1 .. MaxSessions
States == 1 .. MaxStates

VARIABLES
  users,      \* the app_user table: a row, or None
  created,    \* how many users were ever created; ids are never used again
  sessions,   \* the user_session table
  issued,     \* how many sessions were ever started
  states,     \* the oidc_state table
  codes,      \* authorization codes the provider has exchanged
  pc, job,    \* where each request is, and what it has loaded
  edits       \* PATCH requests that changed something so far

accounts == <<users, created>>
logins == <<sessions, issued>>
sso == <<states, codes>>
vars == <<accounts, logins, sso, pc, job, edits>>

\* "term" counts the administrator's password resets and disablings.
Row == [name: People, email: People \cup {None}, subject: People \cup {None},
        password: BOOLEAN, disabled: BOOLEAN, term: Nat]
Session == [user: Ids, term: Nat, late: BOOLEAN, expired: BOOLEAN]
PC == {"idle", "session", "user", "admitted", "loaded", "rest", "ending",
       "deleting", "creating", "starting", "dropping", "exchanging", "subject",
       "email", "binding"}
\* token: the cookie; me: who is signed in, 0 for nobody; id and row: the user
\* that is worked on, as loaded; new: who is to be created; state, mail: of OIDC,
\* the state and the claim of an e-mail address.
Job == [token: 0 .. MaxSessions, me: 0 .. MaxUsers, id: 0 .. MaxUsers,
        row: Row \cup {None}, new: People \cup {None}, state: 0 .. MaxStates,
        mail: People \cup {None}]
NoJob == [token |-> 0, me |-> 0, id |-> 0, row |-> None, new |-> None, state |-> 0,
          mail |-> None]

ASSUME UsersAssumption ==
  /\ Visitors \cap Admins = {}
  /\ AuthRequired \in BOOLEAN /\ AdminToken \in BOOLEAN /\ AutoCreate \in BOOLEAN
  /\ Allowed \subseteq People
  /\ None \notin People \cup Row \cup Session
  /\ {MaxUsers, MaxSessions, MaxEdits, MaxStates} \subseteq Nat

Present == {i \in Ids : users[i] # None}
Named(p) == {i \in Present : users[i].name = p}
SessionsOf(i) == {t \in Tokens : sessions[t] # None /\ sessions[t].user = i}
Without(ended) == [t \in Tokens |-> IF t \in ended THEN None ELSE sessions[t]]

Init ==
  /\ users = [i \in Ids |-> None] /\ created = 0
  /\ sessions = [t \in Tokens |-> None] /\ issued = 0
  /\ states = [s \in States |-> "unused"] /\ codes = {}
  /\ pc = [r \in Requests |-> "idle"]
  /\ job = [r \in Requests |-> NoJob]
  /\ edits = 0

Goto(r, to, j) ==
  /\ pc' = [pc EXCEPT ![r] = to]
  /\ job' = [job EXCEPT ![r] = j]
Finish(r) == Goto(r, "idle", NoJob)
Loaded(r, i, row) ==
  LET j == job[r]
  IN  [token |-> j.token, me |-> j.me, id |-> i, row |-> row, new |-> j.new,
       state |-> j.state, mail |-> j.mail]
-----------------------------------------------------------------------------
\* Signing in.

\* authenticate, with the right password.
MaySignIn(i) == ~users[i].disabled /\ users[i].password

\* The user is read, then the password verified; one of the users of a name.
Login(r, p) ==
  /\ pc[r] = "idle"
  /\ \E i \in Named(p) :
       /\ MaySignIn(i)
       /\ Goto(r, "starting", Loaded(r, i, users[i]))
  /\ UNCHANGED <<accounts, logins, sso, edits>>

\* One transaction: expired sessions go, the new one comes, and the user's
\* last_login_at is updated, which fails if the user is gone.
StartSession(r) ==
  LET j == job[r]
      expired == {t \in Tokens : sessions[t] # None /\ sessions[t].expired}
      row == [user |-> j.id, term |-> j.row.term, expired |-> FALSE,
              late |-> users[j.id].term # j.row.term]
  IN
  /\ pc[r] = "starting"
  /\ IF j.id \in Present
     THEN /\ issued < MaxSessions
          /\ issued' = issued + 1
          /\ sessions' = [Without(expired) EXCEPT ![issued + 1] = row]
     ELSE UNCHANGED logins
  /\ Finish(r)
  /\ UNCHANGED <<accounts, sso, edits>>

Logout(t) ==
  /\ sessions[t] # None
  /\ sessions' = Without({t})
  /\ UNCHANGED <<accounts, issued, sso, pc, job, edits>>

\* POST /auth/setup: no users were counted.
FirstUser(r, p) ==
  /\ pc[r] = "idle"
  /\ Present = {}
  /\ Goto(r, "creating", [NoJob EXCEPT !.new = p])
  /\ UNCHANGED <<accounts, logins, sso, edits>>

\* create_user: with a password, or for a subject; only add_user starts no session.
CreateUser(r) ==
  LET j == job[r]
      sub == IF j.state # 0 THEN j.new ELSE None
      i == created + 1
  IN
  /\ pc[r] = "creating"
  /\ i \in Ids
  /\ created' = i
  /\ \E email \in IF sub = None THEN {j.new, None} ELSE {j.mail} :
       LET row == [name |-> j.new, email |-> email, subject |-> sub, term |-> 0,
                   password |-> sub = None,
                   disabled |-> FALSE]
       IN  /\ users' = [users EXCEPT ![i] = row]
           /\ IF r \in Visitors THEN Goto(r, "starting", Loaded(r, i, row))
              ELSE Finish(r)
  /\ UNCHANGED <<logins, sso, edits>>
-----------------------------------------------------------------------------
\* Single sign-on.

OidcStart(s) ==
  /\ states[s] = "unused"
  /\ states' = [states EXCEPT ![s] = "open"]
  /\ UNCHANGED <<accounts, logins, codes, pc, job, edits>>

\* The state row is read, then deleted: of two at once both go on.
CallbackReads(r, s) ==
  /\ pc[r] = "idle"
  /\ states[s] \in {"open", "expired"}
  /\ Goto(r, "dropping", [NoJob EXCEPT !.state = s])
  /\ UNCHANGED <<accounts, logins, sso, edits>>

CallbackDrops(r) ==
  LET s == job[r].state
  IN
  /\ pc[r] = "dropping"
  /\ states' = [states EXCEPT ![s] = "dropped"]
  /\ \/ states[s] # "expired" /\ Goto(r, "exchanging", job[r])
     \/ states[s] # "open" /\ Finish(r)
  /\ UNCHANGED <<accounts, logins, codes, edits>>

\* exchange_code: the provider gives a token for a code once.
Redeem(s) == s \notin codes /\ codes' = codes \cup {s}

Claimed(r, p, mail) ==
  [token |-> 0, me |-> 0, id |-> 0, row |-> None, new |-> p, state |-> job[r].state,
   mail |-> mail]

\* The token names a person, if its claims hold, with an e-mail address or without.
Exchange(r) ==
  /\ pc[r] = "exchanging"
  /\ \/ /\ Redeem(job[r].state)
        /\ \E p \in People : \E mail \in {p, None} :
             /\ Allowed = {} \/ mail \in Allowed
             /\ Goto(r, "subject", Claimed(r, p, mail))
     \/ Redeem(job[r].state) /\ Finish(r)
     \/ Finish(r) /\ UNCHANGED codes
  /\ UNCHANGED <<accounts, logins, states, edits>>

\* An account that is found: refused if disabled, bound if it has no subject.
Found(r, i) ==
  IF users[i].disabled THEN Finish(r)
  ELSE Goto(r, IF users[i].subject = None THEN "binding" ELSE "starting",
            Loaded(r, i, users[i]))

\* Nobody is found.
Unknown(r) == IF AutoCreate THEN Goto(r, "creating", job[r]) ELSE Finish(r)

MatchSubject(r) ==
  LET same == {i \in Present : users[i].subject = job[r].new}
  IN
  /\ pc[r] = "subject"
  /\ IF same # {} THEN \E i \in same : Found(r, i)
     ELSE IF job[r].mail # None THEN Goto(r, "email", job[r])
     ELSE Unknown(r)
  /\ UNCHANGED <<accounts, logins, sso, edits>>

MatchEmail(r) ==
  LET same == {i \in Present : users[i].email = job[r].mail}
  IN
  /\ pc[r] = "email"
  /\ IF same # {} THEN \E i \in same : Found(r, i) ELSE Unknown(r)
  /\ UNCHANGED <<accounts, logins, sso, edits>>

BindSubject(r) ==
  LET j == job[r]
  IN
  /\ pc[r] = "binding"
  /\ IF j.id \in Present
     THEN /\ users' = [users EXCEPT ![j.id].subject = j.new]
          /\ Goto(r, "starting", j)
     ELSE UNCHANGED users /\ Finish(r)
  /\ UNCHANGED <<created, logins, sso, edits>>
-----------------------------------------------------------------------------
\* require_admin: the admin token, a session, or nothing where that is allowed.

Bearer(r) ==
  /\ pc[r] = "idle"
  /\ AdminToken
  /\ Goto(r, "admitted", NoJob)
  /\ UNCHANGED <<accounts, logins, sso, edits>>

Cookie(r, t) ==
  /\ pc[r] = "idle"
  /\ Goto(r, "session", [NoJob EXCEPT !.token = t])
  /\ UNCHANGED <<accounts, logins, sso, edits>>

Anonymous(r) ==
  IF AuthRequired \/ AdminToken THEN Finish(r) ELSE Goto(r, "admitted", NoJob)

ReadSession(r) ==
  LET t == job[r].token
      live == t # 0 /\ sessions[t] # None
  IN
  /\ pc[r] = "session"
  /\ IF live /\ ~sessions[t].expired
     THEN Goto(r, "user", [NoJob EXCEPT !.me = sessions[t].user]) /\ UNCHANGED sessions
     ELSE /\ Anonymous(r)
          /\ sessions' = IF live THEN Without({t}) ELSE sessions
  /\ UNCHANGED <<accounts, issued, sso, edits>>

ReadUser(r) ==
  LET i == job[r].me
  IN
  /\ pc[r] = "user"
  /\ IF i \in Present /\ ~users[i].disabled
     THEN Goto(r, "admitted", Loaded(r, i, users[i]))
     ELSE Anonymous(r)
  /\ UNCHANGED <<accounts, logins, sso, edits>>
-----------------------------------------------------------------------------
\* User administration.

AddUser(r, p) ==
  /\ pc[r] = "admitted"
  /\ Named(p) = {}
  /\ Goto(r, "creating", [NoJob EXCEPT !.new = p])
  /\ UNCHANGED <<accounts, logins, sso, edits>>

LoadAny(r, i) ==   \* mutant: no 404 for a user that is not there
  /\ pc[r] = "admitted"
  /\ Goto(r, "loaded", Loaded(r, i, users[i]))
  /\ UNCHANGED <<accounts, logins, sso, edits>>
\* session.get: one's own row was loaded at the gate and is not read again.
LoadUser(r, i) ==
  /\ pc[r] = "admitted"
  /\ i \in Present \/ i = job[r].me
  /\ Goto(r, "loaded", IF i = job[r].me THEN [job[r] EXCEPT !.me = 0]
                       ELSE [Loaded(r, i, users[i]) EXCEPT !.me = 0])
  /\ UNCHANGED <<accounts, logins, sso, edits>>

\* The row with a new hash.
WithPassword(row, term) ==
  [name |-> row.name, email |-> row.email, subject |-> row.subject, password |-> TRUE,
   disabled |-> row.disabled, term |-> term]

\* update_user with a password: the new hash and the end of the user's sessions
\* are one transaction.
SetPasswordOnly(r) ==   \* mutant: the user's sessions go on
  LET i == job[r].id
  IN
  /\ pc[r] = "loaded"
  /\ edits < MaxEdits
  /\ edits' = edits + 1
  /\ IF i \in Present
     THEN /\ users' = [users EXCEPT ![i] = WithPassword(users[i], users[i].term + 1)]
          /\ Goto(r, "rest", job[r])
     ELSE UNCHANGED users /\ Finish(r)
  /\ UNCHANGED <<created, logins, sso>>
SetPassword(r) ==
  LET i == job[r].id
  IN
  /\ pc[r] = "loaded"
  /\ edits < MaxEdits
  /\ edits' = edits + 1
  /\ IF i \in Present
     THEN /\ users' = [users EXCEPT ![i] = WithPassword(users[i], users[i].term + 1)]
          /\ sessions' = Without(SessionsOf(i))
          /\ Goto(r, "rest", job[r])
     ELSE UNCHANGED <<users, sessions>> /\ Finish(r)
  /\ UNCHANGED <<created, issued, sso>>

\* The rest of update_user: an attribute that is not sent, or sent as it was loaded,
\* is not written; only "disabled" that is sent ends sessions.  With the
\* password it is one request, and one edit.
UpdateUser(r) ==
  LET i == job[r].id
      was == job[r].row
  IN
  /\ \/ pc[r] = "loaded" /\ edits < MaxEdits /\ edits' = edits + 1
     \/ pc[r] = "rest" /\ UNCHANGED edits
  /\ \E email \in People \cup {None}, disabled \in BOOLEAN, sent \in BOOLEAN :
       LET row == users[i]
           flips == disabled # was.disabled
           new == [name |-> row.name, subject |-> row.subject, password |-> row.password,
                   email |-> IF email # was.email THEN email ELSE row.email,
                   disabled |-> IF flips THEN disabled ELSE row.disabled,
                   term |-> IF flips /\ disabled THEN row.term + 1 ELSE row.term]
           written == i \in Present \/ (~flips /\ email = was.email)
       IN  /\ flips => sent
           /\ users' = IF i \in Present THEN [users EXCEPT ![i] = new] ELSE users
           /\ sessions' = IF sent /\ disabled /\ written THEN Without(SessionsOf(i))
                          ELSE sessions
  /\ Finish(r)
  /\ UNCHANGED <<created, issued, sso>>

\* POST /auth/password: verified against the row loaded at the gate; the
\* sessions go on.
ChangeOwnPassword(r) ==
  LET i == job[r].me
  IN
  /\ pc[r] = "admitted"
  /\ i # 0 /\ job[r].row.password
  /\ IF i \in Present
     THEN users' = [users EXCEPT ![i] = WithPassword(users[i], users[i].term)]
     ELSE UNCHANGED users
  /\ Finish(r)
  /\ UNCHANGED <<created, logins, sso, edits>>

DeleteCounts(r) ==
  /\ pc[r] = "loaded"
  /\ IF Cardinality(Present) <= 1 THEN Finish(r) ELSE Goto(r, "ending", job[r])
  /\ UNCHANGED <<accounts, logins, sso, edits>>

DeleteEndsSessions(r) ==
  /\ pc[r] = "ending"
  /\ sessions' = Without(SessionsOf(job[r].id))
  /\ Goto(r, "deleting", job[r])
  /\ UNCHANGED <<accounts, issued, sso, edits>>

DeleteRow(r) ==
  /\ pc[r] = "deleting"
  /\ users' = [users EXCEPT ![job[r].id] = None]
  /\ Finish(r)
  /\ UNCHANGED <<created, logins, sso, edits>>
-----------------------------------------------------------------------------
\* Time and restarts.

Expire ==
  /\ \/ \E t \in Tokens :
          /\ sessions[t] # None /\ ~sessions[t].expired
          /\ sessions' = [sessions EXCEPT ![t].expired = TRUE]
          /\ UNCHANGED states
     \/ \E s \in States :
          /\ states[s] = "open"
          /\ states' = [states EXCEPT ![s] = "expired"]
          /\ UNCHANGED sessions
  /\ UNCHANGED <<accounts, issued, codes, pc, job, edits>>

\* The server stops, or the client goes away, between two steps.
Abort(r) ==
  /\ pc[r] # "idle"
  /\ Finish(r)
  /\ UNCHANGED <<accounts, logins, sso, edits>>

Visit(r) ==
  \/ \E p \in People : Login(r, p) \/ FirstUser(r, p)
  \/ \E s \in States : CallbackReads(r, s)
  \/ CallbackDrops(r) \/ Exchange(r) \/ MatchSubject(r) \/ MatchEmail(r)
  \/ BindSubject(r) \/ StartSession(r)

Administer(r) ==
  \/ Bearer(r) \/ ReadSession(r) \/ ReadUser(r)
  \/ \E t \in Tokens : Cookie(r, t)
  \/ \E p \in People : AddUser(r, p)
  \/ \E i \in Ids : LoadUser(r, i)
  \/ SetPassword(r) \/ UpdateUser(r) \/ ChangeOwnPassword(r)
  \/ DeleteCounts(r) \/ DeleteEndsSessions(r) \/ DeleteRow(r)

Next ==
  \/ \E r \in Visitors : Visit(r)
  \/ \E r \in Admins : Administer(r)
  \/ \E r \in Requests : CreateUser(r) \/ Abort(r)
  \/ \E t \in Tokens : Logout(t)
  \/ \E s \in States : OidcStart(s)
  \/ Expire

Spec == Init /\ [][Next]_vars
-----------------------------------------------------------------------------
\* Tables hold rows of their types, numbered as made; a request that works on a
\* user has that user's row as loaded.
TypeOK ==
  /\ created \in 0 .. MaxUsers /\ issued \in 0 .. MaxSessions
  /\ edits \in 0 .. MaxEdits
  /\ users \in [Ids -> Row \cup {None}] /\ Present \subseteq 1 .. created
  /\ sessions \in [Tokens -> Session \cup {None}]
  /\ states \in [States -> {"unused", "open", "expired", "dropped"}]
  /\ codes \subseteq States
  /\ pc \in [Requests -> PC] /\ job \in [Requests -> Job]
  /\ \A r \in Requests :
       /\ pc[r] = "creating" => job[r].new # None
       /\ pc[r] \in {"loaded", "rest", "ending", "deleting", "starting", "binding"}
            => job[r].id # 0 /\ job[r].row # None
       /\ pc[r] = "binding" => job[r].new # None
       /\ pc[r] = "user" => job[r].me # 0

\* A session of a user stays only until an administrator sets the user's password
\* or disables the user: the sessions of before are gone, even when the user is
\* enabled again.  Only a login that had read the user before ("late") is left.
SessionsRevoked ==
  \A t \in Tokens :
    LET s == sessions[t]
    IN  s # None /\ s.user \in Present => s.late \/ s.term = users[s.user].term

\* auth_api.py:238: "Refusing to delete the last user; you would be locked out":
\* the table of users is never emptied.
LastUserStays == [][Present # {} => Present' # {}]_users

\* users.py:79: "First OIDC login for someone who already has a local account:
\* adopt it rather than creating a duplicate."
LocalAccountAdopted ==
  [][\A i \in Present' \ Present : users'[i].subject # None =>
       ~ \E j \in Present : users[j].name = users'[i].name]_users
=============================================================================
