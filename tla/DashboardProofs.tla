-------------------------- MODULE DashboardProofs --------------------------
(***************************************************************************)
(* The dashboard: its users and their sessions, for any number of users,   *)
(* sessions, visitors and administrators at the same time; and the         *)
(* settings it edits, for any settings, values and number of threads.      *)
(***************************************************************************)
EXTENDS DashboardUsers, DashboardSettings, FiniteSetTheorems, TLAPS

\* The tables, and that a session is of a user there has been.
Tables ==
  /\ created \in 0 .. MaxUsers /\ issued \in 0 .. MaxSessions /\ edits \in 0 .. MaxEdits
  /\ users \in [Ids -> Row \cup {None}]
  /\ \A i \in Ids : i > created => users[i] = None
  /\ sessions \in [Tokens -> Session \cup {None}]
  /\ \A t \in Tokens : sessions[t] # None => sessions[t].user <= created
  /\ states \in [States -> {"unused", "open", "expired", "dropped"}]
  /\ codes \subseteq States

\* What a request has loaded where it is, when n users have been created: a person to
\* create or to find, a user to work on, a state, an administrator with a row.
JobAt(n, at, j) ==
  /\ at \in PC /\ j \in Job /\ j.id <= n /\ j.me <= n
  /\ at \in {"creating", "subject", "email", "binding"} => j.new # None
  /\ at \in {"loaded", "rest", "ending", "deleting", "starting", "binding"} =>
       j.id # 0 /\ j.row # None
  /\ at \in {"dropping", "exchanging"} => j.state # 0
  /\ at = "user" => j.me # 0
  /\ at = "admitted" /\ j.me # 0 => j.id = j.me /\ j.row # None
Jobs ==
  /\ pc \in [Requests -> PC] /\ job \in [Requests -> Job]
  /\ \A r \in Requests : JobAt(created, pc[r], job[r])

Inv == Tables /\ Jobs /\ SessionsRevoked

\* What is assumed of the constants, and where the numbers are.
LEMMA Numbers ==
  /\ MaxUsers \in Nat /\ MaxSessions \in Nat /\ MaxEdits \in Nat /\ MaxStates \in Nat
  /\ None \notin People /\ None \notin Row /\ None \notin Session
  /\ \A r \in Visitors : r \notin Admins
  BY UsersAssumption

\* Jobs that are built, field by field.
LEMMA NewJobs ==
  /\ NoJob \in Job /\ NoJob.id = 0 /\ NoJob.me = 0
  /\ \A p \in People :
       /\ [NoJob EXCEPT !.new = p] \in Job /\ [NoJob EXCEPT !.new = p].id = 0
       /\ [NoJob EXCEPT !.new = p].me = 0 /\ [NoJob EXCEPT !.new = p].new = p
  /\ \A s \in States :
       /\ [NoJob EXCEPT !.state = s] \in Job /\ [NoJob EXCEPT !.state = s].id = 0
       /\ [NoJob EXCEPT !.state = s].me = 0 /\ [NoJob EXCEPT !.state = s].state = s
  /\ \A t \in Tokens :
       /\ [NoJob EXCEPT !.token = t] \in Job /\ [NoJob EXCEPT !.token = t].id = 0
       /\ [NoJob EXCEPT !.token = t].me = 0
  /\ \A i \in Ids :
       /\ [NoJob EXCEPT !.me = i] \in Job /\ [NoJob EXCEPT !.me = i].id = 0
       /\ [NoJob EXCEPT !.me = i].me = i
  BY Numbers DEF NoJob, Job, States, Tokens, Ids

LEMMA ChangedJobs ==
  ASSUME NEW j \in Job
  PROVE  /\ [j EXCEPT !.me = 0] \in Job /\ [j EXCEPT !.me = 0].me = 0
         /\ [j EXCEPT !.me = 0].id = j.id /\ [j EXCEPT !.me = 0].row = j.row
<1>1. 0 \in 0 .. MaxUsers
  BY Numbers DEF Job
<1> QED
  BY <1>1 DEF Job

\* Whom the provider names.
LEMMA ClaimedJobs ==
  ASSUME NEW r \in Requests, job[r] \in Job, NEW p \in People,
         NEW m \in People \cup {None}
  PROVE  /\ Claimed(r, p, m) \in Job /\ Claimed(r, p, m).new = p
         /\ Claimed(r, p, m).id = 0 /\ Claimed(r, p, m).me = 0
         /\ Claimed(r, p, m).state = job[r].state
  BY Numbers DEF Claimed, Job

LEMMA LoadedJobs ==
  ASSUME NEW r \in Requests, job[r] \in Job, NEW i \in 0 .. MaxUsers,
         NEW row \in Row \cup {None}
  PROVE  /\ Loaded(r, i, row) \in Job /\ Loaded(r, i, row).id = i
         /\ Loaded(r, i, row).row = row /\ Loaded(r, i, row).me = job[r].me
         /\ Loaded(r, i, row).new = job[r].new /\ Loaded(r, i, row).state = job[r].state
  BY DEF Loaded, Job

LEMMA InvInit == Init => Inv
<1> SUFFICES ASSUME Init PROVE Inv
  OBVIOUS
<1>1. Tables
  BY Numbers DEF Init, Tables, Ids, Tokens, States
<1>2. /\ pc = [r \in Requests |-> "idle"] /\ job = [r \in Requests |-> NoJob] /\ created = 0
  BY DEF Init
<1>3. \A r \in Requests : JobAt(created, pc[r], job[r])
  BY <1>2, NewJobs DEF JobAt, PC
<1>4. Jobs
  BY <1>2, <1>3, NewJobs DEF Jobs, PC
<1>5. SessionsRevoked
  BY DEF Init, SessionsRevoked
<1> QED
  BY <1>1, <1>4, <1>5 DEF Inv

\* Where a request is, and with what.
LEMMA Here ==
  ASSUME Inv, NEW r \in Requests
  PROVE  /\ JobAt(created, pc[r], job[r]) /\ job[r] \in Job /\ pc[r] \in PC
         /\ created \in Nat /\ created <= MaxUsers
         /\ job[r].id \in Nat /\ job[r].me \in Nat
         /\ job[r].id <= created /\ job[r].me <= created
  BY Numbers DEF Inv, Jobs, Tables, JobAt, Job

\* One request goes on, and more users may have been created.
LEMMA JobsStep ==
  ASSUME Inv, NEW r \in Requests, NEW at, NEW j, Goto(r, at, j),
         created' \in Nat, created <= created', JobAt(created', at, j)
  PROVE  Jobs'
<1>1. pc'[r] = at /\ job'[r] = j /\ \A q \in Requests : q # r => pc'[q] = pc[q] /\ job'[q] = job[q]
  BY DEF Goto, Inv, Jobs
<1>2. pc' \in [Requests -> PC] /\ job' \in [Requests -> Job]
  BY DEF Goto, Inv, Jobs, JobAt
<1>3. ASSUME NEW q \in Requests, q # r
      PROVE  JobAt(created', pc'[q], job'[q])
  <2>1. pc'[q] = pc[q] /\ job'[q] = job[q]
    BY <1>1, <1>3
  <2>2. /\ JobAt(created, pc[q], job[q]) /\ created \in Nat
        /\ job[q].id \in Nat /\ job[q].me \in Nat
    BY Here
  <2> QED
    BY <2>1, <2>2 DEF JobAt
<1> QED
  BY <1>1, <1>2, <1>3 DEF Jobs

\* A request ends.
LEMMA Ends ==
  ASSUME Inv, NEW r \in Requests, Finish(r), created' = created
  PROVE  Jobs'
<1>1. JobAt(created', "idle", NoJob) /\ created' \in Nat /\ created <= created'
  BY NewJobs, Here DEF JobAt, PC
<1> QED
  BY <1>1, JobsStep DEF Finish

\* The tables are as they were, but for the single sign-on and the count of edits.
LEMMA Untouched ==
  ASSUME Inv, UNCHANGED <<accounts, logins, sso, edits>>, Jobs'
  PROVE  Inv'
<1>1. Tables' /\ SessionsRevoked'
  BY DEF Inv, Tables, SessionsRevoked, Present, accounts, logins, sso
<1> QED
  BY <1>1 DEF Inv

\* A step of a request that only goes on.
LEMMA GoesOn ==
  ASSUME Inv, NEW r \in Requests, NEW at, NEW j, Goto(r, at, j), JobAt(created, at, j),
         UNCHANGED <<accounts, logins, sso, edits>>
  PROVE  Inv'
<1>1. created' = created /\ created \in Nat
  BY Here DEF accounts
<1> QED
  BY <1>1, JobsStep, Untouched

LEMMA Stops ==
  ASSUME Inv, NEW r \in Requests, Finish(r), UNCHANGED <<accounts, logins, sso, edits>>
  PROVE  Inv'
  BY Ends, Untouched DEF accounts

\* Sessions that end.
LEMMA EndSessions ==
  ASSUME Inv, NEW E, sessions' = Without(E) \/ sessions' = sessions
  PROVE  /\ sessions' \in [Tokens -> Session \cup {None}]
         /\ \A t \in Tokens : sessions'[t] # None => sessions'[t] = sessions[t]
         /\ sessions' = Without(E) => \A t \in E \cap Tokens : sessions'[t] = None
  BY Numbers DEF Inv, Tables, Without

\* A user who is present has a row.
LEMMA PresentRow ==
  ASSUME Inv
  PROVE  /\ Present \in SUBSET Ids
         /\ \A i \in Present : users[i] \in Row /\ i <= created /\ i \in 0 .. MaxUsers /\ i # 0
         /\ \A p : Named(p) \in SUBSET Present
<1>1. \A i \in Present : i \in Ids /\ users[i] # None
  BY DEF Present
<1>2. \A i \in Ids : i \in 1 .. MaxUsers /\ i > created => users[i] = None
  BY DEF Inv, Tables, Ids
<1>3. created \in Nat /\ MaxUsers \in Nat
  BY Numbers DEF Inv, Tables
<1> QED
  BY <1>1, <1>2, <1>3 DEF Inv, Tables, Named, Ids

\* What the users' table may go through: who was there stays, with the same term, unless
\* its sessions end, or it goes.
LEMMA TablesStep ==
  ASSUME Inv, Jobs', NEW i \in Ids, NEW row \in Row \cup {None},
         users' = [users EXCEPT ![i] = row],
         row # None => i <= created',
         created' \in 0 .. MaxUsers, created <= created',
         \A t \in Tokens : sessions'[t] # None => sessions'[t] = sessions[t],
         sessions' \in [Tokens -> Session \cup {None}],
         \/ row = None
         \/ i > created
         \/ users[i] # None /\ row.term = users[i].term
         \/ \A t \in Tokens : sessions'[t] # None => sessions'[t].user # i,
         issued' = issued, UNCHANGED sso, edits' \in 0 .. MaxEdits
  PROVE  Inv'
<1>1. /\ created \in Nat /\ created' \in Nat /\ MaxUsers \in Nat /\ i \in Nat
      /\ users' \in [Ids -> Row \cup {None}] /\ users'[i] = row
      /\ \A k \in Ids : k # i => users'[k] = users[k]
  BY Numbers DEF Inv, Tables, Ids
<1>2. \A k \in Ids : k > created' => users'[k] = None
  BY <1>1 DEF Inv, Tables, Ids
<1>3. \A t \in Tokens : sessions'[t] # None =>
        sessions[t] # None /\ sessions'[t] = sessions[t] /\ sessions[t].user \in Ids
        /\ sessions[t].user <= created
  BY DEF Inv, Tables, Session
<1>4. \A t \in Tokens : sessions'[t] # None => sessions'[t].user <= created'
  BY <1>1, <1>3 DEF Ids
<1>5. Tables'
  BY <1>1, <1>2, <1>4 DEF Inv, Tables, sso
<1>6. SessionsRevoked'
  <2> SUFFICES ASSUME NEW t \in Tokens, sessions'[t] # None, users'[sessions'[t].user] # None
               PROVE  sessions'[t].late \/ sessions'[t].term = users'[sessions'[t].user].term
    BY DEF SessionsRevoked, Present
  <2>1. PICK u \in Ids : u = sessions[t].user
    BY <1>3
  <2>2. sessions'[t] = sessions[t] /\ sessions[t] # None /\ u <= created
    BY <1>3, <2>1
  <2>3. users[u] # None => sessions[t].late \/ sessions[t].term = users[u].term
    BY <2>1, <2>2 DEF Inv, SessionsRevoked, Present
  <2>4. CASE u # i
    BY <1>1, <2>1, <2>2, <2>3, <2>4
  <2>5. CASE u = i
    <3>1. users'[i] # None /\ row # None /\ users'[i] = row
      BY <1>1, <2>1, <2>2, <2>5
    <3>2. i <= created
      BY <2>2, <2>5
    <3>3. sessions'[t].user = i
      BY <2>1, <2>2, <2>5
    <3>4. users[i] # None /\ row.term = users[i].term
      BY <1>1, <3>1, <3>2, <3>3
    <3> QED
      BY <2>1, <2>2, <2>3, <2>5, <3>1, <3>4
  <2> QED
    BY <2>4, <2>5
<1> QED
  BY <1>5, <1>6 DEF Inv
-----------------------------------------------------------------------------
\* Signing in.

LEMMA LoginInv ==
  ASSUME Inv, NEW r \in Requests, NEW p \in People, Login(r, p)
  PROVE  Inv'
<1>1. PICK i \in Named(p) : Goto(r, "starting", Loaded(r, i, users[i]))
  BY DEF Login
<1>2. i \in Present /\ users[i] \in Row /\ i <= created /\ i \in 0 .. MaxUsers /\ i # 0
  BY PresentRow
<1>3. JobAt(created, "starting", Loaded(r, i, users[i]))
  BY <1>2, Here, LoadedJobs, Numbers DEF JobAt, PC
<1> QED
  BY <1>1, <1>3, GoesOn DEF Login

LEMMA StartSessionInv ==
  ASSUME Inv, NEW r \in Requests, StartSession(r)
  PROVE  Inv'
<1> DEFINE expired == {t \in Tokens : sessions[t] # None /\ sessions[t].expired}
           stale == users[job[r].id].term # job[r].row.term
           row == [user |-> job[r].id, term |-> job[r].row.term, expired |-> FALSE,
                   late |-> stale]
<1>1. /\ job[r].id # 0 /\ job[r].row # None /\ job[r] \in Job /\ job[r].id <= created
      /\ pc[r] = "starting"
  BY Here DEF StartSession, JobAt
<1>2. job[r].id \in Ids /\ job[r].row \in Row /\ job[r].row.term \in Nat
  BY <1>1, Numbers DEF Job, Ids, Row
<1>3. UNCHANGED <<accounts, sso, edits>> /\ Jobs'
  BY Ends DEF StartSession, accounts
<1>4. CASE job[r].id \notin Present
  BY <1>3, <1>4, Untouched DEF StartSession, logins
<1>5. CASE job[r].id \in Present
  <2>1. /\ issued < MaxSessions /\ issued' = issued + 1
        /\ sessions' = [Without(expired) EXCEPT ![issued + 1] = row]
    BY <1>5 DEF StartSession
  <2>2. /\ issued \in Nat /\ issued + 1 \in Tokens
        /\ sessions \in [Tokens -> Session \cup {None}]
    BY <2>1, Numbers DEF Inv, Tables, Tokens
  <2>3. row \in Session /\ row.user = job[r].id /\ row.late = stale
        /\ row.term = job[r].row.term /\ row # None
    <3> HIDE DEF stale
    <3>1. stale \in BOOLEAN
      BY DEF stale
    <3>2. row \in Session
      BY <1>2, <3>1 DEF Session
    <3> QED
      BY <3>2, Numbers
  <2> HIDE DEF row, expired
  <2>4. Without(expired) \in [Tokens -> Session \cup {None}]
    BY <2>2 DEF Without
  <2>5. /\ sessions' \in [Tokens -> Session \cup {None}] /\ sessions'[issued + 1] = row
        /\ \A t \in Tokens : t # issued + 1 =>
             sessions'[t] = None \/ sessions'[t] = sessions[t]
    BY <2>1, <2>2, <2>3, <2>4 DEF Without
  <2>6. \A t \in Tokens : sessions'[t] # None => sessions'[t].user <= created
    BY <1>1, <2>3, <2>5 DEF Inv, Tables
  <2>7. Tables'
    BY <1>3, <2>1, <2>2, <2>5, <2>6, Numbers DEF Inv, Tables, accounts, sso
  <2>8. ASSUME NEW t \in Tokens, sessions'[t] # None, sessions'[t].user \in Present
        PROVE  sessions'[t].late \/ sessions'[t].term = users[sessions'[t].user].term
    <3>1. CASE t # issued + 1
      BY <2>5, <2>8, <3>1 DEF Inv, SessionsRevoked
    <3>2. CASE t = issued + 1
      <4>1. stale \/ users[job[r].id].term = job[r].row.term
        BY DEF stale
      <4> QED
        BY <2>3, <2>5, <3>2, <4>1
    <3> QED
      BY <3>1, <3>2
  <2>9. SessionsRevoked'
    BY <1>3, <2>8 DEF SessionsRevoked, Present, accounts
  <2> QED
    BY <1>3, <2>7, <2>9 DEF Inv
<1> QED
  BY <1>4, <1>5

\* Sessions end or expire, and no user is touched.
LEMMA SessionsStep ==
  ASSUME Inv, Jobs', UNCHANGED <<accounts, issued, sso, edits>>,
         sessions' \in [Tokens -> Session \cup {None}],
         \A t \in Tokens : sessions'[t] # None =>
           /\ sessions[t] # None
           /\ sessions'[t].user = sessions[t].user /\ sessions'[t].term = sessions[t].term
           /\ sessions'[t].late = sessions[t].late
  PROVE  Inv'
<1>1. Tables'
  BY DEF Inv, Tables, accounts, sso
<1>2. SessionsRevoked'
  BY DEF Inv, SessionsRevoked, Present, accounts
<1> QED
  BY <1>1, <1>2 DEF Inv

\* A step that is about no request.
LEMMA JobsStay ==
  ASSUME Inv, UNCHANGED <<pc, job, created>>
  PROVE  Jobs'
  BY DEF Inv, Jobs

LEMMA LogoutInv ==
  ASSUME Inv, NEW t \in Tokens, Logout(t)
  PROVE  Inv'
<1>1. Jobs'
  BY JobsStay DEF Logout, accounts
<1>2. /\ sessions' \in [Tokens -> Session \cup {None}]
      /\ \A k \in Tokens : sessions'[k] # None => sessions'[k] = sessions[k]
  BY EndSessions DEF Logout
<1> QED
  BY <1>1, <1>2, SessionsStep DEF Logout

LEMMA FirstUserInv ==
  ASSUME Inv, NEW r \in Requests, NEW p \in People, FirstUser(r, p)
  PROVE  Inv'
<1>1. JobAt(created, "creating", [NoJob EXCEPT !.new = p])
  BY NewJobs, Here, Numbers DEF JobAt, PC
<1> QED
  BY <1>1, GoesOn DEF FirstUser

LEMMA CreateUserInv ==
  ASSUME Inv, NEW r \in Requests, CreateUser(r)
  PROVE  Inv'
<1> DEFINE i == created + 1
           sub == IF job[r].state # 0 THEN job[r].new ELSE None
<1>1. /\ pc[r] = "creating" /\ job[r].new \in People /\ job[r] \in Job
      /\ i \in Ids /\ created' = i /\ created \in Nat /\ UNCHANGED <<logins, sso, edits>>
  BY Here DEF CreateUser, JobAt, Job
<1>2. sub \in People \cup {None} /\ (sub = None) \in BOOLEAN
  BY <1>1
<1>3. PICK email \in IF sub = None THEN {job[r].new, None} ELSE {job[r].mail} :
        LET row == [name |-> job[r].new, email |-> email, subject |-> sub, term |-> 0,
                    password |-> sub = None, disabled |-> FALSE]
        IN  /\ users' = [users EXCEPT ![i] = row]
            /\ IF r \in Visitors THEN Goto(r, "starting", Loaded(r, i, row)) ELSE Finish(r)
  BY DEF CreateUser
<1> DEFINE row == [name |-> job[r].new, email |-> email, subject |-> sub, term |-> 0,
                   password |-> sub = None, disabled |-> FALSE]
<1>4. /\ users' = [users EXCEPT ![i] = row]
      /\ Goto(r, "starting", Loaded(r, i, row)) \/ Finish(r)
  BY <1>3
<1>5. row \in Row
  <2> DEFINE given == sub = None
  <2>1. given \in BOOLEAN
    OBVIOUS
  <2> HIDE DEF given, sub
  <2>2. email \in People \cup {None}
    BY <1>1 DEF Job
  <2>3. [name |-> job[r].new, email |-> email, subject |-> sub, term |-> 0,
         password |-> given, disabled |-> FALSE] \in Row
    BY <1>1, <1>2, <2>1, <2>2 DEF Row
  <2> QED
    BY <2>3 DEF given
<1> HIDE DEF row
<1>6. i \in 0 .. MaxUsers /\ i # 0 /\ i > created /\ i \in Nat
  BY <1>1, Numbers DEF Ids
<1>7. Jobs'
  <2>1. JobAt(i, "starting", Loaded(r, i, row))
    BY <1>1, <1>5, <1>6, Here, LoadedJobs, Numbers DEF JobAt, PC
  <2>2. JobAt(i, "idle", NoJob)
    BY <1>6, NewJobs DEF JobAt, PC
  <2> QED
    BY <1>1, <1>4, <1>6, <2>1, <2>2, JobsStep DEF Finish
<1>8. /\ sessions' \in [Tokens -> Session \cup {None}] /\ sessions' = sessions
      /\ edits' \in 0 .. MaxEdits /\ issued' = issued
  BY <1>1 DEF Inv, Tables, logins
<1>9. created' \in 0 .. MaxUsers /\ created <= created' /\ i <= created' /\ UNCHANGED sso
  BY <1>1, <1>6
<1> HIDE DEF i
<1> QED
  BY <1>1, <1>4, <1>5, <1>6, <1>7, <1>8, <1>9, TablesStep
-----------------------------------------------------------------------------
\* Single sign-on.

\* Only the states and the codes change.
LEMMA SsoStep ==
  ASSUME Inv, Jobs', UNCHANGED <<accounts, logins, edits>>,
         states' \in [States -> {"unused", "open", "expired", "dropped"}],
         codes' \subseteq States
  PROVE  Inv'
<1>1. Tables' /\ SessionsRevoked'
  BY DEF Inv, Tables, SessionsRevoked, Present, accounts, logins
<1> QED
  BY <1>1 DEF Inv

LEMMA OidcStartInv ==
  ASSUME Inv, NEW s \in States, OidcStart(s)
  PROVE  Inv'
<1>1. Jobs'
  BY JobsStay DEF OidcStart, accounts
<1> QED
  BY <1>1, SsoStep DEF OidcStart, Inv, Tables

LEMMA CallbackInv ==
  ASSUME Inv, NEW r \in Requests, NEW s \in States, CallbackReads(r, s)
  PROVE  Inv'
<1>1. JobAt(created, "dropping", [NoJob EXCEPT !.state = s])
  BY NewJobs, Here, Numbers DEF JobAt, PC, States
<1> QED
  BY <1>1, GoesOn DEF CallbackReads

\* The state of a callback.
LEMMA ItsState ==
  ASSUME Inv, NEW r \in Requests, pc[r] \in {"dropping", "exchanging"}
  PROVE  job[r].state \in States
  BY Here, Numbers DEF JobAt, Job, States

LEMMA CallbackDropsInv ==
  ASSUME Inv, NEW r \in Requests, CallbackDrops(r)
  PROVE  Inv'
<1>1. /\ pc[r] = "dropping" /\ UNCHANGED <<accounts, logins, codes, edits>>
      /\ states' = [states EXCEPT ![job[r].state] = "dropped"]
      /\ Goto(r, "exchanging", job[r]) \/ Finish(r)
  BY DEF CallbackDrops
<1>2. JobAt(created, "exchanging", job[r])
  BY <1>1, Here DEF JobAt, PC
<1>3. Jobs'
  BY <1>1, <1>2, Here, JobsStep, Ends DEF accounts
<1> QED
  BY <1>1, <1>3, SsoStep DEF Inv, Tables

LEMMA ExchangeInv ==
  ASSUME Inv, NEW r \in Requests, Exchange(r)
  PROVE  Inv'
<1>1. /\ pc[r] = "exchanging" /\ UNCHANGED <<accounts, logins, states, edits>>
      /\ codes' = codes \/ codes' = codes \cup {job[r].state}
      /\ \/ Finish(r)
         \/ \E p \in People, m \in People \cup {None} :
              Goto(r, "subject", Claimed(r, p, m))
  BY DEF Exchange, Redeem
<1>2. codes' \subseteq States
  BY <1>1, ItsState DEF Inv, Tables
<1>3. ASSUME NEW p \in People, NEW m \in People \cup {None},
             Goto(r, "subject", Claimed(r, p, m))
      PROVE  Jobs'
  <2>1. JobAt(created, "subject", Claimed(r, p, m))
    BY <1>1, Here, ClaimedJobs, Numbers DEF JobAt, PC
  <2> QED
    BY <1>1, <1>3, <2>1, Here, JobsStep DEF accounts
<1>4. Jobs'
  BY <1>1, <1>3, Ends DEF accounts
<1>5. states' \in [States -> {"unused", "open", "expired", "dropped"}]
  BY <1>1 DEF Inv, Tables
<1> QED
  BY <1>1, <1>2, <1>4, <1>5, SsoStep

LEMMA FoundInv ==
  ASSUME Inv, NEW r \in Requests, pc[r] \in {"subject", "email"}, NEW i \in Present,
         Found(r, i), UNCHANGED <<accounts, logins, sso, edits>>
  PROVE  Inv'
<1>1. users[i] \in Row /\ i <= created /\ i \in 0 .. MaxUsers /\ i # 0
  BY PresentRow
<1>2. job[r].new # None
  BY Here DEF JobAt
<1>3. /\ JobAt(created, "binding", Loaded(r, i, users[i]))
      /\ JobAt(created, "starting", Loaded(r, i, users[i]))
  BY <1>1, <1>2, Here, LoadedJobs, Numbers DEF JobAt, PC
<1>4. \/ Finish(r) \/ Goto(r, "binding", Loaded(r, i, users[i]))
      \/ Goto(r, "starting", Loaded(r, i, users[i]))
  BY DEF Found
<1> QED
  BY <1>3, <1>4, GoesOn, Stops

LEMMA MatchInv ==
  ASSUME Inv, NEW r \in Requests, MatchSubject(r) \/ MatchEmail(r)
  PROVE  Inv'
<1>1. /\ pc[r] \in {"subject", "email"} /\ UNCHANGED <<accounts, logins, sso, edits>>
      /\ \/ \E i \in Present : Found(r, i)
         \/ Goto(r, "email", job[r]) \/ Goto(r, "creating", job[r]) \/ Finish(r)
  BY DEF MatchSubject, MatchEmail, Unknown
<1>2. JobAt(created, "email", job[r]) /\ JobAt(created, "creating", job[r])
  BY <1>1, Here DEF JobAt, PC
<1> QED
  BY <1>1, <1>2, FoundInv, GoesOn, Stops

LEMMA BindSubjectInv ==
  ASSUME Inv, NEW r \in Requests, BindSubject(r)
  PROVE  Inv'
<1>1. pc[r] = "binding" /\ UNCHANGED <<created, logins, sso, edits>>
  BY DEF BindSubject
<1>2. job[r].new \in People /\ JobAt(created, "starting", job[r]) /\ created \in Nat
  BY <1>1, Here DEF JobAt, Job, PC
<1>3. CASE job[r].id \notin Present
  BY <1>1, <1>3, Stops DEF BindSubject, accounts
<1>4. CASE job[r].id \in Present
  <2>1. PICK i \in Ids : i = job[r].id
    BY <1>4 DEF Present
  <2>2. Goto(r, "starting", job[r])
    BY <1>4 DEF BindSubject
  <2>3. Jobs'
    BY <1>1, <1>2, <2>2, JobsStep
  <2>4. users[i] \in Row /\ users[i] # None /\ i <= created
    BY <1>4, <2>1, PresentRow, Numbers
  <2>5. PICK row : row = [users[i] EXCEPT !.subject = job[r].new]
    OBVIOUS
  <2>6. row \in Row /\ row.term = users[i].term /\ row # None
    <3>1. row \in Row /\ row.term = users[i].term
      BY <1>2, <2>4, <2>5 DEF Row
    <3> QED
      BY <3>1, Numbers
  <2>7. users' = [users EXCEPT ![i] = row]
    BY <1>4, <2>1, <2>5 DEF BindSubject
  <2>8. /\ created' \in 0 .. MaxUsers /\ created <= created' /\ i <= created'
        /\ edits' \in 0 .. MaxEdits /\ sessions' = sessions /\ issued' = issued
        /\ sessions' \in [Tokens -> Session \cup {None}]
    BY <1>1, <2>4 DEF Inv, Tables, logins
  <2> QED
    BY <1>1, <2>3, <2>4, <2>6, <2>7, <2>8, TablesStep
<1> QED
  BY <1>3, <1>4
-----------------------------------------------------------------------------
\* require_admin and the administration of users.

LEMMA AnonymousJobs ==
  ASSUME Inv, NEW r \in Requests, Anonymous(r), created' = created
  PROVE  Jobs'
<1>1. JobAt(created, "admitted", NoJob) /\ created \in Nat
  BY NewJobs, Here DEF JobAt, PC
<1> QED
  BY <1>1, JobsStep, Ends DEF Anonymous

LEMMA GateInv ==
  ASSUME Inv, NEW r \in Requests, Bearer(r) \/ \E t \in Tokens : Cookie(r, t)
  PROVE  Inv'
<1>1. /\ JobAt(created, "admitted", NoJob)
      /\ \A t \in Tokens : JobAt(created, "session", [NoJob EXCEPT !.token = t])
  BY NewJobs, Here DEF JobAt, PC
<1> QED
  BY <1>1, GoesOn DEF Bearer, Cookie

LEMMA ReadSessionInv ==
  ASSUME Inv, NEW r \in Requests, ReadSession(r)
  PROVE  Inv'
<1>1. PICK t : t = job[r].token
  OBVIOUS
<1>2. /\ UNCHANGED <<accounts, issued, sso, edits>>
      /\ \/ /\ t # 0 /\ sessions[t] # None /\ UNCHANGED sessions
            /\ Goto(r, "user", [NoJob EXCEPT !.me = sessions[t].user])
         \/ Anonymous(r) /\ (sessions' = Without({t}) \/ sessions' = sessions)
  BY <1>1 DEF ReadSession
<1>3. /\ sessions' \in [Tokens -> Session \cup {None}]
      /\ \A k \in Tokens : sessions'[k] # None => sessions'[k] = sessions[k]
  <2>1. PICK E : E = {t}
    OBVIOUS
  <2>2. sessions' = Without(E) \/ sessions' = sessions
    BY <1>2, <2>1
  <2> QED
    BY <2>2, EndSessions
<1>4. Jobs'
  <2>1. CASE Anonymous(r)
    BY <1>2, <2>1, AnonymousJobs DEF accounts
  <2>2. CASE /\ t # 0 /\ sessions[t] # None
             /\ Goto(r, "user", [NoJob EXCEPT !.me = sessions[t].user])
    <3>1. t \in Tokens
      <4>1. t \in 0 .. MaxSessions
        BY <1>1, Here DEF Job
      <4> QED
        BY <2>2, <4>1, Numbers DEF Tokens
    <3>2. PICK u \in Ids : u = sessions[t].user
      BY <2>2, <3>1, Numbers DEF Inv, Tables, Session
    <3>3. u <= created /\ u # 0 /\ u \in Nat
      BY <2>2, <3>1, <3>2, Numbers DEF Inv, Tables, Ids
    <3>4. JobAt(created, "user", [NoJob EXCEPT !.me = u]) /\ created \in Nat
      BY <3>3, NewJobs, Here DEF JobAt, PC
    <3> QED
      BY <1>2, <2>2, <3>2, <3>4, JobsStep DEF accounts
  <2> QED
    BY <1>2, <2>1, <2>2
<1> QED
  BY <1>2, <1>3, <1>4, SessionsStep

LEMMA ReadUserInv ==
  ASSUME Inv, NEW r \in Requests, ReadUser(r)
  PROVE  Inv'
<1>1. PICK i : i = job[r].me
  OBVIOUS
<1>2. /\ UNCHANGED <<accounts, logins, sso, edits>>
      /\ \/ i \in Present /\ Goto(r, "admitted", Loaded(r, i, users[i]))
         \/ Anonymous(r)
  BY <1>1 DEF ReadUser
<1>3. CASE i \in Present /\ Goto(r, "admitted", Loaded(r, i, users[i]))
  <2>1. users[i] \in Row /\ i <= created /\ i \in 0 .. MaxUsers /\ i # 0
    BY <1>3, PresentRow
  <2>2. JobAt(created, "admitted", Loaded(r, i, users[i]))
    BY <1>1, <2>1, Here, LoadedJobs, Numbers DEF JobAt, PC
  <2> QED
    BY <1>2, <1>3, <2>2, GoesOn
<1>4. CASE Anonymous(r)
  BY <1>2, <1>4, AnonymousJobs, Untouched DEF accounts
<1> QED
  BY <1>2, <1>3, <1>4

LEMMA AddUserInv ==
  ASSUME Inv, NEW r \in Requests, NEW p \in People, AddUser(r, p)
  PROVE  Inv'
<1>1. JobAt(created, "creating", [NoJob EXCEPT !.new = p])
  BY NewJobs, Here, Numbers DEF JobAt, PC
<1> QED
  BY <1>1, GoesOn DEF AddUser

LEMMA LoadUserInv ==
  ASSUME Inv, NEW r \in Requests, NEW i \in Ids, LoadUser(r, i)
  PROVE  Inv'
<1>1. UNCHANGED <<accounts, logins, sso, edits>> /\ pc[r] = "admitted"
  BY DEF LoadUser
<1>2. CASE i = job[r].me
  <2>1. Goto(r, "loaded", [job[r] EXCEPT !.me = 0])
    BY <1>2 DEF LoadUser
  <2>2. job[r].id = i /\ job[r].row # None /\ i # 0
    BY <1>1, <1>2, Here, Numbers DEF JobAt, Ids
  <2>3. JobAt(created, "loaded", [job[r] EXCEPT !.me = 0])
    BY <2>2, Here, ChangedJobs DEF JobAt, PC
  <2> QED
    BY <1>1, <2>1, <2>3, GoesOn
<1>3. CASE i # job[r].me
  <2>1. users[i] \in Row /\ i <= created /\ i \in 0 .. MaxUsers /\ i # 0
    BY <1>3, PresentRow DEF LoadUser
  <2>2. PICK j : j = Loaded(r, i, users[i])
    OBVIOUS
  <2>3. j \in Job /\ j.id = i /\ j.row # None
    BY <2>1, <2>2, Here, LoadedJobs, Numbers
  <2>4. Goto(r, "loaded", [j EXCEPT !.me = 0])
    BY <1>3, <2>2 DEF LoadUser
  <2>5. JobAt(created, "loaded", [j EXCEPT !.me = 0])
    BY <2>1, <2>3, Here, ChangedJobs DEF JobAt, PC
  <2> QED
    BY <1>1, <2>4, <2>5, GoesOn
<1> QED
  BY <1>2, <1>3

LEMMA NewPassword ==
  ASSUME NEW row \in Row, NEW n \in Nat
  PROVE  WithPassword(row, n) \in Row /\ WithPassword(row, n).term = n
  BY DEF WithPassword, Row

LEMMA SetPasswordInv ==
  ASSUME Inv, NEW r \in Requests, SetPassword(r)
  PROVE  Inv'
<1>1. PICK i : i = job[r].id
  OBVIOUS
<1>2. /\ pc[r] = "loaded" /\ UNCHANGED <<created, issued, sso>>
      /\ edits < MaxEdits /\ edits' = edits + 1
  BY DEF SetPassword
<1>3. edits' \in 0 .. MaxEdits
  BY <1>2, Numbers DEF Inv, Tables
<1>4. CASE i \notin Present
  <2>1. UNCHANGED <<users, sessions>> /\ Finish(r)
    BY <1>1, <1>4 DEF SetPassword
  <2>2. Jobs'
    BY <1>2, <2>1, Ends
  <2>3. Tables' /\ SessionsRevoked'
    BY <1>2, <1>3, <2>1 DEF Inv, Tables, SessionsRevoked, Present, sso
  <2> QED
    BY <2>2, <2>3 DEF Inv
<1>5. CASE i \in Present
  <2>1. /\ users' = [users EXCEPT ![i] = WithPassword(users[i], users[i].term + 1)]
        /\ sessions' = Without(SessionsOf(i)) /\ Goto(r, "rest", job[r])
    BY <1>1, <1>5 DEF SetPassword
  <2>2. users[i] \in Row /\ i <= created /\ i \in Ids /\ users[i].term + 1 \in Nat
    BY <1>5, PresentRow DEF Row
  <2>3. PICK row \in Row : row = WithPassword(users[i], users[i].term + 1)
    BY <2>2, NewPassword
  <2>4. JobAt(created, "rest", job[r]) /\ created \in Nat
    BY <1>2, Here DEF JobAt, PC
  <2>5. Jobs'
    BY <1>2, <2>1, <2>4, JobsStep
  <2>6. /\ sessions' \in [Tokens -> Session \cup {None}]
        /\ \A t \in Tokens : sessions'[t] # None => sessions'[t] = sessions[t]
        /\ \A t \in SessionsOf(i) \cap Tokens : sessions'[t] = None
    <3>1. PICK E : E = SessionsOf(i)
      OBVIOUS
    <3>2. sessions' = Without(E)
      BY <2>1, <3>1
    <3> QED
      BY <3>1, <3>2, EndSessions
  <2>7. \A t \in Tokens : sessions'[t] # None => sessions'[t].user # i
    BY <2>6 DEF SessionsOf
  <2>8. created' \in 0 .. MaxUsers /\ created <= created' /\ i <= created'
    BY <1>2, <2>2 DEF Inv, Tables
  <2> QED
    BY <1>2, <1>3, <2>1, <2>2, <2>3, <2>5, <2>6, <2>7, <2>8, TablesStep
<1> QED
  BY <1>4, <1>5

LEMMA UpdateUserInv ==
  ASSUME Inv, NEW r \in Requests, UpdateUser(r)
  PROVE  Inv'
<1>1. PICK i : i = job[r].id
  OBVIOUS
<1>2. PICK was \in Row : was = job[r].row
  BY Here, Numbers DEF UpdateUser, JobAt, Job
<1>3. /\ UNCHANGED <<created, issued, sso>> /\ Finish(r)
      /\ edits' = edits \/ (edits < MaxEdits /\ edits' = edits + 1)
  BY DEF UpdateUser
<1>4. edits' \in 0 .. MaxEdits /\ Jobs'
  BY <1>3, Numbers, Ends DEF Inv, Tables
<1>5. /\ sessions' \in [Tokens -> Session \cup {None}]
      /\ \A t \in Tokens : sessions'[t] # None => sessions'[t] = sessions[t]
      /\ sessions' = Without(SessionsOf(i)) =>
           \A t \in SessionsOf(i) \cap Tokens : sessions'[t] = None
  <2>1. PICK E : E = SessionsOf(i)
    OBVIOUS
  <2>2. sessions' = Without(E) \/ sessions' = sessions
    BY <1>1, <2>1 DEF UpdateUser
  <2> QED
    BY <2>1, <2>2, EndSessions
<1>6. CASE i \notin Present
  <2>1. UNCHANGED users
    BY <1>1, <1>6 DEF UpdateUser
  <2>2. Tables'
    BY <1>3, <1>4, <1>5, <2>1 DEF Inv, Tables, sso
  <2>3. SessionsRevoked'
    BY <1>5, <2>1 DEF Inv, SessionsRevoked, Present
  <2> QED
    BY <1>4, <2>2, <2>3 DEF Inv
<1>7. CASE i \in Present
  <2>1. users[i] \in Row /\ i <= created /\ i \in Ids /\ users[i].term \in Nat
    BY <1>7, PresentRow DEF Row
  <2>3. PICK email \in People \cup {None}, disabled \in BOOLEAN, sent \in BOOLEAN :
          /\ disabled # was.disabled => sent
          /\ users' = [users EXCEPT ![i] =
               [name |-> users[i].name, subject |-> users[i].subject,
                password |-> users[i].password,
                email |-> IF email # was.email THEN email ELSE users[i].email,
                disabled |-> IF disabled # was.disabled THEN disabled ELSE users[i].disabled,
                term |-> IF disabled # was.disabled /\ disabled
                         THEN users[i].term + 1 ELSE users[i].term]]
          /\ sessions' = IF sent /\ disabled THEN Without(SessionsOf(i)) ELSE sessions
    BY <1>1, <1>2, <1>7, ZenonT(90) DEF UpdateUser
  <2>4. PICK e \in People \cup {None} :
          e = IF email # was.email THEN email ELSE users[i].email
    BY <2>1 DEF Row
  <2>5. PICK d \in BOOLEAN : d = IF disabled # was.disabled THEN disabled ELSE users[i].disabled
    BY <2>1 DEF Row
  <2>6. PICK n \in Nat : n = IF disabled # was.disabled /\ disabled
                             THEN users[i].term + 1 ELSE users[i].term
    BY <2>1
  <2>7. PICK row : row = [name |-> users[i].name, subject |-> users[i].subject,
                          password |-> users[i].password, email |-> e, disabled |-> d,
                          term |-> n]
    OBVIOUS
  <2>8. row \in Row /\ row.term = n
    BY <2>1, <2>7 DEF Row
  <2>9. users' = [users EXCEPT ![i] = row]
    BY <2>3, <2>4, <2>5, <2>6, <2>7
  <2>10. row.term = users[i].term \/ \A t \in Tokens : sessions'[t] # None => sessions'[t].user # i
    <3>1. CASE sent /\ disabled
      BY <1>5, <2>3, <3>1 DEF SessionsOf
    <3>2. CASE ~(sent /\ disabled)
      BY <2>3, <2>6, <2>8, <3>2
    <3> QED
      BY <3>1, <3>2
  <2>11. created' \in 0 .. MaxUsers /\ created <= created' /\ i <= created'
    BY <1>3, <2>1 DEF Inv, Tables
  <2>12. users[i] # None
    BY <2>1, Numbers
  <2> QED
    BY <1>3, <1>4, <1>5, <2>1, <2>8, <2>9, <2>10, <2>11, <2>12, TablesStep
<1> QED
  BY <1>6, <1>7

LEMMA ChangeOwnPasswordInv ==
  ASSUME Inv, NEW r \in Requests, ChangeOwnPassword(r)
  PROVE  Inv'
<1>1. PICK i : i = job[r].me
  OBVIOUS
<1>2. UNCHANGED <<created, logins, sso, edits>> /\ Finish(r) /\ Jobs'
  BY Ends DEF ChangeOwnPassword
<1>3. CASE i \notin Present
  BY <1>1, <1>2, <1>3, Untouched DEF ChangeOwnPassword, accounts
<1>4. CASE i \in Present
  <2>1. users[i] \in Row /\ users[i] # None /\ i <= created /\ i \in Ids /\ users[i].term \in Nat
    BY <1>4, PresentRow, Numbers DEF Row
  <2>2. PICK row \in Row : row = WithPassword(users[i], users[i].term)
    BY <2>1, NewPassword
  <2>3. row.term = users[i].term
    BY <2>1, <2>2, NewPassword
  <2>4. users' = [users EXCEPT ![i] = row]
    BY <1>1, <1>4, <2>2 DEF ChangeOwnPassword
  <2>5. /\ created' \in 0 .. MaxUsers /\ created <= created' /\ i <= created'
        /\ edits' \in 0 .. MaxEdits /\ sessions' = sessions /\ issued' = issued
        /\ sessions' \in [Tokens -> Session \cup {None}]
    BY <1>2, <2>1 DEF Inv, Tables, logins
  <2> QED
    BY <1>2, <2>1, <2>2, <2>3, <2>4, <2>5, TablesStep
<1> QED
  BY <1>3, <1>4

LEMMA DeleteInv ==
  ASSUME Inv, NEW r \in Requests, DeleteCounts(r) \/ DeleteEndsSessions(r) \/ DeleteRow(r)
  PROVE  Inv'
<1>1. CASE DeleteCounts(r)
  <2>1. pc[r] = "loaded" => JobAt(created, "ending", job[r])
    BY Here DEF JobAt, PC
  <2> QED
    BY <1>1, <2>1, GoesOn, Stops DEF DeleteCounts
<1>2. CASE DeleteEndsSessions(r)
  <2>1. JobAt(created, "deleting", job[r]) /\ created \in Nat
    BY <1>2, Here DEF JobAt, PC, DeleteEndsSessions
  <2>2. Jobs'
    BY <1>2, <2>1, JobsStep DEF DeleteEndsSessions, accounts
  <2>3. PICK E : sessions' = Without(E)
    BY <1>2 DEF DeleteEndsSessions
  <2>4. /\ sessions' \in [Tokens -> Session \cup {None}]
        /\ \A t \in Tokens : sessions'[t] # None => sessions'[t] = sessions[t]
    BY <2>3, EndSessions
  <2> QED
    BY <1>2, <2>2, <2>4, SessionsStep DEF DeleteEndsSessions
<1>3. CASE DeleteRow(r)
  <2>1. /\ UNCHANGED <<created, logins, sso, edits>> /\ Finish(r) /\ Jobs'
        /\ pc[r] = "deleting" /\ users' = [users EXCEPT ![job[r].id] = None]
    BY <1>3, Ends DEF DeleteRow
  <2>2. PICK i \in Ids : i = job[r].id
    BY <2>1, Here, Numbers DEF JobAt, Job, Ids
  <2>3. /\ created' \in 0 .. MaxUsers /\ created <= created'
        /\ edits' \in 0 .. MaxEdits /\ sessions' = sessions /\ issued' = issued
        /\ sessions' \in [Tokens -> Session \cup {None}]
    BY <2>1 DEF Inv, Tables, logins
  <2> QED
    BY <2>1, <2>2, <2>3, TablesStep
<1> QED
  BY <1>1, <1>2, <1>3
-----------------------------------------------------------------------------
\* Time and restarts.

LEMMA ExpireInv ==
  ASSUME Inv, Expire
  PROVE  Inv'
<1>1. UNCHANGED <<accounts, issued, codes, pc, job, edits>> /\ Jobs'
  BY JobsStay DEF Expire, accounts
<1>2. CASE UNCHANGED states /\ \E t \in Tokens : /\ sessions[t] # None
                                                /\ sessions' = [sessions EXCEPT ![t].expired = TRUE]
  <2>1. PICK t \in Tokens : /\ sessions[t] # None
                            /\ sessions' = [sessions EXCEPT ![t].expired = TRUE]
    BY <1>2
  <2>2. sessions[t] \in Session
    BY <2>1 DEF Inv, Tables
  <2>3. PICK s : s = [sessions[t] EXCEPT !.expired = TRUE]
    OBVIOUS
  <2>4. /\ s \in Session /\ s.user = sessions[t].user /\ s.term = sessions[t].term
        /\ s.late = sessions[t].late
    BY <2>2, <2>3 DEF Session
  <2>5. /\ sessions \in [Tokens -> Session \cup {None}]
        /\ sessions' = [sessions EXCEPT ![t] = s]
    BY <2>1, <2>3 DEF Inv, Tables
  <2>6. /\ sessions' \in [Tokens -> Session \cup {None}]
        /\ \A k \in Tokens : sessions'[k] # None =>
             /\ sessions[k] # None
             /\ sessions'[k].user = sessions[k].user /\ sessions'[k].term = sessions[k].term
             /\ sessions'[k].late = sessions[k].late
    BY <2>1, <2>4, <2>5
  <2> QED
    BY <1>1, <1>2, <2>6, SessionsStep DEF sso
<1>3. CASE UNCHANGED sessions /\ \E s \in States : states' = [states EXCEPT ![s] = "expired"]
  <2>1. /\ states' \in [States -> {"unused", "open", "expired", "dropped"}]
        /\ codes' \subseteq States
    BY <1>1, <1>3 DEF Inv, Tables
  <2> QED
    BY <1>1, <1>3, <2>1, SsoStep DEF logins
<1> QED
  BY <1>2, <1>3 DEF Expire

LEMMA AbortInv ==
  ASSUME Inv, NEW r \in Requests, Abort(r)
  PROVE  Inv'
  BY Stops DEF Abort

LEMMA InvNext == Inv /\ [Next]_vars => Inv'
<1> SUFFICES ASSUME Inv, [Next]_vars PROVE Inv'
  OBVIOUS
<1>1. ASSUME NEW r \in Visitors, Visit(r) PROVE Inv'
  <2>1. r \in Requests
    BY DEF Requests
  <2> QED
    BY <1>1, <2>1, LoginInv, FirstUserInv, CallbackInv, CallbackDropsInv, ExchangeInv,
       MatchInv, BindSubjectInv, StartSessionInv DEF Visit
<1>2. ASSUME NEW r \in Admins, Administer(r) PROVE Inv'
  <2>1. r \in Requests
    BY DEF Requests
  <2> QED
    BY <1>2, <2>1, GateInv, ReadSessionInv, ReadUserInv, AddUserInv, LoadUserInv,
       SetPasswordInv, UpdateUserInv, ChangeOwnPasswordInv, DeleteInv DEF Administer
<1>3. ASSUME NEW r \in Requests, CreateUser(r) \/ Abort(r) PROVE Inv'
  BY <1>3, CreateUserInv, AbortInv
<1>4. ASSUME NEW t \in Tokens, Logout(t) PROVE Inv'
  BY <1>4, LogoutInv
<1>5. ASSUME NEW s \in States, OidcStart(s) PROVE Inv'
  BY <1>5, OidcStartInv
<1>6. CASE Expire
  BY <1>6, ExpireInv
<1>7. CASE UNCHANGED vars
  <2>1. UNCHANGED <<accounts, logins, sso, edits>> /\ Jobs'
    BY <1>7, JobsStay DEF vars, accounts
  <2> QED
    BY <2>1, Untouched
<1> QED
  BY <1>1, <1>2, <1>3, <1>4, <1>5, <1>6, <1>7 DEF Next

\* The rows of the tables and of the requests fit each other, and sessions are revoked:
\* together they are inductive.
THEOREM Invariance == Spec => []Inv
  BY InvInit, InvNext, PTL DEF Spec

\* users.py, auth_api.py, oidc.py: the tables hold rows of their types, numbered as
\* made, and a request that works on a user has that user's row as loaded.
THEOREM TypeCorrect == Spec => []TypeOK
<1>1. Inv => TypeOK
  <2> SUFFICES ASSUME Inv PROVE TypeOK
    OBVIOUS
  <2>1. Present \subseteq 1 .. created
    <3> SUFFICES ASSUME NEW i \in Present PROVE i \in 1 .. created
      OBVIOUS
    <3>1. i \in Ids /\ i <= created /\ created \in Nat
      BY PresentRow DEF Inv, Tables
    <3> QED
      BY <3>1 DEF Ids
  <2>2. /\ pc \in [Requests -> PC] /\ job \in [Requests -> Job]
        /\ \A r \in Requests : JobAt(created, pc[r], job[r])
    BY DEF Inv, Jobs
  <2>3. \A r \in Requests :
          /\ pc[r] = "creating" => job[r].new # None
          /\ pc[r] \in {"loaded", "rest", "ending", "deleting", "starting", "binding"}
               => job[r].id # 0 /\ job[r].row # None
          /\ pc[r] = "binding" => job[r].new # None
          /\ pc[r] = "user" => job[r].me # 0
    BY <2>2 DEF JobAt
  <2> QED
    BY <2>1, <2>2, <2>3 DEF TypeOK, Inv, Tables
<1> QED
  BY <1>1, Invariance, PTL

\* auth_api.update_user: a session of a user who is there was started after the last
\* time an administrator set the user's password or disabled the user, or by a login
\* that had read the user before.
THEOREM SessionsAreRevoked == Spec => []SessionsRevoked
<1>1. Inv => SessionsRevoked
  BY DEF Inv
<1> QED
  BY <1>1, Invariance, PTL
-----------------------------------------------------------------------------
\* What hides a bad value in the file is not there on the next start: the values in
\* the file have to be of their types each for itself.
FileOK == by = "dashboard" => ValidPart(Stored)

\* The running server can load the file, unless something in it is hidden.
UpOK ==
  by = "dashboard" /\ server = "up" /\ (\A k \in Enforced : Stored[k] = Unset) =>
    Accepted(Effective(Stored))

\* A load under way has read the last file saved, unless it was there before.
LoadsFresh ==
  \A l \in Loaders :
    by = "dashboard" /\ loads[l] # Unset /\ l \notin old => loads[l] = Effective(Stored)

SettingsInv == SettingsTypeOK /\ FileOK /\ UpOK

\* Layers of values are values, and valid ones are accepted.
LEMMA Layers ==
  /\ Nothing \in Partial /\ Default \in Settings /\ Unset \notin Values
  /\ \A a, b \in Partial : Over(a, b) \in Partial
  /\ \A a \in Partial : Over(a, Default) \in Settings
  BY SettingsAssumption DEF Nothing, Partial, Settings, Over

LEMMA ValidLayers ==
  /\ \A a, b \in Partial : ValidPart(a) /\ ValidPart(b) => ValidPart(Over(a, b))
  /\ \A a \in Partial : ValidPart(a) => Typed(Over(a, Default))
  BY SettingsAssumption DEF ValidPart, Typed, Over, Partial, Settings

\* The order of two layers does not matter when no key is in both.
LEMMA Apart ==
  ASSUME NEW a \in Partial, NEW b \in Partial,
         \A k \in Keys : a[k] = Unset \/ b[k] = Unset
  PROVE  Over(a, Over(b, Default)) = Over(Over(b, a), Default)
  BY SettingsAssumption DEF Over, Partial

\* What a load stores.
LEMMA ValidatedSettings ==
  ASSUME NEW s \in Settings, Accepted(s)
  PROVE  Validated(s) \in Settings
<1>1. s[ServiceDomain] = Empty => HostOf[s[ExternalUrl]] \in Values
  BY SettingsAssumption DEF Accepted, Settings
<1> QED
  BY <1>1 DEF Validated, Settings

\* The file as it is read.
LEMMA StoredIsPartial ==
  ASSUME SettingsTypeOK
  PROVE  Stored \in Partial /\ Effective(Stored) \in Settings
<1>1. Stored \in Partial
  BY Layers DEF SettingsTypeOK, Stored
<1>2. env \in Partial
  BY InputsAssumption DEF SettingsTypeOK
<1> QED
  BY <1>1, <1>2, Layers DEF Effective

\* What a request makes of the file.
LEMMA MergedIsPartial ==
  ASSUME SettingsTypeOK, NEW v \in Bodies, NEW u \in SUBSET Keys
  PROVE  /\ Merged(v, u) \in Partial
         /\ Checks(v, u) => ValidPart(Merged(v, u))
<1>1. Incoming(v) \in Partial
  BY SettingsAssumption, InputsAssumption DEF Incoming, Partial
<1>2. Over(Incoming(v), Stored) \in Partial
  BY <1>1, StoredIsPartial, Layers
<1>3. Merged(v, u) \in Partial
  <2> DEFINE over == Over(Incoming(v), Stored)
  <2> HIDE DEF over
  <2>1. over \in Partial
    BY <1>2 DEF over
  <2>2. Merged(v, u) = [k \in Keys |-> IF k \in u THEN Unset ELSE over[k]]
    BY DEF Merged, over
  <2> QED
    BY <2>1, <2>2 DEF Partial
<1>4. ASSUME Checks(v, u) PROVE ValidPart(Merged(v, u))
  BY <1>3, <1>4 DEF Checks, Accepted, Typed, Over, ValidPart, Partial
<1> QED
  BY <1>3, <1>4

\* A file of such values has them under every environment.
LEMMA ValidStarts ==
  ASSUME NEW f \in Partial, ValidPart(f), NEW e \in Environments
  PROVE  Typed(Over(Over(e, f), Default))
<1>1. e \in Partial /\ ValidPart(e)
  BY InputsAssumption
<1>2. Over(e, f) \in Partial /\ ValidPart(Over(e, f))
  BY <1>1, Layers, ValidLayers
<1> QED
  BY <1>2, ValidLayers
-----------------------------------------------------------------------------
LEMMA SettingsTypeInit == SettingsInit => SettingsTypeOK
<1> SUFFICES ASSUME SettingsInit PROVE SettingsTypeOK
  OBVIOUS
<1>1. env \in Environments
  BY DEF SettingsInit
<1>2. \A l \in Loaders : loads[l] = Unset
  BY DEF SettingsInit
<1>3. loads \in [Loaders -> Settings \cup {Unset}]
  BY DEF SettingsInit
<1>4. Loop \in Loaders
  BY DEF Loaders
<1>5. fileEdits \in 0 .. MaxFileEdits /\ file \in Partial
  BY Layers, SettingsAssumption DEF SettingsInit
<1>6. late \in BOOLEAN
  BY DEF SettingsInit
<1>7. cache \in Settings \cup {Unset}
  BY DEF SettingsInit
<1> QED
  BY <1>1, <1>2, <1>3, <1>4, <1>5, <1>6, <1>7 DEF SettingsInit, SettingsTypeOK

LEMMA SettingsTypeStep == SettingsTypeOK /\ [SettingsNext]_settingsVars => SettingsTypeOK'
<1> SUFFICES ASSUME SettingsTypeOK, [SettingsNext]_settingsVars PROVE SettingsTypeOK'
  OBVIOUS
<1> USE SettingsAssumption
<1>1. CASE \E v \in Bodies, u \in SUBSET Keys : WriteSettings(v, u)
  BY <1>1, MergedIsPartial
     DEF WriteSettings, Save, SettingsTypeOK, Loaders, Loop
<1>2. CASE ResetCache
  BY <1>2 DEF ResetCache, SettingsTypeOK, ghosts, Loaders, Loop
<1>3. CASE Cached
  BY <1>3 DEF Cached, SettingsTypeOK, ghosts, Loaders, Loop
<1>4. ASSUME NEW l \in Loaders, BeginLoad(l) PROVE SettingsTypeOK'
  <2>1. Effective(Stored) \in Settings
    BY StoredIsPartial
  <2>2. loads' \in [Loaders -> Settings \cup {Unset}] /\ (loads'[Loop] # Unset => put # "saved")
    BY <1>4, <2>1 DEF BeginLoad, SettingsTypeOK
  <2>3. old \subseteq {k \in Threads : loads'[k] # Unset}
    BY <1>4, <2>1 DEF BeginLoad, SettingsTypeOK, Loaders
  <2> QED
    BY <1>4, <2>2, <2>3 DEF BeginLoad, SettingsTypeOK, ghosts
<1>5. ASSUME NEW l \in Loaders, EndLoad(l) PROVE SettingsTypeOK'
  <2>1. cache' \in Settings \cup {Unset}
    <3>1. CASE Accepted(loads[l])
      <4>1. loads[l] \in Settings /\ cache' = Validated(loads[l])
        BY <1>5, <3>1 DEF EndLoad, SettingsTypeOK
      <4> QED
        BY <3>1, <4>1, ValidatedSettings
    <3>2. CASE ~Accepted(loads[l])
      BY <1>5, <3>2 DEF EndLoad, SettingsTypeOK
    <3> QED
      BY <3>1, <3>2
  <2>5. late' \in BOOLEAN
    <3>1. late' = (l \in old) \/ late' = late
      BY <1>5, Zenon DEF EndLoad
    <3>2. late \in BOOLEAN
      BY DEF SettingsTypeOK
    <3>3. (l \in old) = TRUE \/ (l \in old) = FALSE
      OBVIOUS
    <3> QED
      BY <3>1, <3>2, <3>3
  <2>2. loads' \in [Loaders -> Settings \cup {Unset}] /\ (loads'[Loop] # Unset => put' # "saved")
    BY <1>5 DEF EndLoad, SettingsTypeOK
  <2>3. old' \subseteq {k \in Threads : loads'[k] # Unset}
    BY <1>5 DEF EndLoad, SettingsTypeOK, Loaders
  <2>4. server = "up"
    BY <1>5 DEF EndLoad, SettingsTypeOK
  <2> QED
    BY <1>5, <2>1, <2>2, <2>3, <2>4, <2>5 DEF EndLoad, SettingsTypeOK
<1>6. CASE Start
  <2>1. Effective(Stored) \in Settings
    BY StoredIsPartial
  <2>2. /\ server' \in {"up", "failed"} /\ cache' \in Settings \cup {Unset}
        /\ server' # "up" => cache' = cache
    <3>1. CASE Starts(Effective(Stored))
      BY <1>6, <2>1, <3>1, ValidatedSettings DEF Start, Starts
    <3>2. CASE ~Starts(Effective(Stored))
      BY <1>6, <3>2 DEF Start, SettingsTypeOK
    <3> QED
      BY <3>1, <3>2
  <2> QED
    BY <1>6, <2>2 DEF Start, SettingsTypeOK, ghosts, Loaders, Loop
<1>7. CASE Exit
  BY <1>7 DEF Exit, SettingsTypeOK, Loaders, Loop
<1>8. ASSUME NEW e \in Environments, ChangeEnvironment(e) PROVE SettingsTypeOK'
  BY <1>8 DEF ChangeEnvironment, SettingsTypeOK, ghosts, Loaders, Loop
<1>9. ASSUME NEW f \in HandFiles, EditFile(f) PROVE SettingsTypeOK'
  BY <1>9, InputsAssumption DEF EditFile, SettingsTypeOK, Loaders, Loop
<1>10. CASE UNCHANGED settingsVars
  BY <1>10 DEF settingsVars, ghosts, SettingsTypeOK, Loaders, Loop
<1> QED
  BY <1>1, <1>2, <1>3, <1>4, <1>5, <1>6, <1>7, <1>8, <1>9, <1>10 DEF SettingsNext

LEMMA FileStep == SettingsTypeOK /\ FileOK /\ [SettingsNext]_settingsVars => FileOK'
<1> SUFFICES ASSUME SettingsTypeOK, FileOK, [SettingsNext]_settingsVars PROVE FileOK'
  OBVIOUS
<1>1. CASE \E v \in Bodies, u \in SUBSET Keys : WriteSettings(v, u)
  <2>1. PICK v \in Bodies, u \in SUBSET Keys : WriteSettings(v, u)
    BY <1>1
  <2>2. file' = Merged(v, u) /\ ValidPart(Merged(v, u)) /\ Merged(v, u) \in Partial
    BY <2>1, MergedIsPartial DEF WriteSettings, Save
  <2>3. Stored' = Merged(v, u)
    BY <2>2, SettingsAssumption DEF Stored
  <2> QED
    BY <2>2, <2>3 DEF FileOK, ValidPart
<1>2. ASSUME NEW f \in HandFiles, EditFile(f) PROVE FileOK'
  BY <1>2 DEF EditFile, FileOK
<1>3. CASE UNCHANGED <<file, by>>
  BY <1>3 DEF FileOK, Stored, ValidPart
<1> QED
  BY <1>1, <1>2, <1>3 DEF SettingsNext, settingsVars, ghosts, ResetCache, Cached,
     BeginLoad, EndLoad, Start, Exit, ChangeEnvironment

\* A PUT that was accepted is accepted by the next load, too.
LEMMA SavedIsAccepted ==
  ASSUME SettingsTypeOK, NEW v \in Bodies, NEW u \in SUBSET Keys, WriteSettings(v, u)
  PROVE  UpOK'
<1>1. /\ Stored' = Merged(v, u) /\ Merged(v, u) \in Partial /\ env' = env
      /\ Checks(v, u)
  BY MergedIsPartial, SettingsAssumption DEF WriteSettings, Save, Stored
<1>2. env \in Partial
  BY InputsAssumption DEF SettingsTypeOK
<1>3. PICK m \in Partial : m = Merged(v, u)
  BY <1>1
<1> SUFFICES ASSUME \A k \in Enforced' : Stored'[k] = Unset
             PROVE  Accepted(Effective(Stored))'
  BY DEF UpOK
<1>4. \A k \in Keys : env[k] = Unset \/ m[k] = Unset
  BY <1>1, <1>3 DEF Enforced
<1>5. Over(m, Over(env, Default)) = Over(Over(env, m), Default)
  BY <1>2, <1>4, Apart
<1>6. Accepted(Over(Over(env, m), Default))
  BY <1>1, <1>3, <1>5 DEF Checks
<1>7. Effective(Stored)' = Over(Over(env, m), Default)
  BY <1>1, <1>3 DEF Effective, Over
<1> QED
  BY <1>6, <1>7 DEF Accepted, Typed

LEMMA UpStep == SettingsTypeOK /\ UpOK /\ [SettingsNext]_settingsVars => UpOK'
<1> SUFFICES ASSUME SettingsTypeOK, UpOK, [SettingsNext]_settingsVars PROVE UpOK'
  OBVIOUS
<1>1. CASE \E v \in Bodies, u \in SUBSET Keys : WriteSettings(v, u)
  BY <1>1, SavedIsAccepted
<1>2. CASE Start
  <2>1. CASE ~Starts(Effective(Stored))
    BY <1>2, <2>1 DEF Start, UpOK
  <2>2. CASE Starts(Effective(Stored))
    <3>1. PICK s : s = Effective(Stored)
      OBVIOUS
    <3>2. Accepted(s)
      BY <2>2, <3>1 DEF Starts
    <3>3. Effective(Stored)' = s
      BY <1>2, <3>1 DEF Start, ghosts, Effective, Stored, Over
    <3> QED
      BY <3>2, <3>3 DEF UpOK, Accepted, Typed
  <2> QED
    BY <2>1, <2>2
<1>3. CASE \E f \in HandFiles : EditFile(f)
  BY <1>3 DEF EditFile, UpOK
<1>4. CASE server' # "up"
  BY <1>4 DEF UpOK
<1>5. CASE UNCHANGED <<server, by, env, file>>
  <2>1. PICK s : s = Effective(Stored)
    OBVIOUS
  <2>2. Effective(Stored)' = s /\ Stored' = Stored /\ Enforced' = Enforced
    BY <1>5, <2>1 DEF Effective, Stored, Over, Enforced
  <2>3. by = "dashboard" /\ server = "up" /\ (\A k \in Enforced : Stored[k] = Unset) =>
          Accepted(s)
    BY <2>1 DEF UpOK
  <2>4. Accepted(s) => Accepted(Effective(Stored))'
    BY <2>2 DEF Accepted, Typed
  <2> QED
    BY <1>5, <2>2, <2>3, <2>4 DEF UpOK
<1> QED
  BY <1>1, <1>2, <1>3, <1>4, <1>5 DEF SettingsNext, settingsVars, ghosts, ResetCache, Cached,
     BeginLoad, EndLoad, Exit, ChangeEnvironment

LEMMA FileInit == SettingsInit => FileOK /\ UpOK
  BY SettingsAssumption, Layers DEF SettingsInit, FileOK, UpOK, Stored, ValidPart, Nothing
-----------------------------------------------------------------------------
\* config.py, management/settings_api.py: the layers, the cache and the requests hold
\* values of their types; a process that is down holds none.
THEOREM SettingsTypeCorrect == SettingsSpec => []SettingsTypeOK
<1>1. SettingsInit => SettingsTypeOK
  BY SettingsTypeInit
<1>2. SettingsTypeOK /\ [SettingsNext]_settingsVars => SettingsTypeOK'
  BY SettingsTypeStep
<1> QED
  BY <1>1, <1>2, PTL DEF SettingsSpec

\* The dashboard leaves a file of values of their types, which the process that it
\* runs in can load (settings_api.py:185).
THEOREM SettingsInvariance == SettingsSpec => []SettingsInv
<1>1. SettingsInit => SettingsInv
  BY SettingsTypeInit, FileInit DEF SettingsInv
<1>2. SettingsInv /\ [SettingsNext]_settingsVars => SettingsInv'
  BY SettingsTypeStep, FileStep, UpStep DEF SettingsInv
<1> QED
  BY <1>1, <1>2, PTL DEF SettingsSpec

\* settings_api.py:185: a value of a wrong type does not survive a save, whether it
\* came from the form or by hand, even where the environment hides it; and what was
\* accepted can be loaded by the server that runs, while the environment hides none
\* of it.  What only a start looks at is not part of it.
THEOREM SavedFilesLoad == SettingsSpec => []SavedFileLoads
<1>1. SettingsInv => SavedFileLoads
  <2> SUFFICES ASSUME SettingsInv, by = "dashboard"
               PROVE  /\ \A e \in Environments : Typed(Over(Over(e, Stored), Default))
                      /\ server = "up" /\ (\A k \in Enforced : Stored[k] = Unset) =>
                           Accepted(Effective(Stored))
    BY DEF SavedFileLoads
  <2> QED
    BY StoredIsPartial, ValidStarts DEF SettingsInv, FileOK, UpOK
<1> QED
  BY <1>1, SettingsInvariance, PTL
-----------------------------------------------------------------------------
FreshInv == SettingsTypeOK /\ LoadsFresh /\ CacheIsFresh

LEMMA FreshInit == SettingsInit => FreshInv
  BY SettingsTypeInit DEF SettingsInit, FreshInv, LoadsFresh, CacheIsFresh

LEMMA FreshStep == FreshInv /\ [SettingsNext]_settingsVars => FreshInv'
<1> SUFFICES ASSUME FreshInv, [SettingsNext]_settingsVars PROVE LoadsFresh' /\ CacheIsFresh'
  BY SettingsTypeStep DEF FreshInv
<1> USE DEF FreshInv
<1>1. CASE \E v \in Bodies, u \in SUBSET Keys : WriteSettings(v, u)
  BY <1>1 DEF WriteSettings, LoadsFresh, CacheIsFresh
<1>2. ASSUME UNCHANGED <<env, file>> PROVE Effective(Stored)' = Effective(Stored)
  BY <1>2 DEF Effective, Over, Stored
<1> DEFINE now == Effective(Stored)
<1>3. CASE ResetCache
  <2>1. now' = now
    BY <1>2, <1>3 DEF ResetCache
  <2> HIDE DEF now
  <2> QED
    BY <1>3, <2>1 DEF ResetCache, LoadsFresh, CacheIsFresh, ghosts, now
<1>4. CASE Cached
  <2>1. now' = now
    BY <1>2, <1>4 DEF Cached
  <2> QED
    BY <1>4, <2>1 DEF Cached, LoadsFresh, CacheIsFresh, ghosts
<1>5. ASSUME NEW l \in Loaders, BeginLoad(l) PROVE LoadsFresh' /\ CacheIsFresh'
  <2>1. now' = now
    BY <1>2, <1>5 DEF BeginLoad
  <2> QED
    BY <1>5, <2>1 DEF BeginLoad, LoadsFresh, CacheIsFresh, ghosts, SettingsTypeOK
<1>6. ASSUME NEW l \in Loaders, EndLoad(l) PROVE LoadsFresh' /\ CacheIsFresh'
  <2>1. now' = now
    BY <1>2, <1>6 DEF EndLoad
  <2> QED
    BY <1>6, <2>1 DEF EndLoad, LoadsFresh, CacheIsFresh, SettingsTypeOK
<1>7. CASE Start
  <2>1. now' = now
    BY <1>2, <1>7 DEF Start
  <2> QED
    BY <1>7, <2>1 DEF Start, LoadsFresh, CacheIsFresh, ghosts, SettingsTypeOK
<1>8. CASE Exit
  BY <1>8 DEF Exit, LoadsFresh, CacheIsFresh
<1>9. CASE \E e \in Environments : ChangeEnvironment(e)
  BY <1>9 DEF ChangeEnvironment, LoadsFresh, CacheIsFresh, SettingsTypeOK, ghosts
<1>10. CASE \E f \in HandFiles : EditFile(f)
  BY <1>10 DEF EditFile, LoadsFresh, CacheIsFresh
<1>11. CASE UNCHANGED settingsVars
  <2>1. now' = now
    BY <1>2, <1>11 DEF settingsVars
  <2> QED
    BY <1>11, <2>1 DEF settingsVars, LoadsFresh, CacheIsFresh, ghosts
<1> QED
  BY <1>1, <1>3, <1>4, <1>5, <1>6, <1>7, <1>8, <1>9, <1>10, <1>11 DEF SettingsNext

\* config.get_settings, settings_api.py:196: after a save of the dashboard the process runs
\* with what was saved, whichever threads load it, with two exceptions that the property
\* names: a load that had read before the save and is stored after it, and a file that was
\* edited by hand since.
THEOREM SavedIsUsed == SettingsSpec => []CacheIsFresh
<1>1. SettingsInit => FreshInv
  BY FreshInit
<1>2. FreshInv /\ [SettingsNext]_settingsVars => FreshInv'
  BY FreshStep
<1>3. FreshInv => CacheIsFresh
  BY DEF FreshInv
<1> QED
  BY <1>1, <1>2, <1>3, PTL DEF SettingsSpec
=============================================================================
