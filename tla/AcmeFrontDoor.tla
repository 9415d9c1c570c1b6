---------------------------- MODULE AcmeFrontDoor ----------------------------
(***************************************************************************)
(* How a signed request gets in: anti-replay nonces (acme/nonce.py), the   *)
(* checks of acme/jws.py in their order, the accounts of acme/accounts.py  *)
(* and the fresh nonce on every answer (acme/common.py, acme/errors.py).   *)
(*                                                                         *)
(* Clients sign messages with any key, for any account, with any nonce     *)
(* they have seen; a message may be delivered again and again, to several  *)
(* handlers at once.  A nonce is consumed in a session of its own, so what *)
(* follows in the request cannot undo it.  One action is one stretch of a  *)
(* request between two awaits.                                             *)
(***************************************************************************)
EXTENDS Naturals, Sequences, FiniteSets

CONSTANTS
  Keys,         \* account keys
  Messages,     \* signed request bodies
  Handlers,     \* requests the server works on at the same time
  None,
  MaxNonces,    \* bound: nonces issued
  MaxAccounts   \* bound: accounts created

ASSUME FrontDoorAssumption ==
  /\ None \notin Messages
  /\ MaxNonces \in Nat
  /\ MaxAccounts \in Nat

VARIABLES
  minted,     \* how many nonces were issued; they are numbered as issued
  nonces,     \* the nonce table
  accounts,   \* the account table
  sent,       \* the messages signed so far
  pc,         \* where the request of a handler is
  body,       \* the message it is about
  acct,       \* the account its session has loaded, or 0
  spent       \* how many requests were let past the nonce check with a nonce

vars == <<minted, nonces, accounts, sent, pc, body, acct, spent>>

Account == [key: Keys, status: {"valid", "deactivated"},
            contact: Messages \cup {None}]

\* What a message asks of the server: newAccount, newAccount that only looks
\* for an account, an update of the contact, the status or both, or another
\* resource.
Updates == {"contact", "deactivate", "both"}
Asks == {"register", "lookup", "resource"} \cup Updates

\* kid: the account the protected header names, 0 for an embedded jwk.
\* about: the account in the url of an update.
Signed == [key: Keys, kid: Nat, nonce: Nat, ask: Asks, about: Nat]

ASSUME NoMessage == None \notin Signed

PC == {"idle", "parsed", "spent", "verified", "registering", "answering"}

Init ==
  /\ minted = 0
  /\ nonces = {}
  /\ accounts = <<>>
  /\ sent = [m \in Messages |-> None]
  /\ pc = [h \in Handlers |-> "idle"]
  /\ body = [h \in Handlers |-> None]
  /\ acct = [h \in Handlers |-> 0]
  /\ spent = [n \in 1 .. MaxNonces |-> 0]
-----------------------------------------------------------------------------
\* issue_nonce: a row of its own, with a value never used before.
Mint == /\ minted < MaxNonces
        /\ minted' = minted + 1
        /\ nonces' = nonces \cup {minted + 1}

NewNonce == Mint /\ UNCHANGED <<accounts, sent, pc, body, acct, spent>>

\* purge_expired_nonces: the oldest unused ones.
PurgeNonces ==
  \E k \in nonces :
    /\ nonces' = {n \in nonces : n > k}
    /\ UNCHANGED <<minted, accounts, sent, pc, body, acct, spent>>

\* A client signs a message and sends it, with a nonce it was given, perhaps long
\* ago, or with none of the server's.
Send(h, m) ==
  /\ pc[h] = "idle"
  /\ sent[m] = None
  /\ \E key \in Keys, kid \in 0 .. Len(accounts), nonce \in 0 .. minted, ask \in Asks :
     \E about \in IF ask \in Updates THEN DOMAIN accounts ELSE {0} :
       sent' = [sent EXCEPT ![m] = [key |-> key, kid |-> kid, nonce |-> nonce,
                                    ask |-> ask, about |-> about]]
  /\ pc' = [pc EXCEPT ![h] = "parsed"]
  /\ body' = [body EXCEPT ![h] = m]
  /\ UNCHANGED <<minted, nonces, accounts, acct, spent>>

\* The network delivers it once more, or the client repeats it.
Redeliver(h, m) ==
  /\ pc[h] = "idle"
  /\ sent[m] # None
  /\ pc' = [pc EXCEPT ![h] = "parsed"]
  /\ body' = [body EXCEPT ![h] = m]
  /\ UNCHANGED <<minted, nonces, accounts, sent, acct, spent>>

\* The request of handler h is over.
Finish(h) == /\ pc' = [pc EXCEPT ![h] = "idle"]
             /\ body' = [body EXCEPT ![h] = None]
             /\ acct' = [acct EXCEPT ![h] = 0]

Go(h, where) == /\ pc' = [pc EXCEPT ![h] = where]
                /\ UNCHANGED <<minted, nonces, accounts, sent, body, acct, spent>>

\* Malformed, or signed for another url: refused before the nonce is touched.
RefuseUrl(h) == pc[h] = "parsed" /\ Go(h, "answering")

\* consume_nonce: one DELETE decides.
ConsumeNonceUnspent(h) ==   \* mutant: only looks the nonce up
  LET n == sent[body[h]].nonce
  IN
  /\ pc[h] = "parsed"
  /\ n \in nonces
  /\ spent' = [spent EXCEPT ![n] = @ + 1]
  /\ pc' = [pc EXCEPT ![h] = "spent"]
  /\ UNCHANGED <<minted, nonces, accounts, sent, body, acct>>
ConsumeNonce(h) ==
  LET n == sent[body[h]].nonce
  IN
  /\ pc[h] = "parsed"
  /\ n \in nonces
  /\ nonces' = nonces \ {n}
  /\ spent' = [spent EXCEPT ![n] = @ + 1]
  /\ pc' = [pc EXCEPT ![h] = "spent"]
  /\ UNCHANGED <<minted, accounts, sent, body, acct>>

BadNonce(h) ==
  /\ pc[h] = "parsed"
  /\ sent[body[h]].nonce \notin nonces
  /\ Go(h, "answering")

\* Key resolution and the signature: by the embedded key, or by the key of an
\* account that exists and is valid.
Acceptable(m) ==
  \/ m.kid = 0
  \/ /\ m.kid \in DOMAIN accounts
     /\ accounts[m.kid].status = "valid"
     /\ accounts[m.kid].key = m.key

Verify(h) ==
  LET m == sent[body[h]]
  IN
  /\ pc[h] = "spent"
  /\ Acceptable(m)
  /\ pc' = [pc EXCEPT ![h] = "verified"]
  /\ acct' = [acct EXCEPT ![h] = m.kid]
  /\ UNCHANGED <<minted, nonces, accounts, sent, body, spent>>

\* Not acceptable, or malformed: jwk and kid both, a jwk or payload that does not
\* parse.
RefuseKey(h) == pc[h] = "spent" /\ Go(h, "answering")
-----------------------------------------------------------------------------
\* new_account, with an embedded key: is there an account with its thumbprint?
NewAccount(h) == /\ pc[h] = "verified"
                 /\ sent[body[h]].ask \in {"register", "lookup"}

Found(key) == {a \in DOMAIN accounts : accounts[a].key = key}

LookUpAccount(h) ==
  LET m == sent[body[h]]
  IN
  /\ NewAccount(h)
  /\ m.kid = 0 => Cardinality(Found(m.key)) <= 1
  /\ \/ Go(h, "answering")   \* refused, found, only looked for, or malformed
     \/ /\ m.kid = 0
        /\ Found(m.key) = {}
        /\ m.ask = "register"
        /\ Go(h, "registering")

\* scalar_one_or_none raises: no AcmeError, so no nonce on the answer.
AmbiguousAccount(h) ==
  /\ NewAccount(h)
  /\ sent[body[h]].kid = 0
  /\ Cardinality(Found(sent[body[h]].key)) > 1
  /\ Finish(h)
  /\ UNCHANGED <<minted, nonces, accounts, sent, spent>>

RegisterActive(h) ==   \* mutant: with a status the checks do not know
  /\ pc[h] = "registering"
  /\ Len(accounts) < MaxAccounts
  /\ accounts' = Append(accounts, [key |-> sent[body[h]].key, status |-> "active",
                                   contact |-> None])
  /\ pc' = [pc EXCEPT ![h] = "answering"]
  /\ UNCHANGED <<minted, nonces, sent, body, acct, spent>>
Register(h) ==
  /\ pc[h] = "registering"
  /\ Len(accounts) < MaxAccounts
  /\ accounts' = Append(accounts, [key |-> sent[body[h]].key, status |-> "valid",
                                   contact |-> None])
  /\ pc' = [pc EXCEPT ![h] = "answering"]
  /\ UNCHANGED <<minted, nonces, sent, body, acct, spent>>

\* account_detail: only the account that signed, by its own url; the commit
\* writes the attributes the payload sets.
Update(h) == /\ pc[h] = "verified"
             /\ sent[body[h]].ask \in Updates

\* The account a after a message: only what the payload names is written.
Updated(a, ask, contact) ==
  [key     |-> a.key,
   status  |-> IF ask = "contact" THEN a.status ELSE "deactivated",
   contact |-> IF ask = "deactivate" THEN a.contact ELSE contact]

SaveAccountByUrl(h) ==   \* mutant: the url decides which account is written
  LET m == sent[body[h]]
  IN
  /\ Update(h)
  /\ acct[h] # 0
  /\ m.about \in DOMAIN accounts
  /\ accounts' = [accounts EXCEPT ![m.about] = Updated(@, m.ask, body[h])]
  /\ pc' = [pc EXCEPT ![h] = "answering"]
  /\ UNCHANGED <<minted, nonces, sent, body, acct, spent>>
SaveAccountWhole(h) ==   \* mutant: the whole row is written as it was loaded
  LET m == sent[body[h]]
  IN
  /\ Update(h)
  /\ acct[h] # 0
  /\ m.about = acct[h]
  /\ accounts' = [accounts EXCEPT ![acct[h]] =
                     Updated([@ EXCEPT !.status = "valid"], m.ask, body[h])]
  /\ pc' = [pc EXCEPT ![h] = "answering"]
  /\ UNCHANGED <<minted, nonces, sent, body, acct, spent>>
SaveAccount(h) ==
  LET m == sent[body[h]]
  IN
  /\ Update(h)
  /\ acct[h] # 0
  /\ m.about = acct[h]
  /\ accounts' = [accounts EXCEPT ![acct[h]] = Updated(@, m.ask, body[h])]
  /\ pc' = [pc EXCEPT ![h] = "answering"]
  /\ UNCHANGED <<minted, nonces, sent, body, acct, spent>>

RefuseUpdate(h) ==
  /\ Update(h)
  /\ \/ acct[h] = 0
     \/ sent[body[h]].about # acct[h]
     \/ sent[body[h]].ask \in {"contact", "both"}   \* and the contact is not an array
  /\ Go(h, "answering")

\* The other handlers take verified.account from here.
ServeResource(h) ==
  /\ pc[h] = "verified"
  /\ sent[body[h]].ask = "resource"
  /\ Go(h, "answering")

\* acme_json_response and acme_error_handler: every answer carries a nonce.
Answer(h) ==
  /\ pc[h] = "answering"
  /\ Mint
  /\ Finish(h)
  /\ UNCHANGED <<accounts, sent, spent>>
-----------------------------------------------------------------------------
Handle(h) ==
  \/ RefuseUrl(h) \/ ConsumeNonce(h) \/ BadNonce(h) \/ Verify(h) \/ RefuseKey(h)
  \/ LookUpAccount(h) \/ AmbiguousAccount(h) \/ Register(h)
  \/ SaveAccount(h) \/ RefuseUpdate(h) \/ ServeResource(h) \/ Answer(h)

Next ==
  \/ NewNonce \/ PurgeNonces
  \/ \E h \in Handlers :
       Handle(h) \/ \E m \in Messages : Send(h, m) \/ Redeliver(h, m)

Spec == Init /\ [][Next]_vars
-----------------------------------------------------------------------------
\* Tables, messages and requests hold values of their types, and a request past
\* the parser is about a message.
TypeOK ==
  /\ minted \in 0 .. MaxNonces
  /\ nonces \subseteq 1 .. minted
  /\ accounts \in Seq(Account)
  /\ sent \in [Messages -> Signed \cup {None}]
  /\ pc \in [Handlers -> PC]
  /\ body \in [Handlers -> Messages \cup {None}]
  /\ acct \in [Handlers -> Nat]
  /\ spent \in [1 .. MaxNonces -> Nat]
  /\ \A h \in Handlers :
       pc[h] # "idle" => body[h] \in Messages /\ sent[body[h]] \in Signed

\* A nonce lets one request through, however often and wherever at once the
\* messages signed with it are delivered, and whatever is purged meanwhile.
NonceSpentOnce == \A n \in 1 .. MaxNonces : spent[n] <= 1

\* An account row changes only for a message signed with the account's key that
\* was let past the nonce check, whichever account its kid and its url name.
ChangedByOwnKey ==
  [][\A a \in DOMAIN accounts :
       accounts'[a] # accounts[a] =>
         \E h \in Handlers : /\ pc[h] = "verified" /\ pc'[h] = "answering"
                            /\ sent[body[h]].key = accounts[a].key]_accounts

\* A deactivated account stays so: a contact update that loaded the account
\* while it was valid does not write that status back.
DeactivationSticks ==
  [][\A a \in DOMAIN accounts :
       accounts[a].status = "deactivated" =>
         a \in DOMAIN accounts' /\ accounts'[a].status = "deactivated"]_accounts

\* tests/test_downstream_flow.py:41: "A brand-new client using the SAME account
\* key (jwk-signed newAccount) must be matched to the existing account by its key
\* thumbprint."  So a key has one account.
OneAccountPerKey ==
  \A a, b \in DOMAIN accounts : accounts[a].key = accounts[b].key => a = b
=============================================================================
