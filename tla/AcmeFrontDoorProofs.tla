------------------------- MODULE AcmeFrontDoorProofs -------------------------
(***************************************************************************)
(* What the front door guarantees for any number of keys, messages,        *)
(* handlers, nonces and accounts.                                          *)
(***************************************************************************)
EXTENDS AcmeFrontDoor, TLAPS

\* What keeps a nonce from being spent twice: a spent one is no row any more, and
\* no value is issued again.
NonceInv ==
  /\ NonceSpentOnce
  /\ \A n \in nonces : spent[n] = 0
  /\ \A n \in minted + 1 .. MaxNonces : spent[n] = 0

\* A request past the signature check holds an account its message's key signs
\* for.
AccountHeld ==
  \A h \in Handlers :
    pc[h] = "verified" /\ acct[h] # 0 =>
      acct[h] \in DOMAIN accounts /\ accounts[acct[h]].key = sent[body[h]].key

\* The first state is typed.
LEMMA TypeInit == Init => TypeOK
  BY FrontDoorAssumption DEF Init, TypeOK, PC

\* Every step keeps the types.
LEMMA TypeStep ==
  ASSUME TypeOK, AccountHeld, [Next]_vars
  PROVE  TypeOK'
<1> USE FrontDoorAssumption DEF TypeOK, PC
<1>1. CASE NewNonce
  BY <1>1 DEF NewNonce, Mint
<1>2. CASE PurgeNonces
  BY <1>2 DEF PurgeNonces
<1>3. ASSUME NEW h \in Handlers, NEW m \in Messages, Send(h, m)
      PROVE  TypeOK'
  <2> PICK key \in Keys, kid \in 0 .. Len(accounts), nonce \in 0 .. minted, ask \in Asks :
        \E about \in IF ask \in Updates THEN DOMAIN accounts ELSE {0} :
          sent' = [sent EXCEPT ![m] = [key |-> key, kid |-> kid, nonce |-> nonce,
                                       ask |-> ask, about |-> about]]
    BY <1>3 DEF Send
  <2> PICK about \in IF ask \in Updates THEN DOMAIN accounts ELSE {0} :
        sent' = [sent EXCEPT ![m] = [key |-> key, kid |-> kid, nonce |-> nonce,
                                     ask |-> ask, about |-> about]]
    OBVIOUS
  <2>1. kid \in Nat /\ nonce \in Nat /\ about \in Nat
    OBVIOUS
  <2>2. [key |-> key, kid |-> kid, nonce |-> nonce, ask |-> ask, about |-> about]
          \in Signed
    BY <2>1 DEF Signed
  <2> DEFINE new == [key |-> key, kid |-> kid, nonce |-> nonce, ask |-> ask,
                     about |-> about]
  <2> HIDE DEF new
  <2>3. new \in Signed /\ sent' = [sent EXCEPT ![m] = new]
    BY <2>2 DEF new
  <2> QED
    BY <1>3, <2>3 DEF Send
<1>4. ASSUME NEW h \in Handlers, NEW m \in Messages, Redeliver(h, m)
      PROVE  TypeOK'
  BY <1>4 DEF Redeliver
<1>5. ASSUME NEW h \in Handlers, RefuseUrl(h)
      PROVE  TypeOK'
  BY <1>5 DEF RefuseUrl, Go
<1>6. ASSUME NEW h \in Handlers, ConsumeNonce(h)
      PROVE  TypeOK'
  <2> DEFINE n == sent[body[h]].nonce
  <2>1. n \in 1 .. MaxNonces
    <3>1. n \in 1 .. minted
      BY <1>6 DEF ConsumeNonce
    <3>2. minted \in Nat /\ MaxNonces \in Nat /\ minted <= MaxNonces
      OBVIOUS
    <3> HIDE DEF n
    <3> QED
      BY <3>1, <3>2
  <2>2. spent' \in [1 .. MaxNonces -> Nat]
    BY <1>6, <2>1 DEF ConsumeNonce
  <2> QED
    BY <1>6, <2>2 DEF ConsumeNonce
<1>7. ASSUME NEW h \in Handlers, BadNonce(h)
      PROVE  TypeOK'
  BY <1>7 DEF BadNonce, Go
<1>8. ASSUME NEW h \in Handlers, Verify(h)
      PROVE  TypeOK'
  <2>1. sent[body[h]] \in Signed
    BY <1>8 DEF Verify
  <2>2. sent[body[h]].kid \in Nat
    BY <2>1 DEF Signed
  <2> QED
    BY <1>8, <2>2 DEF Verify
<1>9. ASSUME NEW h \in Handlers, RefuseKey(h)
      PROVE  TypeOK'
  BY <1>9 DEF RefuseKey, Go
<1>10. ASSUME NEW h \in Handlers, LookUpAccount(h)
      PROVE  TypeOK'
  BY <1>10 DEF LookUpAccount, Go, NewAccount
<1>11. ASSUME NEW h \in Handlers, AmbiguousAccount(h)
      PROVE  TypeOK'
  BY <1>11 DEF AmbiguousAccount, Finish, NewAccount
<1>12. ASSUME NEW h \in Handlers, Register(h)
      PROVE  TypeOK'
  <2> DEFINE a == [key |-> sent[body[h]].key, status |-> "valid", contact |-> None]
  <2>1. sent[body[h]] \in Signed
    BY <1>12 DEF Register
  <2>2. a \in Account
    BY <2>1 DEF Account, Signed
  <2>3. accounts' \in Seq(Account)
    BY <1>12, <2>2 DEF Register
  <2> QED
    BY <1>12, <2>3 DEF Register
<1>13. ASSUME NEW h \in Handlers, SaveAccount(h)
      PROVE  TypeOK'
  <2> DEFINE a == acct[h]
  <2>1. body[h] \in Messages /\ a \in DOMAIN accounts /\ accounts[a] \in Account
    BY <1>13 DEF SaveAccount, Update, AccountHeld
  <2> DEFINE row == Updated(accounts[a], sent[body[h]].ask, body[h])
  <2>2. row \in Account
    BY <2>1 DEF Account, Updated
  <2>3. accounts' = [accounts EXCEPT ![a] = row]
    BY <1>13, <2>1 DEF SaveAccount
  <2> HIDE DEF row
  <2>4. accounts' \in Seq(Account)
    BY <2>1, <2>2, <2>3
  <2>5. /\ pc' \in [Handlers -> PC] /\ pc[h] = "verified"
        /\ UNCHANGED <<minted, nonces, sent, body, acct, spent>>
        /\ \A g \in Handlers \ {h} : pc'[g] = pc[g]
    BY <1>13 DEF SaveAccount, Update
  <2> QED
    BY <2>4, <2>5
<1>14. ASSUME NEW h \in Handlers, RefuseUpdate(h)
      PROVE  TypeOK'
  BY <1>14 DEF RefuseUpdate, Update, Go
<1>15. ASSUME NEW h \in Handlers, ServeResource(h)
      PROVE  TypeOK'
  BY <1>15 DEF ServeResource, Go
<1>16. ASSUME NEW h \in Handlers, Answer(h)
      PROVE  TypeOK'
  BY <1>16 DEF Answer, Mint, Finish
<1>17. CASE UNCHANGED vars
  BY <1>17 DEF vars
<1> QED
  BY <1>1, <1>2, <1>3, <1>4, <1>5, <1>6, <1>7, <1>8, <1>9, <1>10, <1>11,
     <1>12, <1>13, <1>14, <1>15, <1>16, <1>17 DEF Next, Handle

\* A nonce leaves the table with the one request that spends it.
LEMMA NonceStep ==
  ASSUME TypeOK, NonceInv, [Next]_vars
  PROVE  NonceInv'
<1> USE DEF TypeOK, NonceInv, NonceSpentOnce
<1>1. CASE NewNonce
  <2>1. spent[minted + 1] = 0 /\ minted + 1 \in 1 .. MaxNonces
    BY <1>1, FrontDoorAssumption DEF NewNonce, Mint
  <2>2. \A n \in nonces' : spent'[n] = 0
    BY <1>1, <2>1 DEF NewNonce, Mint
  <2>3. \A n \in minted' + 1 .. MaxNonces : n \in minted + 1 .. MaxNonces
    BY <1>1, FrontDoorAssumption DEF NewNonce, Mint
  <2> QED
    BY <1>1, <2>2, <2>3 DEF NewNonce, Mint
<1>2. CASE PurgeNonces
  BY <1>2 DEF PurgeNonces
<1>3. ASSUME NEW h \in Handlers, NEW m \in Messages, Send(h, m)
      PROVE  NonceInv'
  BY <1>3 DEF Send
<1>4. ASSUME NEW h \in Handlers, NEW m \in Messages, Redeliver(h, m)
      PROVE  NonceInv'
  BY <1>4 DEF Redeliver
<1>5. ASSUME NEW h \in Handlers, RefuseUrl(h)
      PROVE  NonceInv'
  BY <1>5 DEF RefuseUrl, Go
<1>6. ASSUME NEW h \in Handlers, ConsumeNonce(h)
      PROVE  NonceInv'
  BY <1>6 DEF ConsumeNonce
<1>7. ASSUME NEW h \in Handlers, BadNonce(h)
      PROVE  NonceInv'
  BY <1>7 DEF BadNonce, Go
<1>8. ASSUME NEW h \in Handlers, Verify(h)
      PROVE  NonceInv'
  BY <1>8 DEF Verify, Acceptable
<1>9. ASSUME NEW h \in Handlers, RefuseKey(h)
      PROVE  NonceInv'
  BY <1>9 DEF RefuseKey, Go
<1>10. ASSUME NEW h \in Handlers, LookUpAccount(h)
      PROVE  NonceInv'
  BY <1>10 DEF LookUpAccount, Go, NewAccount
<1>11. ASSUME NEW h \in Handlers, AmbiguousAccount(h)
      PROVE  NonceInv'
  BY <1>11 DEF AmbiguousAccount, Finish, NewAccount
<1>12. ASSUME NEW h \in Handlers, Register(h)
      PROVE  NonceInv'
  BY <1>12 DEF Register
<1>13. ASSUME NEW h \in Handlers, SaveAccount(h)
      PROVE  NonceInv'
  BY <1>13 DEF SaveAccount, Update
<1>14. ASSUME NEW h \in Handlers, RefuseUpdate(h)
      PROVE  NonceInv'
  BY <1>14 DEF RefuseUpdate, Update, Go
<1>15. ASSUME NEW h \in Handlers, ServeResource(h)
      PROVE  NonceInv'
  BY <1>15 DEF ServeResource, Go
<1>16. ASSUME NEW h \in Handlers, Answer(h)
      PROVE  NonceInv'
  <2>1. spent[minted + 1] = 0 /\ minted + 1 \in 1 .. MaxNonces
    BY <1>16, FrontDoorAssumption DEF Answer, Mint
  <2>2. \A n \in nonces' : spent'[n] = 0
    BY <1>16, <2>1 DEF Answer, Mint
  <2>3. \A n \in minted' + 1 .. MaxNonces : n \in minted + 1 .. MaxNonces
    BY <1>16, FrontDoorAssumption DEF Answer, Mint
  <2> QED
    BY <1>16, <2>2, <2>3 DEF Answer, Mint
<1>17. CASE UNCHANGED vars
  BY <1>17 DEF vars
<1> QED
  BY <1>1, <1>2, <1>3, <1>4, <1>5, <1>6, <1>7, <1>8, <1>9, <1>10, <1>11,
     <1>12, <1>13, <1>14, <1>15, <1>16, <1>17 DEF Next, Handle

\* Keys of accounts and messages never change once there are any.
LEMMA HeldStep ==
  ASSUME TypeOK, AccountHeld, [Next]_vars
  PROVE  AccountHeld'
<1> USE NoMessage DEF TypeOK, AccountHeld
<1>1. CASE NewNonce
  BY <1>1 DEF NewNonce, Mint
<1>2. CASE PurgeNonces
  BY <1>2 DEF PurgeNonces
<1>3. ASSUME NEW h \in Handlers, NEW m \in Messages, Send(h, m)
      PROVE  AccountHeld'
  BY <1>3 DEF Send
<1>4. ASSUME NEW h \in Handlers, NEW m \in Messages, Redeliver(h, m)
      PROVE  AccountHeld'
  BY <1>4 DEF Redeliver
<1>5. ASSUME NEW h \in Handlers, RefuseUrl(h)
      PROVE  AccountHeld'
  BY <1>5 DEF RefuseUrl, Go
<1>6. ASSUME NEW h \in Handlers, ConsumeNonce(h)
      PROVE  AccountHeld'
  BY <1>6 DEF ConsumeNonce
<1>7. ASSUME NEW h \in Handlers, BadNonce(h)
      PROVE  AccountHeld'
  BY <1>7 DEF BadNonce, Go
<1>8. ASSUME NEW h \in Handlers, Verify(h)
      PROVE  AccountHeld'
  BY <1>8 DEF Verify, Acceptable
<1>9. ASSUME NEW h \in Handlers, RefuseKey(h)
      PROVE  AccountHeld'
  BY <1>9 DEF RefuseKey, Go
<1>10. ASSUME NEW h \in Handlers, LookUpAccount(h)
      PROVE  AccountHeld'
  BY <1>10 DEF LookUpAccount, Go, NewAccount
<1>11. ASSUME NEW h \in Handlers, AmbiguousAccount(h)
      PROVE  AccountHeld'
  BY <1>11 DEF AmbiguousAccount, Finish, NewAccount
<1>12. ASSUME NEW h \in Handlers, Register(h)
      PROVE  AccountHeld'
  BY <1>12 DEF Register
<1>13. ASSUME NEW h \in Handlers, SaveAccount(h)
      PROVE  AccountHeld'
  <2>1. acct[h] \in DOMAIN accounts
    BY <1>13 DEF SaveAccount, Update
  <2>2. /\ DOMAIN accounts' = DOMAIN accounts
        /\ \A a \in DOMAIN accounts : accounts'[a].key = accounts[a].key
    BY <1>13, <2>1 DEF SaveAccount, Updated
  <2> QED
    BY <1>13, <2>2 DEF SaveAccount
<1>14. ASSUME NEW h \in Handlers, RefuseUpdate(h)
      PROVE  AccountHeld'
  BY <1>14 DEF RefuseUpdate, Update, Go
<1>15. ASSUME NEW h \in Handlers, ServeResource(h)
      PROVE  AccountHeld'
  BY <1>15 DEF ServeResource, Go
<1>16. ASSUME NEW h \in Handlers, Answer(h)
      PROVE  AccountHeld'
  BY <1>16 DEF Answer, Mint, Finish
<1>17. CASE UNCHANGED vars
  BY <1>17 DEF vars
<1> QED
  BY <1>1, <1>2, <1>3, <1>4, <1>5, <1>6, <1>7, <1>8, <1>9, <1>10, <1>11,
     <1>12, <1>13, <1>14, <1>15, <1>16, <1>17 DEF Next, Handle

\* Tables, messages and requests keep their types.
THEOREM TypeCorrect == Spec => [](TypeOK /\ AccountHeld)
<1>1. Init => AccountHeld
  BY DEF Init, AccountHeld
<1>2. TypeOK /\ AccountHeld /\ [Next]_vars => (TypeOK /\ AccountHeld)'
  BY TypeStep, HeldStep
<1> QED
  BY <1>1, <1>2, TypeInit, PTL DEF Spec

\* No replay: whatever is delivered however often, a nonce lets at most one
\* request through.
THEOREM NonceOnce == Spec => []NonceSpentOnce
<1>1. Init => NonceInv
  BY FrontDoorAssumption DEF Init, NonceInv, NonceSpentOnce
<1>2. TypeOK /\ NonceInv /\ [Next]_vars => NonceInv'
  BY NonceStep
<1>3. NonceInv => NonceSpentOnce
  BY DEF NonceInv
<1> QED
  BY <1>1, <1>2, <1>3, TypeCorrect, PTL DEF Spec

\* No step of a handler, and nothing else, changes an account row unless the key
\* of the row signed the message, and a deactivated row keeps its status.
LEMMA RowStep ==
  ASSUME TypeOK, AccountHeld, [Next]_vars,
         NEW a \in DOMAIN accounts
  PROVE  /\ accounts'[a] # accounts[a] =>
              \E h \in Handlers :
                /\ pc[h] = "verified" /\ pc'[h] = "answering"
                /\ sent[body[h]].key = accounts[a].key
         /\ accounts[a].status = "deactivated" =>
              a \in DOMAIN accounts' /\ accounts'[a].status = "deactivated"
<1> USE DEF TypeOK
<1>1. ASSUME UNCHANGED accounts
      PROVE  accounts'[a] = accounts[a] /\ a \in DOMAIN accounts'
  BY <1>1
<1>2. ASSUME NEW h \in Handlers, Register(h)
      PROVE  accounts'[a] = accounts[a] /\ a \in DOMAIN accounts'
  BY <1>2 DEF Register
<1>3. ASSUME NEW h \in Handlers, SaveAccount(h)
      PROVE  /\ accounts'[a] # accounts[a] =>
                  /\ pc[h] = "verified" /\ pc'[h] = "answering"
                  /\ sent[body[h]].key = accounts[a].key
             /\ accounts[a].status = "deactivated" =>
                  a \in DOMAIN accounts' /\ accounts'[a].status = "deactivated"
  <2>1. /\ pc[h] = "verified" /\ pc'[h] = "answering"
        /\ acct[h] \in DOMAIN accounts
        /\ accounts[acct[h]].key = sent[body[h]].key
    BY <1>3 DEF SaveAccount, Update, AccountHeld
  <2>2. CASE a # acct[h]
    BY <1>3, <2>2 DEF SaveAccount
  <2>3. CASE a = acct[h]
    <3>1. a \in DOMAIN accounts'
      BY <1>3 DEF SaveAccount
    <3>2. accounts[a] \in Account
      OBVIOUS
    <3>3. accounts[a].status = "deactivated" => accounts'[a].status = "deactivated"
      BY <1>3, <2>3, <3>2 DEF SaveAccount, Updated
    <3> QED
      BY <2>1, <2>3, <3>1, <3>3
  <2> QED
    BY <2>1, <2>2, <2>3
<1>4. ASSUME NEW h \in Handlers, Handle(h), ~Register(h), ~SaveAccount(h)
      PROVE  UNCHANGED accounts
  BY <1>4
  DEF Handle, RefuseUrl, ConsumeNonce, BadNonce, Verify, RefuseKey, LookUpAccount,
      AmbiguousAccount, RefuseUpdate, ServeResource, Answer, Go
<1>5. ASSUME NEW h \in Handlers, NEW m \in Messages, Send(h, m) \/ Redeliver(h, m)
      PROVE  UNCHANGED accounts
  BY <1>5 DEF Send, Redeliver
<1>6. CASE NewNonce \/ PurgeNonces \/ UNCHANGED vars
  BY <1>6, <1>1 DEF NewNonce, PurgeNonces, vars
<1> QED
  BY <1>1, <1>2, <1>3, <1>4, <1>5, <1>6 DEF Next

\* Whoever signs what, an account row changes only for its own key.
THEOREM AccountsAreOwned == Spec => ChangedByOwnKey
<1>1. TypeOK /\ AccountHeld /\ [Next]_vars
        => [\A a \in DOMAIN accounts :
              accounts'[a] # accounts[a] =>
                \E h \in Handlers : /\ pc[h] = "verified" /\ pc'[h] = "answering"
                                   /\ sent[body[h]].key = accounts[a].key]_accounts
  BY RowStep
<1> QED
  BY <1>1, TypeCorrect, PTL DEF Spec, ChangedByOwnKey

\* Whatever interleaves, a deactivated account is never valid again.
THEOREM DeactivationIsFinal == Spec => DeactivationSticks
<1>1. TypeOK /\ AccountHeld /\ [Next]_vars
        => [\A a \in DOMAIN accounts :
              accounts[a].status = "deactivated" =>
                a \in DOMAIN accounts' /\ accounts'[a].status = "deactivated"]_accounts
  BY RowStep
<1> QED
  BY <1>1, TypeCorrect, PTL DEF Spec, DeactivationSticks
=============================================================================
