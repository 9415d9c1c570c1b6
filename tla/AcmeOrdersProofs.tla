-------------------------- MODULE AcmeOrdersProofs --------------------------
(***************************************************************************)
(* What the order model guarantees for any number of orders, identifiers,  *)
(* concurrent requests and maintenance processes.  Each step lemma has one *)
(* step per action of Next; the theorems put them together.                *)
(***************************************************************************)
EXTENDS AcmeOrders, FiniteSetTheorems, TLAPS

\* A session built from an order, a challenge and a status is a session.
LEMMA HoldingType ==
  ASSUME NEW o \in Orders \cup {None}, NEW i \in Idents \cup {None},
         NEW t \in ChallengeTypes \cup {"none"},
         NEW s \in OrderStatus \cup {"none"}
  PROVE  Holding(o, i, t, s) \in Session
  BY DEF Holding, Session

\* The session of an idle handler is a session.
LEMMA BlankType == Blank \in Session
  BY HoldingType DEF Blank

\* The types of a session's fields.
LEMMA SessionFields ==
  ASSUME NEW m \in Session
  PROVE  /\ m.order \in Orders \cup {None}
         /\ m.ident \in Idents \cup {None}
         /\ m.type \in ChallengeTypes \cup {"none"}
         /\ m.loaded \in OrderStatus \cup {"none"}
         /\ m.attr \in OrderStatus \cup {"none"}
  BY DEF Session

\* Giving the loaded row another status leaves a session.
LEMMA UpdatedSession ==
  ASSUME NEW m \in Session, NEW s \in OrderStatus
  PROVE  [m EXCEPT !.attr = s] \in Session
  BY DEF Session

\* Closing a request keeps the program counters and sessions typed.
LEMMA FinishType ==
  ASSUME RequestType, NEW h \in Handlers, Finish(h)
  PROVE  RequestType'
  BY BlankType DEF RequestType, Finish, PC

\* The empty database, with nothing running, is typed.
LEMMA TypeInit == Init => TypeOK
  <1> SUFFICES ASSUME Init PROVE TypeOK
    OBVIOUS
  <1>1. DatabaseType
    BY DEF Init, DatabaseType, OrderStatus, ItemStatus
  <1>2. RequestType
    BY BlankType DEF Init, RequestType, PC
  <1>3. WorldType
    BY OrdersAssumption DEF Init, WorldType
  <1> QED
    BY <1>1, <1>2, <1>3 DEF TypeOK

\* Every step of a request, the job or a restart keeps the requests typed.
LEMMA RequestTypeStep ==
  ASSUME TypeOK, SessionOK, [Next]_vars
  PROVE  RequestType'
<1> USE DEF TypeOK, RequestType, PC, OrderPC, IssuePC, AnswerPC, dbVars,
        worldVars, factVars
<1>1. ASSUME NEW o \in Orders, NewOrder(o)
      PROVE  RequestType'
  BY <1>1 DEF NewOrder
<1>2. ASSUME NEW o \in Orders, Expire(o)
      PROVE  RequestType'
  BY <1>2 DEF Expire
<1>3. ASSUME NEW h \in Handlers, NEW o \in Orders, Poll(h, o)
      PROVE  RequestType'
  BY <1>3, HoldingType DEF Poll, LoadOrder, HasRow, DatabaseType
<1>4. ASSUME NEW h \in Handlers, NEW o \in Orders, Finalize(h, o)
      PROVE  RequestType'
  BY <1>4, HoldingType DEF Finalize, LoadOrder, HasRow, DatabaseType
<1>5. ASSUME NEW h \in Handlers, NEW o \in Orders, NEW i \in Idents,
             NEW t \in ChallengeTypes, Respond(h, o, i, t)
      PROVE  RequestType'
  BY <1>5, HoldingType DEF Respond
<1>6. ASSUME NEW h \in Handlers, Recompute(h)
      PROVE  RequestType'
  BY <1>6, UpdatedSession, SessionFields DEF Recompute, Derived,
     OrderStatus, SessionOK, SessionAt, OrderPC
<1>7. ASSUME NEW h \in Handlers, SaveChecked(h)
      PROVE  RequestType'
  BY <1>7, FinishType DEF SaveChecked
<1>8. ASSUME NEW h \in Handlers, MeetNoRow(h)
      PROVE  RequestType'
  BY <1>8, FinishType DEF MeetNoRow
<1>9. ASSUME NEW h \in Handlers, RejectCsr(h)
      PROVE  RequestType'
  BY <1>9, FinishType DEF RejectCsr
<1>10. ASSUME NEW h \in Handlers, StartProcessing(h)
      PROVE  RequestType'
  <2>1. Holding(mem[h].order, None, "none", "processing") \in Session
    BY SessionFields, HoldingType DEF OrderStatus
  <2> QED
    BY <1>10, <2>1 DEF StartProcessing
<1>11. ASSUME NEW h \in Handlers, UpstreamIssues(h)
      PROVE  RequestType'
  BY <1>11 DEF UpstreamIssues
<1>12. ASSUME NEW h \in Handlers, UpstreamFails(h)
      PROVE  RequestType'
  BY <1>12 DEF UpstreamFails
<1>13. ASSUME NEW h \in Handlers, SaveCertificate(h)
      PROVE  RequestType'
  BY <1>13, FinishType DEF SaveCertificate
<1>14. ASSUME NEW h \in Handlers, RejectChain(h)
      PROVE  RequestType'
  BY <1>14, FinishType DEF RejectChain
<1>15. ASSUME NEW h \in Handlers, SaveFailure(h)
      PROVE  RequestType'
  BY <1>15, FinishType DEF SaveFailure
<1>16. ASSUME NEW h \in Handlers, LoadAuthz(h)
      PROVE  RequestType'
  <2> DEFINE m == mem[h]
  <2>1. m.order \in Orders /\ m.ident \in Idents /\ m.type \in ChallengeTypes
    BY <1>16 DEF LoadAuthz, SessionOK, SessionAt, AnswerPC
  <2>2. authz[m.order][m.ident] \in OrderStatus
    BY <2>1 DEF DatabaseType, ItemStatus, OrderStatus
  <2>3. Holding(m.order, m.ident, m.type, authz[m.order][m.ident]) \in Session
    BY <2>1, <2>2, HoldingType
  <2> QED
    BY <1>16, <2>3 DEF LoadAuthz
<1>17. ASSUME NEW h \in Handlers, TurnDown(h)
      PROVE  RequestType'
  BY <1>17, FinishType DEF TurnDown
<1>18. ASSUME NEW h \in Handlers, Accept(h)
      PROVE  RequestType'
  BY <1>18, UpdatedSession DEF Accept, OrderStatus
<1>19. ASSUME NEW h \in Handlers, Refuse(h)
      PROVE  RequestType'
  BY <1>19, UpdatedSession DEF Refuse, OrderStatus
<1>20. ASSUME NEW h \in Handlers, SaveAnswer(h)
      PROVE  RequestType'
  BY <1>20, FinishType DEF SaveAnswer
<1>21. ASSUME NEW p \in Purgers, PurgeScan(p)
      PROVE  RequestType'
  BY <1>21 DEF PurgeScan
<1>22. ASSUME NEW p \in Purgers, PurgeDelete(p)
      PROVE  RequestType'
  BY <1>22 DEF PurgeDelete
<1>23. CASE Crash
  BY <1>23, BlankType DEF Crash
<1>24. CASE UNCHANGED vars
  BY <1>24 DEF vars, dbVars, worldVars, factVars
<1> QED
  BY <1>1, <1>2, <1>3, <1>4, <1>5, <1>6, <1>7, <1>8, <1>9, <1>10, <1>11,
     <1>12, <1>13, <1>14, <1>15, <1>16, <1>17, <1>18, <1>19, <1>20, <1>21,
     <1>22, <1>23, <1>24 DEF Next, Request, Handle, Maintain

\* Every step keeps the tables typed: what a commit writes is a status.
LEMMA DatabaseTypeStep ==
  ASSUME TypeOK, SessionOK, [Next]_vars
  PROVE  DatabaseType'
<1> USE DEF TypeOK, DatabaseType, dbVars, worldVars, factVars
<1>1. ASSUME NEW o \in Orders, NewOrder(o)
      PROVE  DatabaseType'
  BY <1>1 DEF NewOrder, OrderStatus, ItemStatus
<1>2. ASSUME NEW o \in Orders, Expire(o)
      PROVE  DatabaseType'
  BY <1>2 DEF Expire
<1>3. ASSUME NEW h \in Handlers, NEW o \in Orders, Poll(h, o)
      PROVE  DatabaseType'
  BY <1>3 DEF Poll, LoadOrder
<1>4. ASSUME NEW h \in Handlers, NEW o \in Orders, Finalize(h, o)
      PROVE  DatabaseType'
  BY <1>4 DEF Finalize, LoadOrder
<1>5. ASSUME NEW h \in Handlers, NEW o \in Orders, NEW i \in Idents,
             NEW t \in ChallengeTypes, Respond(h, o, i, t)
      PROVE  DatabaseType'
  BY <1>5 DEF Respond
<1>6. ASSUME NEW h \in Handlers, Recompute(h)
      PROVE  DatabaseType'
  BY <1>6 DEF Recompute, Derived
<1>7. ASSUME NEW h \in Handlers, SaveChecked(h)
      PROVE  DatabaseType'
  BY <1>7, SessionFields DEF SaveChecked, RequestType, SessionOK, SessionAt,
     OrderPC, OrderStatus
<1>8. ASSUME NEW h \in Handlers, MeetNoRow(h)
      PROVE  DatabaseType'
  BY <1>8 DEF MeetNoRow
<1>9. ASSUME NEW h \in Handlers, RejectCsr(h)
      PROVE  DatabaseType'
  BY <1>9 DEF RejectCsr
<1>10. ASSUME NEW h \in Handlers, StartProcessing(h)
      PROVE  DatabaseType'
  BY <1>10 DEF StartProcessing, OrderStatus
<1>11. ASSUME NEW h \in Handlers, UpstreamIssues(h)
      PROVE  DatabaseType'
  BY <1>11 DEF UpstreamIssues
<1>12. ASSUME NEW h \in Handlers, UpstreamFails(h)
      PROVE  DatabaseType'
  BY <1>12 DEF UpstreamFails
<1>13. ASSUME NEW h \in Handlers, SaveCertificate(h)
      PROVE  DatabaseType'
  <2>1. mem[h].order \in Orders
    BY <1>13 DEF SaveCertificate, SessionOK, SessionAt, IssuePC
  <2>2. certs' \in Seq(Orders)
    BY <1>13, <2>1 DEF SaveCertificate
  <2>3. ordCert' \in [Orders -> Nat] /\ ordStatus' \in [Orders -> OrderStatus]
    BY <1>13, <2>1 DEF SaveCertificate, OrderStatus
  <2> QED
    BY <1>13, <2>2, <2>3 DEF SaveCertificate
<1>14. ASSUME NEW h \in Handlers, RejectChain(h)
      PROVE  DatabaseType'
  BY <1>14 DEF RejectChain
<1>15. ASSUME NEW h \in Handlers, SaveFailure(h)
      PROVE  DatabaseType'
  BY <1>15 DEF SaveFailure, SessionOK, SessionAt, IssuePC, OrderStatus
<1>16. ASSUME NEW h \in Handlers, LoadAuthz(h)
      PROVE  DatabaseType'
  BY <1>16 DEF LoadAuthz
<1>17. ASSUME NEW h \in Handlers, TurnDown(h)
      PROVE  DatabaseType'
  BY <1>17 DEF TurnDown
<1>18. ASSUME NEW h \in Handlers, Accept(h)
      PROVE  DatabaseType'
  BY <1>18 DEF Accept
<1>19. ASSUME NEW h \in Handlers, Refuse(h)
      PROVE  DatabaseType'
  BY <1>19 DEF Refuse
<1>20. ASSUME NEW h \in Handlers, SaveAnswer(h)
      PROVE  DatabaseType'
  BY <1>20 DEF SaveAnswer, SessionOK, SessionAt, AnswerPC, ItemStatus
<1>21. ASSUME NEW p \in Purgers, PurgeScan(p)
      PROVE  DatabaseType'
  BY <1>21 DEF PurgeScan
<1>22. ASSUME NEW p \in Purgers, PurgeDelete(p)
      PROVE  DatabaseType'
  BY <1>22 DEF PurgeDelete, OrderStatus
<1>23. CASE Crash
  BY <1>23 DEF Crash
<1>24. CASE UNCHANGED vars
  BY <1>24 DEF vars, dbVars, worldVars, factVars
<1> QED
  BY <1>1, <1>2, <1>3, <1>4, <1>5, <1>6, <1>7, <1>8, <1>9, <1>10, <1>11,
     <1>12, <1>13, <1>14, <1>15, <1>16, <1>17, <1>18, <1>19, <1>20, <1>21,
     <1>22, <1>23, <1>24 DEF Next, Request, Handle, Maintain

\* Overlaps are counted, and an order without any was left alone by all others.
LEMMA BeginFacts ==
  ASSUME TypeOK, NEW S, Begin(S)
  PROVE  /\ overlaps' \in [Orders -> 0 .. MaxIssued]
         /\ \A o \in Orders :
              \/ overlaps'[o] = overlaps[o] + 1
              \/ /\ overlaps'[o] = overlaps[o]
                 /\ o \in S => Quiet(o) \/ overlaps[o] = MaxIssued
<1>1. overlaps \in [Orders -> 0 .. MaxIssued] /\ MaxIssued \in Nat
  BY OrdersAssumption DEF TypeOK, WorldType
<1> DEFINE counts(o) == o \in S /\ ~Quiet(o) /\ overlaps[o] < MaxIssued
<1>2. overlaps' = [o \in Orders |-> IF counts(o) THEN overlaps[o] + 1 ELSE overlaps[o]]
  BY DEF Begin
<1>3. ASSUME NEW o \in Orders
      PROVE  /\ overlaps'[o] \in 0 .. MaxIssued
             /\ \/ overlaps'[o] = overlaps[o] + 1
                \/ /\ overlaps'[o] = overlaps[o]
                   /\ o \in S => Quiet(o) \/ overlaps[o] = MaxIssued
  <2>1. CASE counts(o)
    BY <1>1, <1>2, <2>1
  <2>2. CASE ~counts(o)
    <3>1. overlaps'[o] = overlaps[o]
      BY <1>2, <2>2
    <3>2. o \in S => Quiet(o) \/ ~(overlaps[o] < MaxIssued)
      BY <2>2, Zenon
    <3>3. ~(overlaps[o] < MaxIssued) => overlaps[o] = MaxIssued
      BY <1>1
    <3>4. o \in S => Quiet(o) \/ overlaps[o] = MaxIssued
      BY <3>2, <3>3, Zenon
    <3> QED
      BY <1>1, <3>1, <3>4
  <2> QED
    BY <2>1, <2>2
<1>4. overlaps' \in [Orders -> 0 .. MaxIssued]
  <2> HIDE DEF counts
  <2> QED
    BY <1>2, <1>3
<1> QED
  BY <1>3, <1>4

\* Every step keeps what surrounds the database typed.
LEMMA WorldTypeStep ==
  ASSUME TypeOK, SessionOK, [Next]_vars
  PROVE  WorldType'
<1> USE DEF TypeOK, WorldType, dbVars, worldVars, factVars
<1>1. ASSUME NEW o \in Orders, NewOrder(o)
      PROVE  WorldType'
  BY <1>1 DEF NewOrder
<1>2. ASSUME NEW o \in Orders, Expire(o)
      PROVE  WorldType'
  BY <1>2 DEF Expire
<1>3. ASSUME NEW h \in Handlers, NEW o \in Orders, Poll(h, o)
      PROVE  WorldType'
  BY <1>3, BeginFacts DEF Poll, LoadOrder
<1>4. ASSUME NEW h \in Handlers, NEW o \in Orders, Finalize(h, o)
      PROVE  WorldType'
  BY <1>4, BeginFacts DEF Finalize, LoadOrder
<1>5. ASSUME NEW h \in Handlers, NEW o \in Orders, NEW i \in Idents,
             NEW t \in ChallengeTypes, Respond(h, o, i, t)
      PROVE  WorldType'
  BY <1>5, BeginFacts DEF Respond
<1>6. ASSUME NEW h \in Handlers, Recompute(h)
      PROVE  WorldType'
  BY <1>6 DEF Recompute, Derived
<1>7. ASSUME NEW h \in Handlers, SaveChecked(h)
      PROVE  WorldType'
  BY <1>7 DEF SaveChecked
<1>8. ASSUME NEW h \in Handlers, MeetNoRow(h)
      PROVE  WorldType'
  BY <1>8 DEF MeetNoRow
<1>9. ASSUME NEW h \in Handlers, RejectCsr(h)
      PROVE  WorldType'
  BY <1>9 DEF RejectCsr
<1>10. ASSUME NEW h \in Handlers, StartProcessing(h)
      PROVE  WorldType'
  BY <1>10 DEF StartProcessing
<1>11. ASSUME NEW h \in Handlers, UpstreamIssues(h)
      PROVE  WorldType'
  BY <1>11 DEF UpstreamIssues, SessionOK, SessionAt, IssuePC, AnswerPC
<1>12. ASSUME NEW h \in Handlers, UpstreamFails(h)
      PROVE  WorldType'
  BY <1>12 DEF UpstreamFails
<1>13. ASSUME NEW h \in Handlers, SaveCertificate(h)
      PROVE  WorldType'
  BY <1>13 DEF SaveCertificate
<1>14. ASSUME NEW h \in Handlers, RejectChain(h)
      PROVE  WorldType'
  BY <1>14 DEF RejectChain, SessionOK, SessionAt, IssuePC, AnswerPC
<1>15. ASSUME NEW h \in Handlers, SaveFailure(h)
      PROVE  WorldType'
  BY <1>15 DEF SaveFailure
<1>16. ASSUME NEW h \in Handlers, LoadAuthz(h)
      PROVE  WorldType'
  BY <1>16 DEF LoadAuthz
<1>17. ASSUME NEW h \in Handlers, TurnDown(h)
      PROVE  WorldType'
  BY <1>17 DEF TurnDown
<1>18. ASSUME NEW h \in Handlers, Accept(h)
      PROVE  WorldType'
  BY <1>18 DEF Accept, SessionOK, SessionAt, IssuePC, AnswerPC
<1>19. ASSUME NEW h \in Handlers, Refuse(h)
      PROVE  WorldType'
  BY <1>19 DEF Refuse, SessionOK, SessionAt, IssuePC, AnswerPC
<1>20. ASSUME NEW h \in Handlers, SaveAnswer(h)
      PROVE  WorldType'
  BY <1>20 DEF SaveAnswer
<1>21. ASSUME NEW p \in Purgers, PurgeScan(p)
      PROVE  WorldType'
  BY <1>21, BeginFacts DEF PurgeScan
<1>22. ASSUME NEW p \in Purgers, PurgeDelete(p)
      PROVE  WorldType'
  BY <1>22 DEF PurgeDelete
<1>23. CASE Crash
  BY <1>23 DEF Crash
<1>24. CASE UNCHANGED vars
  BY <1>24 DEF vars, dbVars, worldVars, factVars
<1> QED
  BY <1>1, <1>2, <1>3, <1>4, <1>5, <1>6, <1>7, <1>8, <1>9, <1>10, <1>11,
     <1>12, <1>13, <1>14, <1>15, <1>16, <1>17, <1>18, <1>19, <1>20, <1>21,
     <1>22, <1>23, <1>24 DEF Next, Request, Handle, Maintain

\* Every step leaves each session with what its request needs where it waits.
LEMMA SessionStep ==
  ASSUME TypeOK, SessionOK, [Next]_vars
  PROVE  SessionOK'
<1> USE DEF TypeOK, RequestType, SessionOK, SessionAt, OrderPC, IssuePC,
        AnswerPC, Finish, dbVars, worldVars, factVars
<1>1. ASSUME NEW o \in Orders, NewOrder(o)
      PROVE  SessionOK'
  BY <1>1 DEF NewOrder
<1>2. ASSUME NEW o \in Orders, Expire(o)
      PROVE  SessionOK'
  BY <1>2 DEF Expire
<1>3. ASSUME NEW h \in Handlers, NEW o \in Orders, Poll(h, o)
      PROVE  SessionOK'
  <2> SUFFICES ASSUME NEW g \in Handlers PROVE SessionAt(g)'
    BY DEF SessionOK
  <2>1. CASE g = h
    BY <1>3, <2>1 DEF Poll, LoadOrder, DatabaseType, OrderStatus, Holding
  <2>2. CASE g # h
    BY <1>3, <2>2 DEF Poll, LoadOrder, DatabaseType, OrderStatus
  <2> QED
    BY <2>1, <2>2
<1>4. ASSUME NEW h \in Handlers, NEW o \in Orders, Finalize(h, o)
      PROVE  SessionOK'
  <2> SUFFICES ASSUME NEW g \in Handlers PROVE SessionAt(g)'
    BY DEF SessionOK
  <2>1. CASE g = h
    BY <1>4, <2>1 DEF Finalize, LoadOrder, DatabaseType, OrderStatus, Holding
  <2>2. CASE g # h
    BY <1>4, <2>2 DEF Finalize, LoadOrder, DatabaseType, OrderStatus
  <2> QED
    BY <2>1, <2>2
<1>5. ASSUME NEW h \in Handlers, NEW o \in Orders, NEW i \in Idents,
             NEW t \in ChallengeTypes, Respond(h, o, i, t)
      PROVE  SessionOK'
  <2> SUFFICES ASSUME NEW g \in Handlers PROVE SessionAt(g)'
    BY DEF SessionOK
  <2>1. CASE g = h
    BY <1>5, <2>1 DEF Respond, Holding
  <2>2. CASE g # h
    BY <1>5, <2>2 DEF Respond
  <2> QED
    BY <2>1, <2>2
<1>6. ASSUME NEW h \in Handlers, Recompute(h)
      PROVE  SessionOK'
  BY <1>6 DEF Recompute, Derived
<1>7. ASSUME NEW h \in Handlers, SaveChecked(h)
      PROVE  SessionOK'
  BY <1>7 DEF SaveChecked
<1>8. ASSUME NEW h \in Handlers, MeetNoRow(h)
      PROVE  SessionOK'
  BY <1>8 DEF MeetNoRow
<1>9. ASSUME NEW h \in Handlers, RejectCsr(h)
      PROVE  SessionOK'
  BY <1>9 DEF RejectCsr
<1>10. ASSUME NEW h \in Handlers, StartProcessing(h)
      PROVE  SessionOK'
  <2> SUFFICES ASSUME NEW g \in Handlers PROVE SessionAt(g)'
    BY DEF SessionOK
  <2>1. CASE g = h
    BY <1>10, <2>1 DEF StartProcessing, Holding
  <2>2. CASE g # h
    BY <1>10, <2>2 DEF StartProcessing
  <2> QED
    BY <2>1, <2>2
<1>11. ASSUME NEW h \in Handlers, UpstreamIssues(h)
      PROVE  SessionOK'
  BY <1>11 DEF UpstreamIssues
<1>12. ASSUME NEW h \in Handlers, UpstreamFails(h)
      PROVE  SessionOK'
  BY <1>12 DEF UpstreamFails
<1>13. ASSUME NEW h \in Handlers, SaveCertificate(h)
      PROVE  SessionOK'
  BY <1>13 DEF SaveCertificate
<1>14. ASSUME NEW h \in Handlers, RejectChain(h)
      PROVE  SessionOK'
  BY <1>14 DEF RejectChain
<1>15. ASSUME NEW h \in Handlers, SaveFailure(h)
      PROVE  SessionOK'
  BY <1>15 DEF SaveFailure
<1>16. ASSUME NEW h \in Handlers, LoadAuthz(h)
      PROVE  SessionOK'
  <2> SUFFICES ASSUME NEW g \in Handlers PROVE SessionAt(g)'
    BY DEF SessionOK
  <2>1. CASE g = h
    BY <1>16, <2>1 DEF LoadAuthz, Holding
  <2>2. CASE g # h
    BY <1>16, <2>2 DEF LoadAuthz
  <2> QED
    BY <2>1, <2>2
<1>17. ASSUME NEW h \in Handlers, TurnDown(h)
      PROVE  SessionOK'
  BY <1>17 DEF TurnDown
<1>18. ASSUME NEW h \in Handlers, Accept(h)
      PROVE  SessionOK'
  BY <1>18 DEF Accept
<1>19. ASSUME NEW h \in Handlers, Refuse(h)
      PROVE  SessionOK'
  BY <1>19 DEF Refuse
<1>20. ASSUME NEW h \in Handlers, SaveAnswer(h)
      PROVE  SessionOK'
  BY <1>20 DEF SaveAnswer
<1>21. ASSUME NEW p \in Purgers, PurgeScan(p)
      PROVE  SessionOK'
  BY <1>21 DEF PurgeScan
<1>22. ASSUME NEW p \in Purgers, PurgeDelete(p)
      PROVE  SessionOK'
  BY <1>22 DEF PurgeDelete
<1>23. CASE Crash
  BY <1>23 DEF Crash
<1>24. CASE UNCHANGED vars
  BY <1>24 DEF vars, dbVars, worldVars, factVars
<1> QED
  BY <1>1, <1>2, <1>3, <1>4, <1>5, <1>6, <1>7, <1>8, <1>9, <1>10, <1>11,
     <1>12, <1>13, <1>14, <1>15, <1>16, <1>17, <1>18, <1>19, <1>20, <1>21,
     <1>22, <1>23, <1>24 DEF Next, Request, Handle, Maintain

\* Nothing runs at first.
LEMMA SessionInit == Init => SessionOK
  BY DEF Init, SessionOK, SessionAt, Blank, Holding, OrderPC, IssuePC, AnswerPC

\* The tables, the sessions and the world around them keep their types, and a
\* session holds what its request needs at every await.
THEOREM TypeCorrect == Spec => [](TypeOK /\ SessionOK)
<1>1. Init => TypeOK /\ SessionOK
  BY TypeInit, SessionInit
<1>2. TypeOK /\ SessionOK /\ [Next]_vars => (TypeOK /\ SessionOK)'
  BY RequestTypeStep, DatabaseTypeStep, WorldTypeStep, SessionStep DEF TypeOK
<1> QED
  BY <1>1, <1>2, PTL DEF Spec

\* A created order may be deleted but never becomes uncreated, so what is
\* about a created order stays so.
LEMMA ExistedStep ==
  ASSUME TypeOK, SessionOK, OrderExisted, [Next]_vars
  PROVE  OrderExisted'
<1> USE DEF TypeOK, DatabaseType, RequestType, WorldType, SessionOK,
        SessionAt, OrderPC, IssuePC, AnswerPC, Finish, dbVars,
        worldVars, factVars, OrderExisted
<1>1. ASSUME NEW o \in Orders, NewOrder(o)
      PROVE  OrderExisted'
  BY <1>1 DEF NewOrder
<1>2. ASSUME NEW o \in Orders, Expire(o)
      PROVE  OrderExisted'
  BY <1>2 DEF Expire, HasRow
<1>3. ASSUME NEW h \in Handlers, NEW o \in Orders, Poll(h, o)
      PROVE  OrderExisted'
  BY <1>3 DEF Poll, LoadOrder, Holding, HasRow
<1>4. ASSUME NEW h \in Handlers, NEW o \in Orders, Finalize(h, o)
      PROVE  OrderExisted'
  BY <1>4 DEF Finalize, LoadOrder, Holding, HasRow
<1>5. ASSUME NEW h \in Handlers, NEW o \in Orders, NEW i \in Idents,
             NEW t \in ChallengeTypes, Respond(h, o, i, t)
      PROVE  OrderExisted'
  BY <1>5 DEF Respond, Holding
<1>6. ASSUME NEW h \in Handlers, Recompute(h)
      PROVE  OrderExisted'
  BY <1>6 DEF Recompute, Derived
<1>7. ASSUME NEW h \in Handlers, SaveChecked(h)
      PROVE  OrderExisted'
  BY <1>7, ZenonT(40) DEF SaveChecked, HasRow
<1>8. ASSUME NEW h \in Handlers, MeetNoRow(h)
      PROVE  OrderExisted'
  BY <1>8 DEF MeetNoRow
<1>9. ASSUME NEW h \in Handlers, RejectCsr(h)
      PROVE  OrderExisted'
  BY <1>9 DEF RejectCsr
<1>10. ASSUME NEW h \in Handlers, StartProcessing(h)
      PROVE  OrderExisted'
  BY <1>10 DEF StartProcessing, Holding, HasRow
<1>11. ASSUME NEW h \in Handlers, UpstreamIssues(h)
      PROVE  OrderExisted'
  BY <1>11 DEF UpstreamIssues
<1>12. ASSUME NEW h \in Handlers, UpstreamFails(h)
      PROVE  OrderExisted'
  BY <1>12 DEF UpstreamFails
<1>13. ASSUME NEW h \in Handlers, SaveCertificate(h)
      PROVE  OrderExisted'
  BY <1>13 DEF SaveCertificate, HasRow
<1>14. ASSUME NEW h \in Handlers, RejectChain(h)
      PROVE  OrderExisted'
  BY <1>14 DEF RejectChain
<1>15. ASSUME NEW h \in Handlers, SaveFailure(h)
      PROVE  OrderExisted'
  BY <1>15 DEF SaveFailure, HasRow
<1>16. ASSUME NEW h \in Handlers, LoadAuthz(h)
      PROVE  OrderExisted'
  BY <1>16 DEF LoadAuthz, Holding, HasRow
<1>17. ASSUME NEW h \in Handlers, TurnDown(h)
      PROVE  OrderExisted'
  BY <1>17 DEF TurnDown
<1>18. ASSUME NEW h \in Handlers, Accept(h)
      PROVE  OrderExisted'
  BY <1>18 DEF Accept
<1>19. ASSUME NEW h \in Handlers, Refuse(h)
      PROVE  OrderExisted'
  BY <1>19 DEF Refuse
<1>20. ASSUME NEW h \in Handlers, SaveAnswer(h)
      PROVE  OrderExisted'
  BY <1>20 DEF SaveAnswer
<1>21. ASSUME NEW p \in Purgers, PurgeScan(p)
      PROVE  OrderExisted'
  BY <1>21 DEF PurgeScan, HasRow
<1>22. ASSUME NEW p \in Purgers, PurgeDelete(p)
      PROVE  OrderExisted'
  BY <1>22 DEF PurgeDelete, HasRow
<1>23. CASE Crash
  BY <1>23 DEF Crash
<1>24. CASE UNCHANGED vars
  BY <1>24 DEF vars, dbVars, worldVars, factVars
<1> QED
  BY <1>1, <1>2, <1>3, <1>4, <1>5, <1>6, <1>7, <1>8, <1>9, <1>10, <1>11,
     <1>12, <1>13, <1>14, <1>15, <1>16, <1>17, <1>18, <1>19, <1>20, <1>21,
     <1>22, <1>23, <1>24 DEF Next, Request, Handle, Maintain

\* Every step keeps each status past "pending", stored or in a session, backed by
\* accepted identifiers: the induction behind IssuanceIsEarned.
LEMMA ProvenanceStep ==
  ASSUME TypeOK, SessionOK, OrderExisted, Provenance, [Next]_vars
  PROVE  Provenance'
<1> USE DEF TypeOK, DatabaseType, RequestType, WorldType, SessionOK,
        SessionAt, OrderPC, IssuePC, AnswerPC, Finish, dbVars,
        worldVars, factVars, OrderExisted, Provenance, Earned, AllProved, Wanted
<1>1. ASSUME NEW o \in Orders, NewOrder(o)
      PROVE  Provenance'
  BY <1>1 DEF NewOrder
<1>2. ASSUME NEW o \in Orders, Expire(o)
      PROVE  Provenance'
  BY <1>2 DEF Expire, HasRow
<1>3. ASSUME NEW h \in Handlers, NEW o \in Orders, Poll(h, o)
      PROVE  Provenance'
  BY <1>3 DEF Poll, LoadOrder, Holding, HasRow
<1>4. ASSUME NEW h \in Handlers, NEW o \in Orders, Finalize(h, o)
      PROVE  Provenance'
  BY <1>4 DEF Finalize, LoadOrder, Holding, HasRow
<1>5. ASSUME NEW h \in Handlers, NEW o \in Orders, NEW i \in Idents,
             NEW t \in ChallengeTypes, Respond(h, o, i, t)
      PROVE  Provenance'
  BY <1>5 DEF Respond, Holding
<1>6. ASSUME NEW h \in Handlers, Recompute(h)
      PROVE  Provenance'
  BY <1>6 DEF Recompute, Derived
<1>7. ASSUME NEW h \in Handlers, SaveChecked(h)
      PROVE  Provenance'
  BY <1>7 DEF SaveChecked, HasRow
<1>8. ASSUME NEW h \in Handlers, MeetNoRow(h)
      PROVE  Provenance'
  BY <1>8 DEF MeetNoRow
<1>9. ASSUME NEW h \in Handlers, RejectCsr(h)
      PROVE  Provenance'
  BY <1>9 DEF RejectCsr
<1>10. ASSUME NEW h \in Handlers, StartProcessing(h)
      PROVE  Provenance'
  BY <1>10 DEF StartProcessing, Holding, HasRow
<1>11. ASSUME NEW h \in Handlers, UpstreamIssues(h)
      PROVE  Provenance'
  BY <1>11 DEF UpstreamIssues
<1>12. ASSUME NEW h \in Handlers, UpstreamFails(h)
      PROVE  Provenance'
  BY <1>12 DEF UpstreamFails
<1>13. ASSUME NEW h \in Handlers, SaveCertificate(h)
      PROVE  Provenance'
  BY <1>13 DEF SaveCertificate, HasRow
<1>14. ASSUME NEW h \in Handlers, RejectChain(h)
      PROVE  Provenance'
  BY <1>14 DEF RejectChain
<1>15. ASSUME NEW h \in Handlers, SaveFailure(h)
      PROVE  Provenance'
  BY <1>15 DEF SaveFailure, HasRow
<1>16. ASSUME NEW h \in Handlers, LoadAuthz(h)
      PROVE  Provenance'
  BY <1>16 DEF LoadAuthz, Holding, HasRow
<1>17. ASSUME NEW h \in Handlers, TurnDown(h)
      PROVE  Provenance'
  BY <1>17 DEF TurnDown
<1>18. ASSUME NEW h \in Handlers, Accept(h)
      PROVE  Provenance'
  BY <1>18 DEF Accept
<1>19. ASSUME NEW h \in Handlers, Refuse(h)
      PROVE  Provenance'
  BY <1>19 DEF Refuse
<1>20. ASSUME NEW h \in Handlers, SaveAnswer(h)
      PROVE  Provenance'
  BY <1>20 DEF SaveAnswer
<1>21. ASSUME NEW p \in Purgers, PurgeScan(p)
      PROVE  Provenance'
  BY <1>21 DEF PurgeScan, HasRow
<1>22. ASSUME NEW p \in Purgers, PurgeDelete(p)
      PROVE  Provenance'
  BY <1>22 DEF PurgeDelete, HasRow
<1>23. CASE Crash
  BY <1>23 DEF Crash
<1>24. CASE UNCHANGED vars
  BY <1>24 DEF vars, dbVars, worldVars, factVars
<1> QED
  BY <1>1, <1>2, <1>3, <1>4, <1>5, <1>6, <1>7, <1>8, <1>9, <1>10, <1>11,
     <1>12, <1>13, <1>14, <1>15, <1>16, <1>17, <1>18, <1>19, <1>20, <1>21,
     <1>22, <1>23, <1>24 DEF Next, Request, Handle, Maintain

\* Every step keeps each "invalid", stored or in a session, backed by a refusal
\* or an error: the induction behind InvalidityIsCaused.
LEMMA CausesStep ==
  ASSUME TypeOK, SessionOK, OrderExisted, Causes, [Next]_vars
  PROVE  Causes'
<1> USE DEF TypeOK, DatabaseType, RequestType, WorldType, SessionOK,
        SessionAt, OrderPC, IssuePC, AnswerPC, Finish, dbVars,
        worldVars, factVars, Causes, Cause
<1>1. ASSUME NEW o \in Orders, NewOrder(o)
      PROVE  Causes'
  <2>1. \A q \in Orders, i \in Idents :
          authz'[q][i] = "invalid" => <<q, i>> \in refuted
    BY <1>1 DEF NewOrder
  <2>2. ordStatus'[o] = "pending"
    BY <1>1 DEF NewOrder
  <2>3. \A q \in Orders : ordStatus'[q] = "invalid" => Cause(q)'
    BY <1>1, <2>2 DEF NewOrder
  <2> QED
    BY <1>1, <2>1, <2>3 DEF NewOrder
<1>2. ASSUME NEW o \in Orders, Expire(o)
      PROVE  Causes'
  BY <1>2 DEF Expire, HasRow
<1>3. ASSUME NEW h \in Handlers, NEW o \in Orders, Poll(h, o)
      PROVE  Causes'
  BY <1>3 DEF Poll, LoadOrder, Holding, HasRow
<1>4. ASSUME NEW h \in Handlers, NEW o \in Orders, Finalize(h, o)
      PROVE  Causes'
  BY <1>4 DEF Finalize, LoadOrder, Holding, HasRow
<1>5. ASSUME NEW h \in Handlers, NEW o \in Orders, NEW i \in Idents,
             NEW t \in ChallengeTypes, Respond(h, o, i, t)
      PROVE  Causes'
  BY <1>5 DEF Respond, Holding
<1>6. ASSUME NEW h \in Handlers, Recompute(h)
      PROVE  Causes'
  <2> DEFINE m == mem[h]
  <2>1. m.order \in Orders
    BY <1>6 DEF Recompute
  <2> HIDE DEF Cause
  <2>0. \A q \in Orders : Cause(q)' <=> Cause(q)
    BY <1>6 DEF Recompute, Cause
  <2>2. CASE m.attr = "invalid"
    <3>1. Cause(m.order)
      BY <1>6, <2>2 DEF Recompute
    <3> QED
      BY <1>6, <2>0, <2>1, <3>1 DEF Recompute
  <2>3. CASE m.attr # "invalid" /\ \E i \in Idents : authz[m.order][i] = "invalid"
    <3>1. Cause(m.order)
      BY <2>1, <2>3 DEF Cause
    <3> QED
      BY <1>6, <2>0, <2>1, <3>1 DEF Recompute
  <2>4. CASE m.attr # "invalid" /\ ~\E i \in Idents : authz[m.order][i] = "invalid"
    <3>1. mem'[h].attr # "invalid"
      BY <1>6, <2>1, <2>4 DEF Recompute, Derived
    <3> QED
      BY <1>6, <2>0, <3>1 DEF Recompute
  <2> QED
    BY <2>2, <2>3, <2>4
<1>7. ASSUME NEW h \in Handlers, SaveChecked(h)
      PROVE  Causes'
  BY <1>7 DEF SaveChecked, HasRow
<1>8. ASSUME NEW h \in Handlers, MeetNoRow(h)
      PROVE  Causes'
  BY <1>8 DEF MeetNoRow
<1>9. ASSUME NEW h \in Handlers, RejectCsr(h)
      PROVE  Causes'
  BY <1>9 DEF RejectCsr
<1>10. ASSUME NEW h \in Handlers, StartProcessing(h)
      PROVE  Causes'
  BY <1>10 DEF StartProcessing, Holding, HasRow
<1>11. ASSUME NEW h \in Handlers, UpstreamIssues(h)
      PROVE  Causes'
  BY <1>11 DEF UpstreamIssues
<1>12. ASSUME NEW h \in Handlers, UpstreamFails(h)
      PROVE  Causes'
  BY <1>12 DEF UpstreamFails
<1>13. ASSUME NEW h \in Handlers, SaveCertificate(h)
      PROVE  Causes'
  BY <1>13 DEF SaveCertificate, HasRow
<1>14. ASSUME NEW h \in Handlers, RejectChain(h)
      PROVE  Causes'
  BY <1>14 DEF RejectChain
<1>15. ASSUME NEW h \in Handlers, SaveFailure(h)
      PROVE  Causes'
  BY <1>15 DEF SaveFailure, HasRow
<1>16. ASSUME NEW h \in Handlers, LoadAuthz(h)
      PROVE  Causes'
  BY <1>16 DEF LoadAuthz, Holding, HasRow
<1>17. ASSUME NEW h \in Handlers, TurnDown(h)
      PROVE  Causes'
  BY <1>17 DEF TurnDown
<1>18. ASSUME NEW h \in Handlers, Accept(h)
      PROVE  Causes'
  BY <1>18 DEF Accept
<1>19. ASSUME NEW h \in Handlers, Refuse(h)
      PROVE  Causes'
  <2>1. \A q \in Orders : Cause(q) => Cause(q)'
    BY <1>19 DEF Refuse
  <2>2. refuted' = refuted \cup {<<mem[h].order, mem[h].ident>>}
    BY <1>19 DEF Refuse
  <2>3. /\ \A q \in Orders, i \in Idents :
             authz'[q][i] = "invalid" => <<q, i>> \in refuted'
        /\ \A q \in Orders : ordStatus'[q] = "invalid" => Cause(q)'
    BY <1>19, <2>1, <2>2 DEF Refuse
  <2>4. \A g \in Handlers :
          pc'[g] = "refused" => <<mem'[g].order, mem'[g].ident>> \in refuted'
    BY <1>19, <2>2 DEF Refuse
  <2>5. \A g \in Handlers :
          pc'[g] \in OrderPC =>
            pc[g] = pc'[g] /\ mem'[g] = mem[g] /\ mem[g].order \in Orders
    BY <1>19 DEF Refuse
  <2> HIDE DEF Cause
  <2> QED
    BY <1>19, <2>1, <2>3, <2>4, <2>5
<1>20. ASSUME NEW h \in Handlers, SaveAnswer(h)
      PROVE  Causes'
  BY <1>20 DEF SaveAnswer
<1>21. ASSUME NEW p \in Purgers, PurgeScan(p)
      PROVE  Causes'
  BY <1>21 DEF PurgeScan, HasRow
<1>22. ASSUME NEW p \in Purgers, PurgeDelete(p)
      PROVE  Causes'
  BY <1>22 DEF PurgeDelete, HasRow
<1>23. CASE Crash
  BY <1>23 DEF Crash
<1>24. CASE UNCHANGED vars
  BY <1>24 DEF vars, dbVars, worldVars, factVars
<1> QED
  BY <1>1, <1>2, <1>3, <1>4, <1>5, <1>6, <1>7, <1>8, <1>9, <1>10, <1>11,
     <1>12, <1>13, <1>14, <1>15, <1>16, <1>17, <1>18, <1>19, <1>20, <1>21,
     <1>22, <1>23, <1>24 DEF Next, Request, Handle, Maintain

\* Only the commit that adds the certificate row makes an order valid or sets
\* its certificate, and it does both.
LEMMA CertificateStep ==
  ASSUME TypeOK, SessionOK, ValidHasCertificate, [Next]_vars
  PROVE  ValidHasCertificate'
<1> USE DEF TypeOK, DatabaseType, RequestType, WorldType, SessionOK,
        SessionAt, OrderPC, IssuePC, AnswerPC, Finish, dbVars,
        worldVars, factVars, ValidHasCertificate
<1>1. ASSUME NEW o \in Orders, NewOrder(o)
      PROVE  ValidHasCertificate'
  BY <1>1 DEF NewOrder
<1>2. ASSUME NEW o \in Orders, Expire(o)
      PROVE  ValidHasCertificate'
  BY <1>2 DEF Expire, HasRow
<1>3. ASSUME NEW h \in Handlers, NEW o \in Orders, Poll(h, o)
      PROVE  ValidHasCertificate'
  BY <1>3 DEF Poll, LoadOrder, Holding, HasRow
<1>4. ASSUME NEW h \in Handlers, NEW o \in Orders, Finalize(h, o)
      PROVE  ValidHasCertificate'
  BY <1>4 DEF Finalize, LoadOrder, Holding, HasRow
<1>5. ASSUME NEW h \in Handlers, NEW o \in Orders, NEW i \in Idents,
             NEW t \in ChallengeTypes, Respond(h, o, i, t)
      PROVE  ValidHasCertificate'
  BY <1>5 DEF Respond, Holding
<1>6. ASSUME NEW h \in Handlers, Recompute(h)
      PROVE  ValidHasCertificate'
  BY <1>6 DEF Recompute, Derived
<1>7. ASSUME NEW h \in Handlers, SaveChecked(h)
      PROVE  ValidHasCertificate'
  BY <1>7 DEF SaveChecked, HasRow
<1>8. ASSUME NEW h \in Handlers, MeetNoRow(h)
      PROVE  ValidHasCertificate'
  BY <1>8 DEF MeetNoRow
<1>9. ASSUME NEW h \in Handlers, RejectCsr(h)
      PROVE  ValidHasCertificate'
  BY <1>9 DEF RejectCsr
<1>10. ASSUME NEW h \in Handlers, StartProcessing(h)
      PROVE  ValidHasCertificate'
  BY <1>10 DEF StartProcessing, Holding, HasRow
<1>11. ASSUME NEW h \in Handlers, UpstreamIssues(h)
      PROVE  ValidHasCertificate'
  BY <1>11 DEF UpstreamIssues
<1>12. ASSUME NEW h \in Handlers, UpstreamFails(h)
      PROVE  ValidHasCertificate'
  BY <1>12 DEF UpstreamFails
<1>13. ASSUME NEW h \in Handlers, SaveCertificate(h)
      PROVE  ValidHasCertificate'
  BY <1>13 DEF SaveCertificate, HasRow
<1>14. ASSUME NEW h \in Handlers, RejectChain(h)
      PROVE  ValidHasCertificate'
  BY <1>14 DEF RejectChain
<1>15. ASSUME NEW h \in Handlers, SaveFailure(h)
      PROVE  ValidHasCertificate'
  BY <1>15 DEF SaveFailure, HasRow
<1>16. ASSUME NEW h \in Handlers, LoadAuthz(h)
      PROVE  ValidHasCertificate'
  BY <1>16 DEF LoadAuthz, Holding, HasRow
<1>17. ASSUME NEW h \in Handlers, TurnDown(h)
      PROVE  ValidHasCertificate'
  BY <1>17 DEF TurnDown
<1>18. ASSUME NEW h \in Handlers, Accept(h)
      PROVE  ValidHasCertificate'
  BY <1>18 DEF Accept
<1>19. ASSUME NEW h \in Handlers, Refuse(h)
      PROVE  ValidHasCertificate'
  BY <1>19 DEF Refuse
<1>20. ASSUME NEW h \in Handlers, SaveAnswer(h)
      PROVE  ValidHasCertificate'
  BY <1>20 DEF SaveAnswer
<1>21. ASSUME NEW p \in Purgers, PurgeScan(p)
      PROVE  ValidHasCertificate'
  BY <1>21 DEF PurgeScan, HasRow
<1>22. ASSUME NEW p \in Purgers, PurgeDelete(p)
      PROVE  ValidHasCertificate'
  BY <1>22 DEF PurgeDelete, HasRow
<1>23. CASE Crash
  BY <1>23 DEF Crash
<1>24. CASE UNCHANGED vars
  BY <1>24 DEF vars, dbVars, worldVars, factVars
<1> QED
  BY <1>1, <1>2, <1>3, <1>4, <1>5, <1>6, <1>7, <1>8, <1>9, <1>10, <1>11,
     <1>12, <1>13, <1>14, <1>15, <1>16, <1>17, <1>18, <1>19, <1>20, <1>21,
     <1>22, <1>23, <1>24 DEF Next, Request, Handle, Maintain

\* "processing" is written by the request that goes on to work on the order, and
\* left by it alone.
LEMMA WorkerStep ==
  ASSUME TypeOK, SessionOK, ProcessingHasWorker, [Next]_vars
  PROVE  ProcessingHasWorker'
<1> USE DEF TypeOK, DatabaseType, RequestType, WorldType, SessionOK,
        SessionAt, OrderPC, IssuePC, AnswerPC, Finish, dbVars,
        worldVars, factVars, ProcessingHasWorker, Working
<1>1. ASSUME NEW o \in Orders, NewOrder(o)
      PROVE  ProcessingHasWorker'
  BY <1>1 DEF NewOrder
<1>2. ASSUME NEW o \in Orders, Expire(o)
      PROVE  ProcessingHasWorker'
  BY <1>2 DEF Expire, HasRow
<1>3. ASSUME NEW h \in Handlers, NEW o \in Orders, Poll(h, o)
      PROVE  ProcessingHasWorker'
  BY <1>3 DEF Poll, LoadOrder, Holding, HasRow
<1>4. ASSUME NEW h \in Handlers, NEW o \in Orders, Finalize(h, o)
      PROVE  ProcessingHasWorker'
  BY <1>4 DEF Finalize, LoadOrder, Holding, HasRow
<1>5. ASSUME NEW h \in Handlers, NEW o \in Orders, NEW i \in Idents,
             NEW t \in ChallengeTypes, Respond(h, o, i, t)
      PROVE  ProcessingHasWorker'
  BY <1>5 DEF Respond, Holding
<1>6. ASSUME NEW h \in Handlers, Recompute(h)
      PROVE  ProcessingHasWorker'
  BY <1>6 DEF Recompute, Derived
<1>7. ASSUME NEW h \in Handlers, SaveChecked(h)
      PROVE  ProcessingHasWorker'
  BY <1>7 DEF SaveChecked, HasRow
<1>8. ASSUME NEW h \in Handlers, MeetNoRow(h)
      PROVE  ProcessingHasWorker'
  BY <1>8 DEF MeetNoRow, HasRow
<1>9. ASSUME NEW h \in Handlers, RejectCsr(h)
      PROVE  ProcessingHasWorker'
  BY <1>9 DEF RejectCsr
<1>10. ASSUME NEW h \in Handlers, StartProcessing(h)
      PROVE  ProcessingHasWorker'
  BY <1>10 DEF StartProcessing, Holding, HasRow
<1>11. ASSUME NEW h \in Handlers, UpstreamIssues(h)
      PROVE  ProcessingHasWorker'
  BY <1>11 DEF UpstreamIssues
<1>12. ASSUME NEW h \in Handlers, UpstreamFails(h)
      PROVE  ProcessingHasWorker'
  BY <1>12 DEF UpstreamFails
<1>13. ASSUME NEW h \in Handlers, SaveCertificate(h)
      PROVE  ProcessingHasWorker'
  BY <1>13 DEF SaveCertificate, HasRow
<1>14. ASSUME NEW h \in Handlers, RejectChain(h)
      PROVE  ProcessingHasWorker'
  BY <1>14 DEF RejectChain
<1>15. ASSUME NEW h \in Handlers, SaveFailure(h)
      PROVE  ProcessingHasWorker'
  BY <1>15 DEF SaveFailure, HasRow
<1>16. ASSUME NEW h \in Handlers, LoadAuthz(h)
      PROVE  ProcessingHasWorker'
  BY <1>16 DEF LoadAuthz, Holding, HasRow
<1>17. ASSUME NEW h \in Handlers, TurnDown(h)
      PROVE  ProcessingHasWorker'
  BY <1>17 DEF TurnDown
<1>18. ASSUME NEW h \in Handlers, Accept(h)
      PROVE  ProcessingHasWorker'
  BY <1>18 DEF Accept
<1>19. ASSUME NEW h \in Handlers, Refuse(h)
      PROVE  ProcessingHasWorker'
  BY <1>19 DEF Refuse
<1>20. ASSUME NEW h \in Handlers, SaveAnswer(h)
      PROVE  ProcessingHasWorker'
  BY <1>20 DEF SaveAnswer
<1>21. ASSUME NEW p \in Purgers, PurgeScan(p)
      PROVE  ProcessingHasWorker'
  BY <1>21 DEF PurgeScan, HasRow
<1>22. ASSUME NEW p \in Purgers, PurgeDelete(p)
      PROVE  ProcessingHasWorker'
  BY <1>22 DEF PurgeDelete, HasRow
<1>23. CASE Crash
  BY <1>23 DEF Crash
<1>24. CASE UNCHANGED vars
  BY <1>24 DEF vars, dbVars, worldVars, factVars
<1> QED
  BY <1>1, <1>2, <1>3, <1>4, <1>5, <1>6, <1>7, <1>8, <1>9, <1>10, <1>11,
     <1>12, <1>13, <1>14, <1>15, <1>16, <1>17, <1>18, <1>19, <1>20, <1>21,
     <1>22, <1>23, <1>24 DEF Next, Request, Handle, Maintain

\* The inductive invariants hold of the empty database.
LEMMA InvInit ==
  Init => OrderExisted /\ Provenance /\ Causes /\ ValidHasCertificate
                       /\ ProcessingHasWorker
  BY OrdersAssumption
  DEF Init, OrderExisted, Provenance, Causes, Cause, ValidHasCertificate,
      ProcessingHasWorker, AllProved, Wanted, Earned, OrderPC, IssuePC, AnswerPC

\* No upstream is ever asked for a certificate for an order with an identifier
\* that no validator has accepted: by Provenance, every way to "ready" goes
\* through authorizations made valid by an accepting validator, and none of the
\* stale copies a session may write back is past that point without it.
THEOREM IssuanceIsEarned == Spec => []IssuedOnlyIfProved
<1>1. Init => OrderExisted /\ Provenance
  BY InvInit
<1>2. TypeOK /\ SessionOK /\ OrderExisted /\ Provenance /\ [Next]_vars
      => (OrderExisted /\ Provenance)'
  BY ExistedStep, ProvenanceStep
<1>3. SessionOK /\ Provenance => IssuedOnlyIfProved
  BY DEF SessionOK, SessionAt, Provenance, IssuedOnlyIfProved, Working, Earned,
         IssuePC
<1> QED
  BY <1>1, <1>2, <1>3, TypeCorrect, PTL DEF Spec

\* Every invalid order can show why: see Causes.
THEOREM InvalidityIsCaused == Spec => []InvalidHasCause
<1>1. Init => OrderExisted /\ Causes
  BY InvInit
<1>2. TypeOK /\ SessionOK /\ OrderExisted /\ Causes /\ [Next]_vars
      => (OrderExisted /\ Causes)'
  BY ExistedStep, CausesStep
<1>3. Causes => InvalidHasCause
  BY DEF Causes, InvalidHasCause
<1> QED
  BY <1>1, <1>2, <1>3, TypeCorrect, PTL DEF Spec

\* A valid order and its certificate row name each other, at all times.
THEOREM ValidityIsCertified == Spec => []ValidHasCertificate
<1>1. Init => ValidHasCertificate
  BY InvInit
<1>2. TypeOK /\ SessionOK /\ ValidHasCertificate /\ [Next]_vars
      => ValidHasCertificate'
  BY CertificateStep
<1> QED
  BY <1>1, <1>2, TypeCorrect, PTL DEF Spec

\* Only a crash or a broken chain leaves an order in "processing" unattended.
THEOREM ProcessingIsAttended == Spec => []ProcessingHasWorker
<1>1. Init => ProcessingHasWorker
  BY InvInit
<1>2. TypeOK /\ SessionOK /\ ProcessingHasWorker /\ [Next]_vars
      => ProcessingHasWorker'
  BY WorkerStep
<1> QED
  BY <1>1, <1>2, TypeCorrect, PTL DEF Spec

-----------------------------------------------------------------------------
(* Certificates are counted: those stored, and those about to be.          *)

Stored(o) == {k \in DOMAIN certs : certs[k] = o}
Chains(o) == {h \in Handlers : pc[h] = "chain" /\ mem[h].order = o}

\* Why IssuanceAccounted is kept: it holds before an order is created, too, and
\* of the requests about to store a certificate there are finitely many.
Accounts ==
  \A o \in Orders :
    /\ IsFiniteSet(Chains(o))
    /\ ordStatus[o] # "deleted" /\ o \notin stranded =>
         issued[o] = Cardinality(Stored(o)) + Cardinality(Chains(o))

\* The rows of an order are a finite set.
LEMMA StoredFinite ==
  ASSUME TypeOK, NEW o
  PROVE  IsFiniteSet(Stored(o)) /\ Cardinality(Stored(o)) \in Nat
<1>1. Len(certs) \in Nat /\ Stored(o) \in SUBSET (1 .. Len(certs))
  BY DEF Stored, TypeOK, DatabaseType
<1>2. IsFiniteSet(1 .. Len(certs))
  BY <1>1, FS_Interval
<1> QED
  BY <1>1, <1>2, FS_Subset, FS_CardinalityType

\* A step of a request that neither gets nor gives away a certificate.
LEMMA AccountsFrame ==
  ASSUME TypeOK, Accounts, NEW h \in Handlers,
         pc[h] # "chain", pc'[h] # "chain",
         \A g \in Handlers \ {h} : pc'[g] = pc[g] /\ mem'[g] = mem[g],
         UNCHANGED <<issued, certs, stranded>>,
         \A o \in Orders : ordStatus[o] = "deleted" => ordStatus'[o] = "deleted"
  PROVE  Accounts'
<1>1. \A o : Chains(o)' = Chains(o) /\ Stored(o)' = Stored(o)
  BY DEF Chains, Stored
<1> QED
  BY <1>1 DEF Accounts

\* A step that is about no request.
LEMMA AccountsIdle ==
  ASSUME Accounts, UNCHANGED <<pc, mem, issued, certs, stranded>>,
         \A o \in Orders : ordStatus[o] = "deleted" => ordStatus'[o] = "deleted"
  PROVE  Accounts'
<1>1. \A o : Chains(o)' = Chains(o) /\ Stored(o)' = Stored(o)
  BY DEF Chains, Stored
<1> QED
  BY <1>1 DEF Accounts

\* A request that is done with the certificate it had.
LEMMA ChainLeaves ==
  ASSUME TypeOK, NEW h \in Handlers, pc[h] = "chain", Finish(h)
  PROVE  \A o : Chains(o)' = IF o = mem[h].order THEN Chains(o) \ {h} ELSE Chains(o)
<1> SUFFICES ASSUME NEW o
             PROVE  Chains(o)' = IF o = mem[h].order THEN Chains(o) \ {h} ELSE Chains(o)
  OBVIOUS
<1>1. /\ pc'[h] = "idle"
      /\ \A g \in Handlers \ {h} : pc'[g] = pc[g] /\ mem'[g] = mem[g]
  BY DEF Finish, TypeOK, RequestType
<1>2. \A g : g \in Chains(o)' <=> g \in Chains(o) /\ g # h
  BY <1>1 DEF Chains
<1>3. h \in Chains(o) => o = mem[h].order
  BY DEF Chains
<1> QED
  BY <1>2, <1>3

\* Every step keeps the count: the two that change it change both sides.
LEMMA AccountsStep ==
  ASSUME TypeOK, SessionOK, OrderExisted, Accounts, [Next]_vars
  PROVE  Accounts'
<1> USE DEF TypeOK, DatabaseType, RequestType, SessionOK, SessionAt, OrderPC,
        IssuePC, AnswerPC, Finish, dbVars, worldVars, factVars, HasRow
<1>1. ASSUME NEW o \in Orders, NewOrder(o)
      PROVE  Accounts'
  BY <1>1, AccountsIdle DEF NewOrder
<1>2. ASSUME NEW o \in Orders, Expire(o)
      PROVE  Accounts'
  BY <1>2, AccountsIdle DEF Expire
<1>3. ASSUME NEW h \in Handlers, NEW o \in Orders, Poll(h, o)
      PROVE  Accounts'
  BY <1>3, AccountsFrame DEF Poll, LoadOrder
<1>4. ASSUME NEW h \in Handlers, NEW o \in Orders, Finalize(h, o)
      PROVE  Accounts'
  BY <1>4, AccountsFrame DEF Finalize, LoadOrder
<1>5. ASSUME NEW h \in Handlers, NEW o \in Orders, NEW i \in Idents,
             NEW t \in ChallengeTypes, Respond(h, o, i, t)
      PROVE  Accounts'
  BY <1>5, AccountsFrame DEF Respond
<1>6. ASSUME NEW h \in Handlers, Recompute(h)
      PROVE  Accounts'
  BY <1>6, AccountsFrame DEF Recompute
<1>7. ASSUME NEW h \in Handlers, SaveChecked(h)
      PROVE  Accounts'
  BY <1>7, AccountsFrame DEF SaveChecked
<1>8. ASSUME NEW h \in Handlers, MeetNoRow(h)
      PROVE  Accounts'
  <2>1. CASE pc[h] # "chain"
    BY <1>8, <2>1, AccountsFrame DEF MeetNoRow
  <2>2. CASE pc[h] = "chain"
    <3>1. mem[h].order \in Orders /\ ordStatus[mem[h].order] = "deleted"
      BY <1>8, <2>2 DEF MeetNoRow, OrderExisted
    <3>2. \A o : Chains(o)' = IF o = mem[h].order THEN Chains(o) \ {h} ELSE Chains(o)
      BY <1>8, <2>2, ChainLeaves DEF MeetNoRow
    <3>3. \A o \in Orders : IsFiniteSet(Chains(o)')
      BY <3>2, FS_RemoveElement DEF Accounts
    <3>4. UNCHANGED <<issued, certs, stranded, ordStatus>>
      BY <1>8 DEF MeetNoRow
    <3>5. \A o : Stored(o)' = Stored(o)
      BY <3>4 DEF Stored
    <3> QED
      BY <3>1, <3>2, <3>3, <3>4, <3>5 DEF Accounts
  <2> QED
    BY <2>1, <2>2
<1>9. ASSUME NEW h \in Handlers, RejectCsr(h)
      PROVE  Accounts'
  BY <1>9, AccountsFrame DEF RejectCsr
<1>10. ASSUME NEW h \in Handlers, StartProcessing(h)
      PROVE  Accounts'
  BY <1>10, AccountsFrame DEF StartProcessing
<1>11. ASSUME NEW h \in Handlers, UpstreamIssues(h)
      PROVE  Accounts'
  <2> DEFINE q == mem[h].order
  <2>1. q \in Orders /\ pc[h] = "upstream"
    BY <1>11 DEF UpstreamIssues
  <2>2. /\ UNCHANGED <<certs, stranded, ordStatus, mem>>
        /\ pc'[h] = "chain" /\ \A g \in Handlers \ {h} : pc'[g] = pc[g]
        /\ issued' = [issued EXCEPT ![q] = issued[q] + 1]
    BY <1>11 DEF UpstreamIssues
  <2>3. \A o : Stored(o)' = Stored(o)
    BY <2>2 DEF Stored
  <2>4. \A o : Chains(o)' = IF o = q THEN Chains(o) \cup {h} ELSE Chains(o)
    BY <2>2 DEF Chains
  <2>5. h \notin Chains(q)
    BY <2>1 DEF Chains
  <2>6. ASSUME NEW o \in Orders
        PROVE  /\ IsFiniteSet(Chains(o)')
               /\ ordStatus'[o] # "deleted" /\ o \notin stranded' =>
                    issued'[o] = Cardinality(Stored(o)') + Cardinality(Chains(o)')
    <3>1. CASE o # q
      BY <2>2, <2>3, <2>4, <3>1 DEF Accounts, WorldType
    <3>2. CASE o = q
      <4>1. IsFiniteSet(Chains(q)) /\ Cardinality(Chains(q)) \in Nat
        BY <2>1, FS_CardinalityType DEF Accounts
      <4>2. /\ IsFiniteSet(Chains(q) \cup {h})
            /\ Cardinality(Chains(q) \cup {h}) = Cardinality(Chains(q)) + 1
        BY <2>5, <4>1, FS_AddElement
      <4>3. Chains(o)' = Chains(q) \cup {h} /\ Stored(o)' = Stored(q)
        BY <2>3, <2>4, <3>2
      <4>4. issued'[o] = issued[q] + 1 /\ issued[q] \in Nat
        BY <2>1, <2>2, <3>2 DEF WorldType
      <4>5. ordStatus'[o] = ordStatus[q] /\ stranded' = stranded
        BY <2>2, <3>2
      <4>6. ordStatus[q] # "deleted" /\ q \notin stranded =>
              issued[q] = Cardinality(Stored(q)) + Cardinality(Chains(q))
        BY <2>1 DEF Accounts
      <4>7. Cardinality(Stored(q)) \in Nat
        BY StoredFinite
      <4> HIDE DEF q, Chains, Stored, TypeOK, DatabaseType, RequestType
      <4> QED
        BY <3>2, <4>1, <4>2, <4>3, <4>4, <4>5, <4>6, <4>7
    <3> QED
      BY <3>1, <3>2
  <2> QED
    BY <2>6 DEF Accounts
<1>12. ASSUME NEW h \in Handlers, UpstreamFails(h)
      PROVE  Accounts'
  BY <1>12, AccountsFrame DEF UpstreamFails
<1>13. ASSUME NEW h \in Handlers, SaveCertificate(h)
      PROVE  Accounts'
  <2> DEFINE q == mem[h].order
             n == Len(certs) + 1
  <2>1. q \in Orders /\ pc[h] = "chain"
    BY <1>13 DEF SaveCertificate
  <2>2. /\ UNCHANGED <<issued, stranded>>
        /\ \A o \in Orders : ordStatus[o] = "deleted" => ordStatus'[o] = "deleted"
        /\ certs' = Append(certs, q)
    BY <1>13 DEF SaveCertificate
  <2>3. \A o : Chains(o)' = IF o = q THEN Chains(o) \ {h} ELSE Chains(o)
    BY <1>13, <2>1, ChainLeaves DEF SaveCertificate
  <2>4. \A o : Stored(o)' = IF o = q THEN Stored(o) \cup {n} ELSE Stored(o)
    <3>1. /\ Len(certs) \in Nat /\ DOMAIN certs' = 1 .. n
          /\ DOMAIN certs = 1 .. Len(certs) /\ certs'[n] = q
          /\ \A k \in DOMAIN certs : certs'[k] = certs[k]
      BY <2>1, <2>2
    <3> QED
      BY <3>1 DEF Stored
  <2>5. h \in Chains(q) /\ n \notin Stored(q)
    BY <2>1 DEF Chains, Stored
  <2>6. ASSUME NEW o \in Orders
        PROVE  /\ IsFiniteSet(Chains(o)')
               /\ ordStatus'[o] # "deleted" /\ o \notin stranded' =>
                    issued'[o] = Cardinality(Stored(o)') + Cardinality(Chains(o)')
    <3>1. CASE o # q
      BY <2>2, <2>3, <2>4, <3>1 DEF Accounts
    <3>2. CASE o = q
      <4>1. IsFiniteSet(Chains(q)) /\ Cardinality(Chains(q)) \in Nat
        BY <2>1, FS_CardinalityType DEF Accounts
      <4>2. /\ IsFiniteSet(Chains(q) \ {h})
            /\ Cardinality(Chains(q) \ {h}) = Cardinality(Chains(q)) - 1
        BY <2>5, <4>1, FS_RemoveElement, SMTT(20)
      <4>3. IsFiniteSet(Stored(q)) /\ Cardinality(Stored(q)) \in Nat
        BY StoredFinite
      <4>4. Cardinality(Stored(q) \cup {n}) = Cardinality(Stored(q)) + 1
        BY <2>5, <4>3, FS_AddElement
      <4>5. Chains(o)' = Chains(q) \ {h} /\ Stored(o)' = Stored(q) \cup {n}
        BY <2>3, <2>4, <3>2
      <4>6. issued'[o] = issued[q] /\ stranded' = stranded
        BY <2>2, <3>2
      <4>7. ordStatus'[o] # "deleted" => ordStatus[q] # "deleted"
        BY <2>1, <2>2, <3>2
      <4>8. ordStatus[q] # "deleted" /\ q \notin stranded =>
              issued[q] = Cardinality(Stored(q)) + Cardinality(Chains(q))
        BY <2>1 DEF Accounts
      <4> HIDE DEF q, n, Chains, Stored, TypeOK, DatabaseType, RequestType
      <4> QED
        BY <3>2, <4>1, <4>2, <4>3, <4>4, <4>5, <4>6, <4>7, <4>8
    <3> QED
      BY <3>1, <3>2
  <2> QED
    BY <2>6 DEF Accounts
<1>14. ASSUME NEW h \in Handlers, RejectChain(h)
      PROVE  Accounts'
  <2>1. \A o : Chains(o)' = IF o = mem[h].order THEN Chains(o) \ {h} ELSE Chains(o)
    BY <1>14, ChainLeaves DEF RejectChain
  <2>2. \A o \in Orders : IsFiniteSet(Chains(o)')
    BY <2>1, FS_RemoveElement DEF Accounts
  <2>3. UNCHANGED <<issued, certs, ordStatus>> /\ stranded' = stranded \cup {mem[h].order}
    BY <1>14 DEF RejectChain
  <2>4. \A o : Stored(o)' = Stored(o)
    BY <2>3 DEF Stored
  <2> QED
    BY <2>1, <2>2, <2>3, <2>4 DEF Accounts
<1>15. ASSUME NEW h \in Handlers, SaveFailure(h)
      PROVE  Accounts'
  BY <1>15, AccountsFrame DEF SaveFailure
<1>16. ASSUME NEW h \in Handlers, LoadAuthz(h)
      PROVE  Accounts'
  BY <1>16, AccountsFrame DEF LoadAuthz
<1>17. ASSUME NEW h \in Handlers, TurnDown(h)
      PROVE  Accounts'
  BY <1>17, AccountsFrame DEF TurnDown
<1>18. ASSUME NEW h \in Handlers, Accept(h)
      PROVE  Accounts'
  BY <1>18, AccountsFrame DEF Accept
<1>19. ASSUME NEW h \in Handlers, Refuse(h)
      PROVE  Accounts'
  BY <1>19, AccountsFrame DEF Refuse
<1>20. ASSUME NEW h \in Handlers, SaveAnswer(h)
      PROVE  Accounts'
  BY <1>20, AccountsFrame DEF SaveAnswer
<1>21. ASSUME NEW p \in Purgers, PurgeScan(p)
      PROVE  Accounts'
  BY <1>21, AccountsIdle DEF PurgeScan
<1>22. ASSUME NEW p \in Purgers, PurgeDelete(p)
      PROVE  Accounts'
  BY <1>22, AccountsIdle DEF PurgeDelete
<1>23. CASE Crash
  <2>1. /\ UNCHANGED <<issued, certs, ordStatus>>
        /\ stranded' = stranded \cup {o \in Orders : \E h \in Handlers : Working(o, h)}
        /\ \A h \in Handlers : pc'[h] = "idle"
    BY <1>23 DEF Crash
  <2>2. \A o : Chains(o)' = {} /\ Stored(o)' = Stored(o)
    BY <2>1 DEF Chains, Stored
  <2>3. \A o \in Orders : o \notin stranded' => Chains(o) = {}
    BY <2>1 DEF Chains, Working
  <2> QED
    BY <2>1, <2>2, <2>3, FS_EmptySet DEF Accounts
<1>24. CASE UNCHANGED vars
  BY <1>24, AccountsIdle DEF vars, dbVars, worldVars, factVars
<1> QED
  BY <1>1, <1>2, <1>3, <1>4, <1>5, <1>6, <1>7, <1>8, <1>9, <1>10, <1>11,
     <1>12, <1>13, <1>14, <1>15, <1>16, <1>17, <1>18, <1>19, <1>20, <1>21,
     <1>22, <1>23, <1>24 DEF Next, Request, Handle, Maintain

\* No certificate the upstream issued is lost while its order is there, but to a
\* crash or a broken chain: see Accounts.
THEOREM EveryCertificateIsKept == Spec => []IssuanceAccounted
<1>1. Init => Accounts
  <2> SUFFICES ASSUME Init PROVE Accounts
    OBVIOUS
  <2>1. \A o \in Orders : issued[o] = 0 /\ Stored(o) = {} /\ Chains(o) = {}
    BY DEF Init, Stored, Chains
  <2> QED
    BY <2>1, FS_EmptySet DEF Accounts
<1>2. Init => OrderExisted
  BY InvInit
<1>3. TypeOK /\ SessionOK /\ OrderExisted /\ Accounts /\ [Next]_vars
      => (OrderExisted /\ Accounts)'
  BY ExistedStep, AccountsStep
<1>4. Accounts => IssuanceAccounted
  BY DEF Accounts, IssuanceAccounted, Stored, Chains, HasRow
<1> QED
  BY <1>1, <1>2, <1>3, <1>4, TypeCorrect, PTL DEF Spec
-----------------------------------------------------------------------------
(* How often an order can be issued for.  A request that has read a status *)
(* from which issuance may start, and a request at the upstream, may each  *)
(* lead to one certificate more, and so may such a status in the row.  The *)
(* first of them is free; each other one began while work was under way.   *)

Settled == {"processing", "valid", "invalid"}
Open(o) == ordStatus[o] \in {"absent", "pending", "ready"}

\* Requests that may still get a certificate, and those among them that have asked.
Asking(o) == {h \in Handlers : pc[h] = "upstream" /\ mem[h].order = o}
Checking(o) == {h \in Handlers : /\ pc[h] \in OrderPC /\ mem[h].order = o
                                 /\ mem[h].attr \notin Settled}
Hopeful(o) == Asking(o) \cup Checking(o)

Afford(o) ==
  /\ IsFiniteSet(Hopeful(o))
  /\ \/ overlaps[o] = MaxIssued
     \/ /\ issued[o] + Cardinality(Hopeful(o)) <= 1 + overlaps[o]
        /\ Open(o) => issued[o] + Cardinality(Asking(o)) <= overlaps[o]
Budget == \A o \in Orders : Afford(o)

\* Subsets are no larger, for the sets of requests.
LEMMA Fewer ==
  ASSUME NEW S, IsFiniteSet(S), NEW T \in SUBSET S
  PROVE  /\ IsFiniteSet(T) /\ Cardinality(T) \in Nat /\ Cardinality(S) \in Nat
         /\ Cardinality(T) <= Cardinality(S)
BY FS_Subset, FS_CardinalityType

LEMMA AskingFinite ==
  ASSUME NEW o, IsFiniteSet(Hopeful(o))
  PROVE  /\ IsFiniteSet(Asking(o)) /\ Cardinality(Asking(o)) \in Nat
         /\ Cardinality(Hopeful(o)) \in Nat
<1>1. Asking(o) \in SUBSET Hopeful(o)
  BY DEF Hopeful
<1> HIDE DEF Asking, Hopeful
<1> QED
  BY <1>1, Fewer

\* Steps after which there is no request and no status more to hope from.
LEMMA BudgetFrame ==
  ASSUME TypeOK, NEW o \in Orders, Afford(o),
         Hopeful(o)' \subseteq Hopeful(o), Asking(o)' \subseteq Asking(o),
         issued'[o] = issued[o], Open(o)' => Open(o),
         overlaps'[o] \in 0 .. MaxIssued, overlaps'[o] >= overlaps[o]
  PROVE  Afford(o)'
<1>1. /\ issued[o] \in Nat /\ overlaps[o] \in 0 .. MaxIssued /\ MaxIssued \in Nat
  BY OrdersAssumption DEF TypeOK, WorldType
<1>2. IsFiniteSet(Hopeful(o)) /\ IsFiniteSet(Asking(o))
  BY AskingFinite DEF Afford
<1>3. /\ IsFiniteSet(Hopeful(o)')
      /\ Cardinality(Hopeful(o)') \in Nat /\ Cardinality(Hopeful(o)) \in Nat
      /\ Cardinality(Hopeful(o)') <= Cardinality(Hopeful(o))
  BY <1>2, Fewer
<1>4. /\ Cardinality(Asking(o)') \in Nat /\ Cardinality(Asking(o)) \in Nat
      /\ Cardinality(Asking(o)') <= Cardinality(Asking(o))
  BY <1>2, Fewer
<1>5. CASE overlaps[o] = MaxIssued
  <2>1. overlaps'[o] = MaxIssued
    BY <1>1, <1>5
  <2> QED
    BY <1>3, <2>1 DEF Afford
<1>6. CASE overlaps[o] # MaxIssued
  <2>1. /\ issued[o] + Cardinality(Hopeful(o)) <= 1 + overlaps[o]
        /\ Open(o) => issued[o] + Cardinality(Asking(o)) <= overlaps[o]
    BY <1>6 DEF Afford
  <2>2. issued'[o] + Cardinality(Hopeful(o)') <= 1 + overlaps'[o]
    BY <1>1, <1>3, <2>1
  <2>3. Open(o)' => issued'[o] + Cardinality(Asking(o)') <= overlaps'[o]
    <3> HIDE DEF Open
    <3> QED
      BY <1>1, <1>4, <2>1
  <2> QED
    BY <1>3, <2>2, <2>3 DEF Afford
<1> QED
  BY <1>5, <1>6

\* Steps of one request that has, or keeps, nothing to hope for but what it had.
LEMMA BudgetOne ==
  ASSUME TypeOK, Budget, NEW h \in Handlers,
         \A g \in Handlers \ {h} : pc'[g] = pc[g] /\ mem'[g] = mem[g],
         pc'[h] # "upstream",
         pc'[h] \in OrderPC => /\ pc[h] \in OrderPC /\ mem'[h].order = mem[h].order
                               /\ mem[h].attr \in Settled => mem'[h].attr \in Settled,
         issued' = issued,
         \A o \in Orders : /\ Open(o)' => Open(o)
                           /\ overlaps'[o] \in 0 .. MaxIssued /\ overlaps'[o] >= overlaps[o]
  PROVE  Budget'
<1> SUFFICES ASSUME NEW o \in Orders PROVE Afford(o)'
  BY DEF Budget
<1>1. Asking(o)' \subseteq Asking(o)
  BY DEF Asking
<1>2. Checking(o)' \subseteq Checking(o)
  BY DEF Checking
<1>3. Hopeful(o)' \subseteq Hopeful(o)
  BY <1>1, <1>2 DEF Hopeful
<1> QED
  BY <1>1, <1>3, BudgetFrame DEF Budget

\* Steps of no request.
LEMMA BudgetIdle ==
  ASSUME TypeOK, Budget, UNCHANGED <<pc, mem, issued>>,
         \A o \in Orders : /\ Open(o)' => Open(o)
                           /\ overlaps'[o] \in 0 .. MaxIssued /\ overlaps'[o] >= overlaps[o]
  PROVE  Budget'
<1> SUFFICES ASSUME NEW o \in Orders PROVE Afford(o)'
  BY DEF Budget
<1>1. Hopeful(o)' \subseteq Hopeful(o) /\ Asking(o)' \subseteq Asking(o)
  BY DEF Hopeful, Asking, Checking
<1> QED
  BY <1>1, BudgetFrame DEF Budget

\* The counts are numbers.
LEMMA Typed ==
  ASSUME TypeOK
  PROVE  /\ overlaps \in [Orders -> 0 .. MaxIssued] /\ MaxIssued \in Nat /\ MaxIssued > 0
         /\ issued \in [Orders -> Nat]
BY OrdersAssumption DEF TypeOK, WorldType

\* A request that ends without opening an order.
LEMMA BudgetEnd ==
  ASSUME TypeOK, Budget, NEW h \in Handlers, Finish(h), UNCHANGED <<issued, overlaps>>,
         \A o \in Orders : ordStatus'[o] \in {ordStatus[o], "valid", "invalid"}
  PROVE  Budget'
<1>1. /\ pc'[h] = "idle"
      /\ \A g \in Handlers \ {h} : pc'[g] = pc[g] /\ mem'[g] = mem[g]
  BY DEF Finish, TypeOK, RequestType
<1>2. \A o \in Orders : /\ Open(o)' => Open(o)
                        /\ overlaps'[o] \in 0 .. MaxIssued /\ overlaps'[o] >= overlaps[o]
  BY Typed DEF Open
<1> QED
  BY <1>1, <1>2, BudgetOne DEF OrderPC

LEMMA BudgetBegin ==   \* order_detail and finalize_order load the order
  ASSUME TypeOK, SessionOK, OrderExisted, Budget,
         NEW h \in Handlers, NEW q \in Orders, NEW at \in {"polled", "finalizing"},
         LoadOrder(h, q, at)
  PROVE  Budget'
<1>1. /\ pc[h] = "idle" /\ HasRow(q) /\ Begin({q}) /\ pc' = [pc EXCEPT ![h] = at]
      /\ mem' = [mem EXCEPT ![h] = Holding(q, None, "none", ordStatus[q])]
      /\ UNCHANGED <<ordStatus, issued>>
  BY DEF LoadOrder, dbVars, factVars
<1>2. /\ pc'[h] = at /\ mem'[h].order = q /\ mem'[h].attr = ordStatus[q]
      /\ \A g \in Handlers \ {h} : pc'[g] = pc[g] /\ mem'[g] = mem[g]
  BY <1>1 DEF TypeOK, RequestType, Holding
<1> SUFFICES ASSUME NEW o \in Orders PROVE Afford(o)'
  BY DEF Budget
<1>3. /\ overlaps \in [Orders -> 0 .. MaxIssued] /\ MaxIssued \in Nat /\ MaxIssued > 0
      /\ issued[o] \in Nat /\ issued' = issued /\ overlaps'[o] \in 0 .. MaxIssued
      /\ \/ overlaps'[o] = overlaps[o] + 1
         \/ overlaps'[o] = overlaps[o] /\ (o = q => Quiet(o) \/ overlaps[o] = MaxIssued)
  BY <1>1, Typed, BeginFacts
<1>4. Afford(o)
  BY DEF Budget
<1>5. Asking(o)' = Asking(o) /\ (Open(o)' <=> Open(o))
  BY <1>1, <1>2 DEF Asking, Open
<1>6. \/ Hopeful(o)' \subseteq Hopeful(o)
      \/ o = q /\ Open(o) /\ Hopeful(o)' = Hopeful(o) \cup {h} /\ h \notin Hopeful(o)
  <2>1. CASE o # q
    BY <1>2, <1>5, <2>1 DEF Hopeful, Checking
  <2>2. CASE o = q /\ Open(o)
    <3>1. ordStatus[q] \notin Settled
      BY <2>2 DEF Open, Settled
    <3>2. Checking(o)' = Checking(o) \cup {h}
      BY <1>2, <2>2, <3>1 DEF Checking, OrderPC
    <3>3. h \notin Asking(o) /\ h \notin Checking(o)
      BY <1>1 DEF Asking, Checking, OrderPC
    <3> QED
      BY <1>5, <2>2, <3>2, <3>3 DEF Hopeful
  <2>3. CASE o = q /\ ~Open(o)
    <3>1. ordStatus[q] \in Settled
      BY <1>1, <2>3 DEF Open, Settled, HasRow, TypeOK, DatabaseType, OrderStatus
    <3>2. Checking(o)' \subseteq Checking(o)
      BY <1>2, <2>3, <3>1 DEF Checking
    <3> QED
      BY <1>5, <3>2 DEF Hopeful
  <2> QED
    BY <2>1, <2>2, <2>3
<1>7. CASE Hopeful(o)' \subseteq Hopeful(o)
  <2>1. overlaps'[o] >= overlaps[o]
    BY <1>3
  <2> QED
    BY <1>3, <1>4, <1>5, <1>7, <2>1, BudgetFrame
<1>8. CASE o = q /\ Open(o) /\ Hopeful(o)' = Hopeful(o) \cup {h} /\ h \notin Hopeful(o)
  <2>1. /\ IsFiniteSet(Hopeful(o)) /\ Cardinality(Hopeful(o)) \in Nat
        /\ Cardinality(Asking(o)) \in Nat
    BY <1>4, AskingFinite DEF Afford
  <2>2. IsFiniteSet(Hopeful(o)') /\ Cardinality(Hopeful(o)') = Cardinality(Hopeful(o)) + 1
    <3>1. /\ IsFiniteSet(Hopeful(o) \cup {h})
          /\ Cardinality(Hopeful(o) \cup {h}) = Cardinality(Hopeful(o)) + 1
      <4> HIDE DEF Hopeful
      <4> QED
        BY <1>8, <2>1, FS_AddElement
    <3> HIDE DEF Hopeful
    <3> QED
      BY <1>8, <3>1
  <2>3. CASE overlaps[o] = MaxIssued
    <3>1. overlaps'[o] = MaxIssued
      BY <1>3, <2>3
    <3> QED
      BY <2>2, <3>1 DEF Afford
  <2>4. CASE overlaps[o] # MaxIssued
    <3>1. /\ issued[o] + Cardinality(Hopeful(o)) <= 1 + overlaps[o]
          /\ issued[o] + Cardinality(Asking(o)) <= overlaps[o]
      BY <1>4, <1>8, <2>4 DEF Afford
    <3>2. issued'[o] + Cardinality(Asking(o)') <= overlaps'[o]
      BY <1>3, <1>5, <2>1, <3>1
    <3>3. CASE overlaps'[o] = overlaps[o] + 1
      <4>1. issued'[o] + Cardinality(Hopeful(o)') <= 1 + overlaps'[o]
        BY <1>3, <2>1, <2>2, <3>1, <3>3
      <4> QED
        BY <2>2, <3>2, <4>1 DEF Afford
    <3>4. CASE overlaps'[o] = overlaps[o] /\ Quiet(o)
      <4>1. Hopeful(o) = {} /\ Asking(o) = {}
        BY <3>4 DEF Quiet, Hopeful, Asking, Checking
      <4>2. Cardinality(Hopeful(o)) = 0 /\ Cardinality(Asking(o)) = 0
        BY <4>1, FS_EmptySet
      <4>3. issued'[o] + Cardinality(Hopeful(o)') <= 1 + overlaps'[o]
        BY <1>3, <2>2, <3>1, <3>4, <4>2
      <4> QED
        BY <2>2, <3>2, <4>3 DEF Afford
    <3> QED
      BY <1>3, <1>8, <2>4, <3>3, <3>4
  <2> QED
    BY <2>3, <2>4
<1> QED
  BY <1>6, <1>7, <1>8

LEMMA BudgetSaved ==   \* a session's status is written back
  ASSUME TypeOK, SessionOK, OrderExisted, Budget, NEW h \in Handlers, SaveChecked(h)
  PROVE  Budget'
<1> DEFINE q == mem[h].order
           to == mem[h].attr
<1>1. /\ pc[h] \in {"checked", "decided"} /\ q \in Orders
      /\ ordStatus' = IF to # mem[h].loaded THEN [ordStatus EXCEPT ![q] = to] ELSE ordStatus
      /\ Finish(h) /\ UNCHANGED <<issued, overlaps>>
  BY DEF SaveChecked, worldVars, factVars, SessionOK, SessionAt
<1>2. /\ pc'[h] = "idle" /\ \A g \in Handlers \ {h} : pc'[g] = pc[g] /\ mem'[g] = mem[g]
  BY <1>1 DEF Finish, TypeOK, RequestType
<1> SUFFICES ASSUME NEW o \in Orders PROVE Afford(o)'
  BY DEF Budget
<1>3. /\ overlaps[o] \in 0 .. MaxIssued /\ MaxIssued \in Nat /\ issued[o] \in Nat
  BY Typed
<1>4. Afford(o)
  BY DEF Budget
<1>5. Hopeful(o)' \subseteq Hopeful(o) \ {h} /\ Asking(o)' \subseteq Asking(o)
  BY <1>2 DEF Hopeful, Asking, Checking, OrderPC
<1>6. CASE Open(o)' => Open(o)
  BY <1>1, <1>3, <1>4, <1>5, <1>6, BudgetFrame
<1>7. CASE Open(o)' /\ ~Open(o)
  <2>1. o = q /\ to # mem[h].loaded
    BY <1>1, <1>7 DEF Open, TypeOK, DatabaseType
  <2>2. to \in {"pending", "ready"}
    <3>1. to \in {"pending", "ready", "invalid"} /\ ordStatus'[o] = to
      BY <1>1, <2>1 DEF SessionOK, SessionAt, TypeOK, DatabaseType
    <3> QED
      BY <1>7, <3>1 DEF Open
  <2>3. h \in Hopeful(o) /\ h \notin Asking(o)
    BY <1>1, <2>1, <2>2 DEF Hopeful, Checking, Asking, OrderPC, Settled
  <2>4. IsFiniteSet(Hopeful(o)) /\ Cardinality(Hopeful(o)) \in Nat
    BY <1>4, AskingFinite DEF Afford
  <2>5. /\ IsFiniteSet(Hopeful(o) \ {h})
        /\ Cardinality(Hopeful(o) \ {h}) = Cardinality(Hopeful(o)) - 1
    BY <2>3, <2>4, FS_RemoveElement
  <2>6. /\ IsFiniteSet(Hopeful(o)') /\ Cardinality(Hopeful(o)') \in Nat
        /\ Cardinality(Hopeful(o)') <= Cardinality(Hopeful(o)) - 1
    BY <1>5, <2>5, Fewer
  <2>7. Asking(o)' \subseteq Hopeful(o) \ {h}
    BY <1>5, <2>3 DEF Hopeful
  <2>8. /\ Cardinality(Asking(o)') \in Nat
        /\ Cardinality(Asking(o)') <= Cardinality(Hopeful(o)) - 1
    BY <2>5, <2>7, Fewer
  <2>9. CASE overlaps[o] = MaxIssued
    BY <1>1, <2>6, <2>9 DEF Afford
  <2>10. CASE overlaps[o] # MaxIssued
    <3>1. issued[o] + Cardinality(Hopeful(o)) <= 1 + overlaps[o]
      BY <1>4, <2>10 DEF Afford
    <3>2. issued'[o] = issued[o] /\ overlaps'[o] = overlaps[o]
      BY <1>1
    <3>3. issued'[o] + Cardinality(Hopeful(o)') <= 1 + overlaps'[o]
      BY <1>3, <2>4, <2>6, <3>1, <3>2
    <3>4. issued'[o] + Cardinality(Asking(o)') <= overlaps'[o]
      BY <1>3, <2>4, <2>8, <3>1, <3>2
    <3> QED
      BY <2>6, <3>3, <3>4 DEF Afford
  <2> QED
    BY <2>9, <2>10
<1> QED
  BY <1>6, <1>7

LEMMA BudgetStarted ==   \* a request that may issue asks the upstream
  ASSUME TypeOK, SessionOK, OrderExisted, Budget, NEW h \in Handlers, StartProcessing(h)
  PROVE  Budget'
<1> DEFINE q == mem[h].order
<1>1. /\ pc[h] = "decided" /\ mem[h].attr = "ready" /\ q \in Orders
      /\ ordStatus' = [ordStatus EXCEPT ![q] = "processing"]
      /\ mem' = [mem EXCEPT ![h] = Holding(q, None, "none", "processing")]
      /\ pc' = [pc EXCEPT ![h] = "upstream"]
      /\ UNCHANGED <<issued, overlaps>>
  BY DEF StartProcessing, worldVars, factVars, SessionOK, SessionAt
<1>2. /\ pc'[h] = "upstream" /\ mem'[h].order = q
      /\ \A g \in Handlers \ {h} : pc'[g] = pc[g] /\ mem'[g] = mem[g]
  BY <1>1 DEF TypeOK, RequestType, Holding
<1>3. h \in Hopeful(q)
  BY <1>1 DEF Hopeful, Checking, OrderPC, Settled
<1> HIDE DEF q
<1> SUFFICES ASSUME NEW o \in Orders PROVE Afford(o)'
  BY DEF Budget
<1>4. Afford(o) /\ issued'[o] = issued[o] /\ overlaps'[o] = overlaps[o]
  BY <1>1 DEF Budget
<1>5. Hopeful(o)' \subseteq Hopeful(o)
  BY <1>2, <1>3 DEF Hopeful, Asking, Checking, OrderPC
<1>6. CASE o # q
  <2>1. Asking(o)' \subseteq Asking(o)
    BY <1>2, <1>6 DEF Asking
  <2>2. Open(o)' => Open(o)
    BY <1>1, <1>6 DEF Open, TypeOK, DatabaseType
  <2> QED
    BY <1>4, <1>5, <2>1, <2>2, Typed, BudgetFrame
<1>7. CASE o = q
  <2>1. ~Open(o)'
    BY <1>1, <1>7 DEF Open, TypeOK, DatabaseType
  <2>2. IsFiniteSet(Hopeful(o)) /\ issued[o] \in Nat /\ overlaps[o] \in Nat
    BY <1>4, Typed DEF Afford
  <2>3. /\ IsFiniteSet(Hopeful(o)') /\ Cardinality(Hopeful(o)') \in Nat
        /\ Cardinality(Hopeful(o)) \in Nat
        /\ Cardinality(Hopeful(o)') <= Cardinality(Hopeful(o))
    BY <1>5, <2>2, Fewer
  <2>4. \/ overlaps'[o] = MaxIssued
        \/ issued'[o] + Cardinality(Hopeful(o)') <= 1 + overlaps'[o]
    BY <1>4, <2>2, <2>3 DEF Afford
  <2> QED
    BY <2>1, <2>3, <2>4 DEF Afford
<1> QED
  BY <1>6, <1>7

LEMMA BudgetSpent ==   \* the upstream issues to a request that has asked
  ASSUME TypeOK, SessionOK, OrderExisted, Budget, NEW h \in Handlers, UpstreamIssues(h)
  PROVE  Budget'
<1> DEFINE q == mem[h].order
<1>1. /\ pc[h] = "upstream" /\ q \in Orders
      /\ issued' = [issued EXCEPT ![q] = @ + 1]
      /\ pc' = [pc EXCEPT ![h] = "chain"]
      /\ UNCHANGED <<mem, ordStatus, overlaps>>
  BY DEF UpstreamIssues, dbVars, SessionOK, SessionAt, IssuePC
<1>2. /\ pc'[h] = "chain" /\ \A g \in Handlers \ {h} : pc'[g] = pc[g]
  BY <1>1 DEF TypeOK, RequestType
<1>3. h \in Hopeful(q) /\ h \in Asking(q)
  BY <1>1 DEF Hopeful, Asking
<1>4. mem' = mem
  BY <1>1
<1> HIDE DEF q
<1> SUFFICES ASSUME NEW o \in Orders PROVE Afford(o)'
  BY DEF Budget
<1>5. Afford(o) /\ overlaps'[o] = overlaps[o] /\ (Open(o)' <=> Open(o))
  BY <1>1 DEF Budget, Open
<1>6. Hopeful(o)' \subseteq Hopeful(o) \ {h} /\ Asking(o)' \subseteq Asking(o) \ {h}
  BY <1>2, <1>4 DEF Hopeful, Asking, Checking, OrderPC
<1>7. CASE o # q
  <2>1. issued'[o] = issued[o]
    BY <1>1, <1>7, Typed
  <2> QED
    BY <1>5, <1>6, <2>1, Typed, BudgetFrame
<1>8. CASE o = q
  <2>1. /\ IsFiniteSet(Hopeful(o)) /\ issued[o] \in Nat /\ overlaps[o] \in Nat
        /\ IsFiniteSet(Asking(o)) /\ issued'[o] = issued[o] + 1
    BY <1>1, <1>5, <1>8, Typed, AskingFinite DEF Afford
  <2>2. /\ IsFiniteSet(Hopeful(o) \ {h}) /\ Cardinality(Hopeful(o)) \in Nat
        /\ Cardinality(Hopeful(o) \ {h}) = Cardinality(Hopeful(o)) - 1
    BY <1>3, <1>8, <2>1, FS_RemoveElement, FS_CardinalityType
  <2>3. /\ IsFiniteSet(Asking(o) \ {h}) /\ Cardinality(Asking(o)) \in Nat
        /\ Cardinality(Asking(o) \ {h}) = Cardinality(Asking(o)) - 1
    BY <1>3, <1>8, <2>1, FS_RemoveElement, FS_CardinalityType
  <2>4. /\ IsFiniteSet(Hopeful(o)') /\ Cardinality(Hopeful(o)') \in Nat
        /\ Cardinality(Hopeful(o)') <= Cardinality(Hopeful(o)) - 1
    BY <1>6, <2>2, Fewer
  <2>5. /\ Cardinality(Asking(o)') \in Nat
        /\ Cardinality(Asking(o)') <= Cardinality(Asking(o)) - 1
    BY <1>6, <2>3, Fewer
  <2>6. CASE overlaps[o] = MaxIssued
    BY <1>5, <2>4, <2>6 DEF Afford
  <2>7. CASE overlaps[o] # MaxIssued
    <3>1. /\ issued[o] + Cardinality(Hopeful(o)) <= 1 + overlaps[o]
          /\ Open(o) => issued[o] + Cardinality(Asking(o)) <= overlaps[o]
      BY <1>5, <2>7 DEF Afford
    <3>2. issued'[o] + Cardinality(Hopeful(o)') <= 1 + overlaps'[o]
      BY <1>5, <2>1, <2>2, <2>4, <3>1
    <3>3. Open(o)' => issued'[o] + Cardinality(Asking(o)') <= overlaps'[o]
      <4> HIDE DEF Open
      <4> QED
        BY <1>5, <2>1, <2>3, <2>5, <3>1
    <3> QED
      BY <2>4, <3>2, <3>3 DEF Afford
  <2> QED
    BY <2>6, <2>7
<1> QED
  BY <1>7, <1>8


\* Every step: see the lemmas above.
LEMMA BudgetStep ==
  ASSUME TypeOK, SessionOK, OrderExisted, Budget, [Next]_vars
  PROVE  Budget'
<1>0. \A o \in Orders : overlaps[o] \in 0 .. MaxIssued /\ overlaps[o] >= overlaps[o]
  BY Typed
<1> USE DEF OrderPC, IssuePC, AnswerPC, Finish, dbVars, worldVars, factVars
<1>1. ASSUME NEW o \in Orders, NewOrder(o)
      PROVE  Budget'
  <2>1. /\ UNCHANGED <<pc, mem, issued, overlaps>>
        /\ \A q \in Orders : Open(q)' => Open(q)
    BY <1>1 DEF NewOrder, Open, TypeOK, DatabaseType
  <2> QED
    BY <1>0, <2>1, BudgetIdle
<1>2. ASSUME NEW o \in Orders, Expire(o)
      PROVE  Budget'
  BY <1>0, <1>2, BudgetIdle DEF Expire, Open
<1>3. ASSUME NEW h \in Handlers, NEW o \in Orders, Poll(h, o)
      PROVE  Budget'
  BY <1>3, BudgetBegin DEF Poll
<1>4. ASSUME NEW h \in Handlers, NEW o \in Orders, Finalize(h, o)
      PROVE  Budget'
  BY <1>4, BudgetBegin DEF Finalize
<1>5. ASSUME NEW h \in Handlers, NEW o \in Orders, NEW i \in Idents,
             NEW t \in ChallengeTypes, Respond(h, o, i, t)
      PROVE  Budget'
  <2>1. /\ pc'[h] = "responding"
        /\ \A g \in Handlers \ {h} : pc'[g] = pc[g] /\ mem'[g] = mem[g]
        /\ UNCHANGED <<issued, ordStatus>> /\ Begin({o})
    BY <1>5 DEF Respond, TypeOK, RequestType
  <2>2. \A q \in Orders : /\ Open(q)' => Open(q)
                          /\ overlaps'[q] \in 0 .. MaxIssued /\ overlaps'[q] >= overlaps[q]
    BY <2>1, Typed, BeginFacts DEF Open
  <2> QED
    BY <2>1, <2>2, BudgetOne
<1>6. ASSUME NEW h \in Handlers, Recompute(h)
      PROVE  Budget'
  <2>1. /\ pc'[h] \in {"checked", "decided"} /\ pc[h] \in {"polled", "finalizing"}
        /\ mem'[h].order = mem[h].order
        /\ mem'[h].attr = Derived(mem[h].attr, mem[h].order)
        /\ \A g \in Handlers \ {h} : pc'[g] = pc[g] /\ mem'[g] = mem[g]
        /\ UNCHANGED <<issued, ordStatus, overlaps>>
    BY <1>6, SessionFields DEF Recompute, TypeOK, RequestType, Session
  <2>2. mem[h].attr \in Settled => mem'[h].attr \in Settled
    BY <2>1 DEF Derived, Settled
  <2>3. \A o \in Orders : Open(o)' => Open(o)
    BY <2>1 DEF Open
  <2> QED
    BY <1>0, <2>1, <2>2, <2>3, BudgetOne
<1>7. ASSUME NEW h \in Handlers, SaveChecked(h)
      PROVE  Budget'
  BY <1>7, BudgetSaved
<1>8. ASSUME NEW h \in Handlers, MeetNoRow(h)
      PROVE  Budget'
  BY <1>8, BudgetEnd DEF MeetNoRow
<1>9. ASSUME NEW h \in Handlers, RejectCsr(h)
      PROVE  Budget'
  BY <1>9, BudgetEnd DEF RejectCsr
<1>10. ASSUME NEW h \in Handlers, StartProcessing(h)
      PROVE  Budget'
  BY <1>10, BudgetStarted
<1>11. ASSUME NEW h \in Handlers, UpstreamIssues(h)
      PROVE  Budget'
  BY <1>11, BudgetSpent
<1>12. ASSUME NEW h \in Handlers, UpstreamFails(h)
      PROVE  Budget'
  <2>1. /\ pc'[h] = "error"
        /\ \A g \in Handlers \ {h} : pc'[g] = pc[g] /\ mem'[g] = mem[g]
        /\ UNCHANGED <<issued, ordStatus, overlaps>>
    BY <1>12 DEF UpstreamFails, TypeOK, RequestType
  <2>2. \A o \in Orders : Open(o)' => Open(o)
    BY <2>1 DEF Open
  <2> QED
    BY <1>0, <2>1, <2>2, BudgetOne
<1>13. ASSUME NEW h \in Handlers, SaveCertificate(h)
      PROVE  Budget'
  <2>1. UNCHANGED <<issued, overlaps>> /\ Finish(h)
    BY <1>13 DEF SaveCertificate
  <2>2. \A o \in Orders : ordStatus'[o] \in {ordStatus[o], "valid"}
    BY <1>13 DEF SaveCertificate, TypeOK, DatabaseType
  <2> QED
    BY <2>1, <2>2, BudgetEnd
<1>14. ASSUME NEW h \in Handlers, RejectChain(h)
      PROVE  Budget'
  BY <1>14, BudgetEnd DEF RejectChain
<1>15. ASSUME NEW h \in Handlers, SaveFailure(h)
      PROVE  Budget'
  <2>1. UNCHANGED <<issued, overlaps>> /\ Finish(h)
    BY <1>15 DEF SaveFailure
  <2>2. \A o \in Orders : ordStatus'[o] \in {ordStatus[o], "invalid"}
    BY <1>15 DEF SaveFailure, TypeOK, DatabaseType
  <2> QED
    BY <2>1, <2>2, BudgetEnd
<1>16. ASSUME NEW h \in Handlers, LoadAuthz(h)
      PROVE  Budget'
  <2>1. /\ pc'[h] = "validating"
        /\ \A g \in Handlers \ {h} : pc'[g] = pc[g] /\ mem'[g] = mem[g]
        /\ UNCHANGED <<issued, ordStatus, overlaps>>
    BY <1>16 DEF LoadAuthz, TypeOK, RequestType
  <2>2. \A o \in Orders : Open(o)' => Open(o)
    BY <2>1 DEF Open
  <2> QED
    BY <1>0, <2>1, <2>2, BudgetOne
<1>17. ASSUME NEW h \in Handlers, TurnDown(h)
      PROVE  Budget'
  BY <1>17, BudgetEnd DEF TurnDown
<1>18. ASSUME NEW h \in Handlers, Accept(h)
      PROVE  Budget'
  <2>1. /\ pc'[h] = "accepted"
        /\ \A g \in Handlers \ {h} : pc'[g] = pc[g] /\ mem'[g] = mem[g]
        /\ UNCHANGED <<issued, ordStatus, overlaps>>
    BY <1>18 DEF Accept, TypeOK, RequestType
  <2>2. \A o \in Orders : Open(o)' => Open(o)
    BY <2>1 DEF Open
  <2> QED
    BY <1>0, <2>1, <2>2, BudgetOne
<1>19. ASSUME NEW h \in Handlers, Refuse(h)
      PROVE  Budget'
  <2>1. /\ pc'[h] = "refused"
        /\ \A g \in Handlers \ {h} : pc'[g] = pc[g] /\ mem'[g] = mem[g]
        /\ UNCHANGED <<issued, ordStatus, overlaps>>
    BY <1>19 DEF Refuse, TypeOK, RequestType
  <2>2. \A o \in Orders : Open(o)' => Open(o)
    BY <2>1 DEF Open
  <2> QED
    BY <1>0, <2>1, <2>2, BudgetOne
<1>20. ASSUME NEW h \in Handlers, SaveAnswer(h)
      PROVE  Budget'
  BY <1>20, BudgetEnd DEF SaveAnswer
<1>21. ASSUME NEW p \in Purgers, PurgeScan(p)
      PROVE  Budget'
  <2>1. UNCHANGED <<pc, mem, issued, ordStatus>> /\ \E D : Begin(D)
    BY <1>21 DEF PurgeScan
  <2>2. \A q \in Orders : /\ Open(q)' => Open(q)
                          /\ overlaps'[q] \in 0 .. MaxIssued /\ overlaps'[q] >= overlaps[q]
    BY <2>1, Typed, BeginFacts DEF Open
  <2> QED
    BY <2>1, <2>2, BudgetIdle
<1>22. ASSUME NEW p \in Purgers, PurgeDelete(p)
      PROVE  Budget'
  <2>1. /\ UNCHANGED <<pc, mem, issued, overlaps>>
        /\ \A q \in Orders : Open(q)' => Open(q)
    BY <1>22 DEF PurgeDelete, Open
  <2> QED
    BY <1>0, <2>1, BudgetIdle
<1>23. CASE Crash
  <2>1. /\ UNCHANGED <<issued, ordStatus, overlaps>>
        /\ \A g \in Handlers : pc'[g] = "idle"
    BY <1>23 DEF Crash
  <2>2. ASSUME NEW o \in Orders
        PROVE  Afford(o)'
    <3>1. Hopeful(o)' \subseteq Hopeful(o) /\ Asking(o)' \subseteq Asking(o)
      BY <2>1 DEF Hopeful, Asking, Checking
    <3>2. Open(o)' => Open(o)
      BY <2>1 DEF Open
    <3> QED
      BY <1>0, <2>1, <3>1, <3>2, BudgetFrame DEF Budget
  <2> QED
    BY <2>2 DEF Budget
<1>24. CASE UNCHANGED vars
  BY <1>0, <1>24, BudgetIdle DEF vars, Open
<1> QED
  BY <1>1, <1>2, <1>3, <1>4, <1>5, <1>6, <1>7, <1>8, <1>9, <1>10, <1>11,
     <1>12, <1>13, <1>14, <1>15, <1>16, <1>17, <1>18, <1>19, <1>20, <1>21,
     <1>22, <1>23, <1>24 DEF Next, Request, Handle, Maintain

\* The bound itself, which the count of overlaps stops at too.
Bounded == \A o \in Orders : issued[o] <= MaxIssued
LEMMA BoundedStep ==
  ASSUME TypeOK, Bounded, [Next]_vars
  PROVE  Bounded'
<1>1. ASSUME NEW h \in Handlers, UpstreamIssues(h)
      PROVE  Bounded'
  BY <1>1, Typed DEF UpstreamIssues, Bounded
<1>2. issued' = issued \/ \E h \in Handlers : UpstreamIssues(h)
  BY DEF Next, Request, Handle, Maintain, NewOrder, Expire, Poll, Finalize, LoadOrder,
     Respond, Recompute, SaveChecked, MeetNoRow, RejectCsr, StartProcessing, UpstreamFails,
     SaveCertificate, RejectChain, SaveFailure, LoadAuthz, TurnDown, Accept, Refuse,
     SaveAnswer, PurgeScan, PurgeDelete, Crash, vars, worldVars, factVars
<1> QED
  BY <1>1, <1>2 DEF Bounded

\* Nothing bounds what the upstream issues for an order but this: one certificate, and one
\* for each time that work on the order began while other work on it was under way.
THEOREM IssuancesAreCounted == Spec => []IssuedPerOverlap
<1>1. Init => OrderExisted /\ Budget /\ Bounded
  <2> SUFFICES ASSUME Init PROVE OrderExisted /\ Budget /\ Bounded
    OBVIOUS
  <2>1. ASSUME NEW o \in Orders
        PROVE  Afford(o) /\ issued[o] <= MaxIssued
    <3>1. Hopeful(o) = {} /\ Asking(o) = {} /\ issued[o] = 0 /\ overlaps[o] = 0
      BY DEF Init, Hopeful, Asking, Checking, OrderPC
    <3>2. /\ IsFiniteSet(Hopeful(o)) /\ Cardinality(Hopeful(o)) = 0
          /\ Cardinality(Asking(o)) = 0
      BY <3>1, FS_EmptySet
    <3> QED
      BY <3>1, <3>2, OrdersAssumption DEF Afford
  <2> QED
    BY <2>1, InvInit DEF Budget, Bounded
<1>2. TypeOK /\ SessionOK /\ OrderExisted /\ Budget /\ Bounded /\ [Next]_vars
      => (OrderExisted /\ Budget /\ Bounded)'
  BY ExistedStep, BudgetStep, BoundedStep
<1>3. TypeOK /\ Budget /\ Bounded => IssuedPerOverlap
  <2> SUFFICES ASSUME TypeOK, Budget, Bounded, NEW o \in Orders
               PROVE  issued[o] <= 1 + overlaps[o]
    BY DEF IssuedPerOverlap
  <2>1. Afford(o) /\ issued[o] <= MaxIssued /\ issued[o] \in Nat /\ MaxIssued \in Nat
    BY Typed DEF Budget, Bounded
  <2>2. CASE overlaps[o] = MaxIssued
    BY <2>1, <2>2
  <2>3. CASE overlaps[o] # MaxIssued
    <3>1. Cardinality(Hopeful(o)) \in Nat /\ overlaps[o] \in Nat
      BY <2>1, AskingFinite, Typed DEF Afford
    <3> QED
      BY <2>1, <2>3, <3>1 DEF Afford
  <2> QED
    BY <2>2, <2>3
<1> QED
  BY <1>1, <1>2, <1>3, TypeCorrect, PTL DEF Spec

-----------------------------------------------------------------------------
(* Orders that nobody has run into: as long as the work on an order does   *)
(* not overlap, what a request has read of it is how it still is, and it   *)
(* follows OrderLifecycle exactly, whatever happens to other orders at the *)
(* same time.  Once work on it has overlapped, it may slip.                *)

Lone(o) == overlaps[o] = 0

\* Requests and deletions in progress are about different orders.
Alone ==
  /\ \A g, h \in Handlers :
       pc[g] # "idle" /\ pc[h] # "idle" /\ mem[g].order = mem[h].order
         /\ Lone(mem[h].order) => g = h
  /\ \A p \in Purgers, h \in Handlers :
       pc[h] # "idle" /\ Lone(mem[h].order) => mem[h].order \notin doomed[p]
  /\ \A p, q \in Purgers : \A o \in doomed[p] \cap doomed[q] : Lone(o) => p = q

\* Then a request's copy of the status is the status, and what the job has
\* marked is still unfinished when it deletes.
Fresh ==
  /\ \A h \in Handlers :
       pc[h] \in OrderPC \cup IssuePC /\ Lone(mem[h].order) =>
         mem[h].loaded = ordStatus[mem[h].order] /\ HasRow(mem[h].order)
  /\ \A p \in Purgers : \A o \in doomed[p] :
       /\ ordStatus[o] # "absent"
       /\ Lone(o) => ordStatus[o] \in {"pending", "ready", "invalid"}

\* An order becomes ready when its last authorization is answered, and none
\* becomes unanswered again; so ready is left for invalid or processing only.
Answered == {o \in Orders : /\ Wanted(o) # {}
                            /\ \A i \in Wanted(o) : authz[o][i] # "pending"}
ReadyIsAnswered ==
  /\ \A o \in Orders : ordStatus[o] = "ready" => o \in Answered
  /\ \A h \in Handlers :
       pc[h] \in OrderPC =>
         /\ mem[h].loaded \in {"pending", "ready", "processing", "valid", "invalid"}
         /\ mem[h].loaded = "ready" => mem[h].order \in Answered
  /\ \A h \in Handlers :
       pc[h] \in {"checked", "decided"} =>
         /\ mem[h].attr = "ready" => mem[h].order \in Answered
         /\ mem[h].loaded = "ready" => mem[h].attr \in {"ready", "invalid"}
         /\ mem[h].loaded = "pending" => mem[h].attr \in {"pending", "ready", "invalid"}
         /\ mem[h].loaded \notin {"pending", "ready"} => mem[h].attr = mem[h].loaded

\* A certificate is recorded for a valid order only.
Recorded == \A o \in Orders : Lone(o) /\ ordCert[o] # 0 => ordStatus[o] = "valid"

LifecycleInv == Alone /\ Fresh /\ ReadyIsAnswered /\ Recorded

\* Work begins without an overlap on an order that everyone else leaves alone.
LEMMA LoneBegins ==
  ASSUME TypeOK, NEW S, Begin(S), NEW o \in Orders, Lone(o)'
  PROVE  Lone(o) /\ (o \in S => Quiet(o))
<1>1. overlaps[o] \in Nat /\ MaxIssued > 0 /\ overlaps'[o] = 0
  BY Typed DEF Lone
<1>2. \/ overlaps'[o] = overlaps[o] + 1
      \/ overlaps'[o] = overlaps[o] /\ (o \in S => Quiet(o) \/ overlaps[o] = MaxIssued)
  BY BeginFacts
<1> QED
  BY <1>1, <1>2 DEF Lone

\* Everything but the beginning of work leaves the orders as alone as they are.
LEMMA LoneStays ==
  ASSUME UNCHANGED overlaps
  PROVE  \A o : Lone(o)' <=> Lone(o)
BY DEF Lone

\* A request that loads an order, and a job that marks orders, find them untouched
\* by everyone else.
LEMMA AloneStep ==
  ASSUME TypeOK, SessionOK, Alone, [Next]_vars
  PROVE  Alone'
<1> USE DEF TypeOK, DatabaseType, RequestType, WorldType, SessionOK,
        SessionAt, OrderPC, IssuePC, AnswerPC, Finish, dbVars,
        worldVars, factVars, Lone, Alone
<1>1. ASSUME NEW o \in Orders, NewOrder(o)
      PROVE  Alone'
  BY <1>1 DEF NewOrder
<1>2. ASSUME NEW o \in Orders, Expire(o)
      PROVE  Alone'
  BY <1>2 DEF Expire, HasRow
<1>3. ASSUME NEW h \in Handlers, NEW o \in Orders, Poll(h, o)
      PROVE  Alone'
  <2>1. \A q \in Orders : Lone(q)' => Lone(q) /\ (q = o => Quiet(q))
    BY <1>3, LoneBegins DEF Poll, LoadOrder
  <2>2. mem' = [mem EXCEPT ![h] = Holding(o, None, "none", ordStatus[o])] /\ doomed' = doomed
    BY <1>3 DEF Poll, LoadOrder
  <2>3. pc' = [pc EXCEPT ![h] = "polled"]
    BY <1>3 DEF Poll, LoadOrder
  <2> QED
    BY <2>1, <2>2, <2>3 DEF Quiet, Holding
<1>4. ASSUME NEW h \in Handlers, NEW o \in Orders, Finalize(h, o)
      PROVE  Alone'
  <2>1. \A q \in Orders : Lone(q)' => Lone(q) /\ (q = o => Quiet(q))
    BY <1>4, LoneBegins DEF Finalize, LoadOrder
  <2>2. mem' = [mem EXCEPT ![h] = Holding(o, None, "none", ordStatus[o])] /\ doomed' = doomed
    BY <1>4 DEF Finalize, LoadOrder
  <2>3. pc' = [pc EXCEPT ![h] = "finalizing"]
    BY <1>4 DEF Finalize, LoadOrder
  <2> QED
    BY <2>1, <2>2, <2>3 DEF Quiet, Holding
<1>5. ASSUME NEW h \in Handlers, NEW o \in Orders, NEW i \in Idents,
             NEW t \in ChallengeTypes, Respond(h, o, i, t)
      PROVE  Alone'
  <2>1. \A q \in Orders : Lone(q)' => Lone(q) /\ (q = o => Quiet(q))
    BY <1>5, LoneBegins DEF Respond
  <2>2. mem' = [mem EXCEPT ![h] = Holding(o, i, t, "none")] /\ doomed' = doomed
    BY <1>5 DEF Respond
  <2>3. pc' = [pc EXCEPT ![h] = "responding"]
    BY <1>5 DEF Respond
  <2> QED
    BY <2>1, <2>2, <2>3 DEF Quiet, Holding
<1>6. ASSUME NEW h \in Handlers, Recompute(h)
      PROVE  Alone'
  BY <1>6 DEF Recompute, Derived
<1>7. ASSUME NEW h \in Handlers, SaveChecked(h)
      PROVE  Alone'
  BY <1>7 DEF SaveChecked, HasRow
<1>8. ASSUME NEW h \in Handlers, MeetNoRow(h)
      PROVE  Alone'
  BY <1>8 DEF MeetNoRow
<1>9. ASSUME NEW h \in Handlers, RejectCsr(h)
      PROVE  Alone'
  BY <1>9 DEF RejectCsr
<1>10. ASSUME NEW h \in Handlers, StartProcessing(h)
      PROVE  Alone'
  BY <1>10 DEF StartProcessing, Holding, HasRow
<1>11. ASSUME NEW h \in Handlers, UpstreamIssues(h)
      PROVE  Alone'
  BY <1>11 DEF UpstreamIssues
<1>12. ASSUME NEW h \in Handlers, UpstreamFails(h)
      PROVE  Alone'
  BY <1>12 DEF UpstreamFails
<1>13. ASSUME NEW h \in Handlers, SaveCertificate(h)
      PROVE  Alone'
  BY <1>13 DEF SaveCertificate, HasRow
<1>14. ASSUME NEW h \in Handlers, RejectChain(h)
      PROVE  Alone'
  BY <1>14 DEF RejectChain
<1>15. ASSUME NEW h \in Handlers, SaveFailure(h)
      PROVE  Alone'
  BY <1>15 DEF SaveFailure, HasRow
<1>16. ASSUME NEW h \in Handlers, LoadAuthz(h)
      PROVE  Alone'
  BY <1>16 DEF LoadAuthz, Holding, HasRow
<1>17. ASSUME NEW h \in Handlers, TurnDown(h)
      PROVE  Alone'
  BY <1>17 DEF TurnDown
<1>18. ASSUME NEW h \in Handlers, Accept(h)
      PROVE  Alone'
  BY <1>18 DEF Accept
<1>19. ASSUME NEW h \in Handlers, Refuse(h)
      PROVE  Alone'
  BY <1>19 DEF Refuse
<1>20. ASSUME NEW h \in Handlers, SaveAnswer(h)
      PROVE  Alone'
  BY <1>20 DEF SaveAnswer
<1>21. ASSUME NEW p \in Purgers, PurgeScan(p)
      PROVE  Alone'
  <2>1. PICK D \in SUBSET Orders : /\ Begin(D) /\ doomed' = [doomed EXCEPT ![p] = D]
                                  /\ UNCHANGED <<pc, mem>>
    BY <1>21 DEF PurgeScan
  <2>2. \A q \in Orders : Lone(q)' => Lone(q) /\ (q \in D => Quiet(q))
    BY <2>1, LoneBegins
  <2>3. \A q \in Purgers : doomed'[q] = IF q = p THEN D ELSE doomed[q]
    BY <2>1
  <2>4. ASSUME NEW g \in Handlers, NEW h \in Handlers, pc[g] # "idle", pc[h] # "idle",
               mem[g].order = mem[h].order, overlaps'[mem[h].order] = 0
        PROVE  g = h
    BY <2>2, <2>4
  <2>5. ASSUME NEW q \in Purgers, NEW h \in Handlers, pc[h] # "idle",
               overlaps'[mem[h].order] = 0
        PROVE  mem[h].order \notin doomed'[q]
    BY <2>2, <2>3, <2>5 DEF Quiet
  <2>6. ASSUME NEW q \in Purgers, NEW r \in Purgers, NEW o \in doomed'[q] \cap doomed'[r],
               overlaps'[o] = 0
        PROVE  q = r
    <3>1. o \in Orders /\ Lone(o) /\ (o \in D => Quiet(o))
      BY <2>2, <2>3, <2>6
    <3> QED
      BY <2>3, <2>6, <3>1 DEF Quiet
  <2> QED
    BY <2>1, <2>4, <2>5, <2>6
<1>22. ASSUME NEW p \in Purgers, PurgeDelete(p)
      PROVE  Alone'
  BY <1>22 DEF PurgeDelete
<1>23. CASE Crash
  BY <1>23 DEF Crash, Blank, Holding
<1>24. CASE UNCHANGED vars
  BY <1>24 DEF vars, dbVars, worldVars, factVars
<1> QED
  BY <1>1, <1>2, <1>3, <1>4, <1>5, <1>6, <1>7, <1>8, <1>9, <1>10, <1>11,
     <1>12, <1>13, <1>14, <1>15, <1>16, <1>17, <1>18, <1>19, <1>20, <1>21,
     <1>22, <1>23, <1>24 DEF Next, Request, Handle, Maintain

\* Nobody else writes the status a request has loaded.
LEMMA FreshStep ==
  ASSUME TypeOK, SessionOK, OrderExisted,
         Alone, Fresh, ReadyIsAnswered, [Next]_vars
  PROVE  Fresh'
<1> USE DEF TypeOK, DatabaseType, RequestType, WorldType, SessionOK,
        SessionAt, OrderPC, IssuePC, AnswerPC, Finish, dbVars,
        worldVars, factVars, Lone, OrderExisted, Alone, Fresh, HasRow
<1>1. ASSUME NEW o \in Orders, NewOrder(o)
      PROVE  Fresh'
  BY <1>1 DEF NewOrder
<1>2. ASSUME NEW o \in Orders, Expire(o)
      PROVE  Fresh'
  BY <1>2 DEF Expire
<1>3. ASSUME NEW h \in Handlers, NEW o \in Orders, Poll(h, o)
      PROVE  Fresh'
  BY <1>3, LoneBegins DEF Poll, LoadOrder, Holding, Quiet
<1>4. ASSUME NEW h \in Handlers, NEW o \in Orders, Finalize(h, o)
      PROVE  Fresh'
  BY <1>4, LoneBegins DEF Finalize, LoadOrder, Holding, Quiet
<1>5. ASSUME NEW h \in Handlers, NEW o \in Orders, NEW i \in Idents,
             NEW t \in ChallengeTypes, Respond(h, o, i, t)
      PROVE  Fresh'
  BY <1>5, LoneBegins DEF Respond, Holding, Quiet
<1>6. ASSUME NEW h \in Handlers, Recompute(h)
      PROVE  Fresh'
  BY <1>6 DEF Recompute, Derived
<1>7. ASSUME NEW h \in Handlers, SaveChecked(h)
      PROVE  Fresh'
  BY <1>7 DEF SaveChecked
<1>8. ASSUME NEW h \in Handlers, MeetNoRow(h)
      PROVE  Fresh'
  BY <1>8 DEF MeetNoRow
<1>9. ASSUME NEW h \in Handlers, RejectCsr(h)
      PROVE  Fresh'
  BY <1>9 DEF RejectCsr
<1>10. ASSUME NEW h \in Handlers, StartProcessing(h)
      PROVE  Fresh'
  BY <1>10 DEF StartProcessing, Holding
<1>11. ASSUME NEW h \in Handlers, UpstreamIssues(h)
      PROVE  Fresh'
  BY <1>11 DEF UpstreamIssues
<1>12. ASSUME NEW h \in Handlers, UpstreamFails(h)
      PROVE  Fresh'
  BY <1>12 DEF UpstreamFails
<1>13. ASSUME NEW h \in Handlers, SaveCertificate(h)
      PROVE  Fresh'
  BY <1>13 DEF SaveCertificate
<1>14. ASSUME NEW h \in Handlers, RejectChain(h)
      PROVE  Fresh'
  BY <1>14 DEF RejectChain
<1>15. ASSUME NEW h \in Handlers, SaveFailure(h)
      PROVE  Fresh'
  BY <1>15 DEF SaveFailure
<1>16. ASSUME NEW h \in Handlers, LoadAuthz(h)
      PROVE  Fresh'
  BY <1>16 DEF LoadAuthz, Holding
<1>17. ASSUME NEW h \in Handlers, TurnDown(h)
      PROVE  Fresh'
  BY <1>17 DEF TurnDown
<1>18. ASSUME NEW h \in Handlers, Accept(h)
      PROVE  Fresh'
  BY <1>18 DEF Accept
<1>19. ASSUME NEW h \in Handlers, Refuse(h)
      PROVE  Fresh'
  BY <1>19 DEF Refuse
<1>20. ASSUME NEW h \in Handlers, SaveAnswer(h)
      PROVE  Fresh'
  BY <1>20 DEF SaveAnswer
<1>21. ASSUME NEW p \in Purgers, PurgeScan(p)
      PROVE  Fresh'
  BY <1>21, LoneBegins DEF PurgeScan, Quiet, Purgeable, OrderStatus
<1>22. ASSUME NEW p \in Purgers, PurgeDelete(p)
      PROVE  Fresh'
  BY <1>22 DEF PurgeDelete
<1>23. CASE Crash
  BY <1>23 DEF Crash, Blank, Holding
<1>24. CASE UNCHANGED vars
  BY <1>24 DEF vars, dbVars, worldVars, factVars
<1> QED
  BY <1>1, <1>2, <1>3, <1>4, <1>5, <1>6, <1>7, <1>8, <1>9, <1>10, <1>11,
     <1>12, <1>13, <1>14, <1>15, <1>16, <1>17, <1>18, <1>19, <1>20, <1>21,
     <1>22, <1>23, <1>24 DEF Next, Request, Handle, Maintain

\* Answers only add to what is answered, and a derived status is made of them.
LEMMA ReadyStep ==
  ASSUME TypeOK, SessionOK, OrderExisted,
         Alone, Fresh, ReadyIsAnswered, [Next]_vars
  PROVE  ReadyIsAnswered'
<1> USE DEF TypeOK, DatabaseType, RequestType, WorldType, SessionOK,
        SessionAt, OrderPC, IssuePC, AnswerPC, Finish, dbVars,
        worldVars, factVars, Lone, OrderExisted, Alone, Fresh, ReadyIsAnswered,
        Answered, Wanted
<1>1. ASSUME NEW o \in Orders, NewOrder(o)
      PROVE  ReadyIsAnswered'
  <2>1. /\ ordStatus[o] = "absent" /\ ordStatus' = [ordStatus EXCEPT ![o] = "pending"]
        /\ UNCHANGED <<pc, mem>> /\ \A q \in Orders \ {o} : authz'[q] = authz[q]
    BY <1>1 DEF NewOrder
  <2>2. \A q \in Orders \ {o} : q \in Answered => q \in Answered'
    BY <2>1
  <2>3. \A h \in Handlers : pc[h] # "idle" => mem[h].order \in Orders \ {o}
    BY <2>1
  <2> HIDE DEF Answered
  <2> QED
    BY <2>1, <2>2, <2>3
<1>2. ASSUME NEW o \in Orders, Expire(o)
      PROVE  ReadyIsAnswered'
  BY <1>2 DEF Expire, HasRow
<1>3. ASSUME NEW h \in Handlers, NEW o \in Orders, Poll(h, o)
      PROVE  ReadyIsAnswered'
  <2>1. /\ pc'[h] = "polled" /\ mem'[h].order = o /\ mem'[h].loaded = ordStatus[o]
        /\ \A g \in Handlers \ {h} : pc'[g] = pc[g] /\ mem'[g] = mem[g]
        /\ HasRow(o) /\ UNCHANGED <<authz, ordStatus>>
    BY <1>3 DEF Poll, LoadOrder, Holding
  <2>2. Answered' = Answered
    BY <2>1
  <2>3. ordStatus[o] \in {"pending", "ready", "processing", "valid", "invalid"}
    BY <2>1 DEF HasRow, OrderStatus
  <2> HIDE DEF Answered, Wanted
  <2>4. \A q \in Orders : ordStatus'[q] = "ready" => q \in Answered'
    BY <2>1, <2>2
  <2>5. \A g \in Handlers : pc'[g] \in OrderPC =>
          /\ mem'[g].loaded \in {"pending", "ready", "processing", "valid", "invalid"}
          /\ mem'[g].loaded = "ready" => mem'[g].order \in Answered'
    BY <2>1, <2>2, <2>3
  <2>6. \A g \in Handlers : pc'[g] \in {"checked", "decided"} => pc'[g] = pc[g] /\ g # h
    BY <2>1
  <2> QED
    BY <2>1, <2>2, <2>4, <2>5, <2>6
<1>4. ASSUME NEW h \in Handlers, NEW o \in Orders, Finalize(h, o)
      PROVE  ReadyIsAnswered'
  <2>1. /\ pc'[h] = "finalizing" /\ mem'[h].order = o /\ mem'[h].loaded = ordStatus[o]
        /\ \A g \in Handlers \ {h} : pc'[g] = pc[g] /\ mem'[g] = mem[g]
        /\ HasRow(o) /\ UNCHANGED <<authz, ordStatus>>
    BY <1>4 DEF Finalize, LoadOrder, Holding
  <2>2. Answered' = Answered
    BY <2>1
  <2>3. ordStatus[o] \in {"pending", "ready", "processing", "valid", "invalid"}
    BY <2>1 DEF HasRow, OrderStatus
  <2> HIDE DEF Answered, Wanted
  <2>4. \A q \in Orders : ordStatus'[q] = "ready" => q \in Answered'
    BY <2>1, <2>2
  <2>5. \A g \in Handlers : pc'[g] \in OrderPC =>
          /\ mem'[g].loaded \in {"pending", "ready", "processing", "valid", "invalid"}
          /\ mem'[g].loaded = "ready" => mem'[g].order \in Answered'
    BY <2>1, <2>2, <2>3
  <2>6. \A g \in Handlers : pc'[g] \in {"checked", "decided"} => pc'[g] = pc[g] /\ g # h
    BY <2>1
  <2> QED
    BY <2>1, <2>2, <2>4, <2>5, <2>6
<1>5. ASSUME NEW h \in Handlers, NEW o \in Orders, NEW i \in Idents,
             NEW t \in ChallengeTypes, Respond(h, o, i, t)
      PROVE  ReadyIsAnswered'
  <2>1. /\ pc'[h] = "responding" /\ UNCHANGED <<authz, ordStatus>>
        /\ \A g \in Handlers \ {h} : pc'[g] = pc[g] /\ mem'[g] = mem[g]
    BY <1>5 DEF Respond
  <2>2. Answered' = Answered
    BY <2>1
  <2> HIDE DEF Answered
  <2> QED
    BY <2>1, <2>2
<1>6. ASSUME NEW h \in Handlers, Recompute(h)
      PROVE  ReadyIsAnswered'
  <2> DEFINE m == mem[h]
  <2> DEFINE s == Derived(m.attr, m.order)
  <2>1. /\ m.order \in Orders /\ m.attr = m.loaded /\ pc[h] \in OrderPC
        /\ m.loaded \in {"pending", "ready", "processing", "valid", "invalid"}
        /\ m.loaded = "ready" => m.order \in Answered
    BY <1>6 DEF Recompute
  <2>2. /\ s = "ready" => m.order \in Answered
        /\ m.attr \notin {"pending", "ready"} => s = m.attr
        /\ s \in {"pending", "ready", "invalid", m.attr}
    BY <2>1 DEF Derived
  <2>3. m.attr = "ready" => s \in {"ready", "invalid"}
    <3>1. \A i \in Wanted(m.order) :
            authz[m.order][i] \in {"pending", "valid", "invalid"}
      BY <2>1 DEF ItemStatus
    <3> QED
      BY <2>1, <3>1 DEF Derived
  <2>4. /\ mem'[h].loaded = m.loaded /\ mem'[h].order = m.order /\ mem'[h].attr = s
        /\ \A g \in Handlers \ {h} : pc'[g] = pc[g] /\ mem'[g] = mem[g]
        /\ UNCHANGED <<authz, ordStatus>>
    BY <1>6, SessionFields DEF Recompute, Session
  <2>5. Answered' = Answered
    BY <2>4
  <2> HIDE DEF s, Answered, Wanted
  <2>6. \A q \in Orders : ordStatus'[q] = "ready" => q \in Answered'
    BY <2>4, <2>5
  <2>7. \A g \in Handlers : pc'[g] \in OrderPC =>
          /\ mem'[g].loaded \in {"pending", "ready", "processing", "valid", "invalid"}
          /\ mem'[g].loaded = "ready" => mem'[g].order \in Answered'
    BY <2>1, <2>4, <2>5
  <2>8. /\ mem'[h].attr = "ready" => mem'[h].order \in Answered'
        /\ mem'[h].loaded = "ready" => mem'[h].attr \in {"ready", "invalid"}
        /\ mem'[h].loaded = "pending" => mem'[h].attr \in {"pending", "ready", "invalid"}
        /\ mem'[h].loaded \notin {"pending", "ready"} => mem'[h].attr = mem'[h].loaded
    BY <2>1, <2>2, <2>3, <2>4, <2>5
  <2> QED
    BY <2>4, <2>5, <2>6, <2>7, <2>8
<1>7. ASSUME NEW h \in Handlers, SaveChecked(h)
      PROVE  ReadyIsAnswered'
  BY <1>7 DEF SaveChecked, HasRow
<1>8. ASSUME NEW h \in Handlers, MeetNoRow(h)
      PROVE  ReadyIsAnswered'
  BY <1>8 DEF MeetNoRow
<1>9. ASSUME NEW h \in Handlers, RejectCsr(h)
      PROVE  ReadyIsAnswered'
  BY <1>9 DEF RejectCsr
<1>10. ASSUME NEW h \in Handlers, StartProcessing(h)
      PROVE  ReadyIsAnswered'
  BY <1>10 DEF StartProcessing, Holding, HasRow
<1>11. ASSUME NEW h \in Handlers, UpstreamIssues(h)
      PROVE  ReadyIsAnswered'
  BY <1>11 DEF UpstreamIssues
<1>12. ASSUME NEW h \in Handlers, UpstreamFails(h)
      PROVE  ReadyIsAnswered'
  BY <1>12 DEF UpstreamFails
<1>13. ASSUME NEW h \in Handlers, SaveCertificate(h)
      PROVE  ReadyIsAnswered'
  BY <1>13 DEF SaveCertificate, HasRow
<1>14. ASSUME NEW h \in Handlers, RejectChain(h)
      PROVE  ReadyIsAnswered'
  BY <1>14 DEF RejectChain
<1>15. ASSUME NEW h \in Handlers, SaveFailure(h)
      PROVE  ReadyIsAnswered'
  BY <1>15 DEF SaveFailure, HasRow
<1>16. ASSUME NEW h \in Handlers, LoadAuthz(h)
      PROVE  ReadyIsAnswered'
  BY <1>16 DEF LoadAuthz, Holding, HasRow
<1>17. ASSUME NEW h \in Handlers, TurnDown(h)
      PROVE  ReadyIsAnswered'
  BY <1>17 DEF TurnDown
<1>18. ASSUME NEW h \in Handlers, Accept(h)
      PROVE  ReadyIsAnswered'
  BY <1>18 DEF Accept
<1>19. ASSUME NEW h \in Handlers, Refuse(h)
      PROVE  ReadyIsAnswered'
  BY <1>19 DEF Refuse
<1>20. ASSUME NEW h \in Handlers, SaveAnswer(h)
      PROVE  ReadyIsAnswered'
  <2>1. /\ mem[h].order \in Orders /\ mem[h].attr \in {"valid", "invalid"}
        /\ ordStatus' = ordStatus
    BY <1>20 DEF SaveAnswer
  <2>2. \A o \in Orders, i \in Idents :
          authz'[o][i] \in {authz[o][i], "valid", "invalid"} /\ Wanted(o)' = Wanted(o)
    BY <1>20, <2>1 DEF SaveAnswer
  <2>3. ASSUME NEW o \in Answered
        PROVE  o \in Answered'
    <3>1. o \in Orders /\ Wanted(o) # {} /\ Wanted(o)' = Wanted(o)
      BY <2>2
    <3>2. ASSUME NEW i \in Wanted(o)
          PROVE  authz'[o][i] # "pending"
      BY <2>2
    <3> QED
      BY <3>1, <3>2
  <2>4. \A g \in Handlers :
          pc'[g] \in {"checked", "decided"} => pc'[g] = pc[g] /\ mem'[g] = mem[g]
    BY <1>20 DEF SaveAnswer
  <2>5. Answered \subseteq Answered'
    BY <2>3
  <2>6. \A g \in Handlers : pc'[g] \in OrderPC => pc'[g] = pc[g] /\ mem'[g] = mem[g]
    BY <1>20 DEF SaveAnswer
  <2>7. pc'[h] = "idle"
    BY <1>20 DEF SaveAnswer
  <2> HIDE DEF Answered
  <2> QED
    BY <2>1, <2>4, <2>5, <2>6, <2>7
<1>21. ASSUME NEW p \in Purgers, PurgeScan(p)
      PROVE  ReadyIsAnswered'
  <2>1. UNCHANGED <<pc, mem, authz, ordStatus>>
    BY <1>21 DEF PurgeScan
  <2> QED
    BY <2>1
<1>22. ASSUME NEW p \in Purgers, PurgeDelete(p)
      PROVE  ReadyIsAnswered'
  BY <1>22 DEF PurgeDelete
<1>23. CASE Crash
  BY <1>23 DEF Crash, Blank, Holding
<1>24. CASE UNCHANGED vars
  BY <1>24 DEF vars, dbVars, worldVars, factVars
<1> QED
  BY <1>1, <1>2, <1>3, <1>4, <1>5, <1>6, <1>7, <1>8, <1>9, <1>10, <1>11,
     <1>12, <1>13, <1>14, <1>15, <1>16, <1>17, <1>18, <1>19, <1>20, <1>21,
     <1>22, <1>23, <1>24 DEF Next, Request, Handle, Maintain

\* A recorded order is left valid: everyone who may write to it found it unfinished.
LEMMA RecordedStep ==
  ASSUME TypeOK, SessionOK, OrderExisted,
         Alone, Fresh, ReadyIsAnswered, Recorded, [Next]_vars
  PROVE  Recorded'
<1> USE DEF OrderPC, IssuePC, Finish, dbVars, worldVars, factVars
<1>1. ASSUME UNCHANGED <<ordStatus, ordCert>>,
             \A o \in Orders : Lone(o)' => Lone(o)
      PROVE  Recorded'
  BY <1>1 DEF Recorded
<1>2. ASSUME UNCHANGED <<ordStatus, ordCert, overlaps>>
      PROVE  Recorded'
  BY <1>1, <1>2, LoneStays
<1>3. ASSUME NEW q \in Orders, NEW to \in OrderStatus,
             ordStatus' = [ordStatus EXCEPT ![q] = to], UNCHANGED <<ordCert, overlaps>>,
             Lone(q) => ordStatus[q] # "valid"
      PROVE  Recorded'
  <2> SUFFICES ASSUME NEW o \in Orders, Lone(o), ordCert[o] # 0 PROVE ordStatus'[o] = "valid"
    BY <1>3, LoneStays DEF Recorded
  <2> QED
    BY <1>3 DEF Recorded, TypeOK, DatabaseType
<1>4. ASSUME NEW o \in Orders, NewOrder(o)
      PROVE  Recorded'
  BY <1>3, <1>4 DEF NewOrder, OrderStatus
<1>5. ASSUME NEW h \in Handlers, NEW o \in Orders, Poll(h, o)
      PROVE  Recorded'
  BY <1>1, <1>5, LoneBegins DEF Poll, LoadOrder
<1>6. ASSUME NEW h \in Handlers, NEW o \in Orders, Finalize(h, o)
      PROVE  Recorded'
  BY <1>1, <1>6, LoneBegins DEF Finalize, LoadOrder
<1>7. ASSUME NEW h \in Handlers, NEW o \in Orders, NEW i \in Idents,
             NEW t \in ChallengeTypes, Respond(h, o, i, t)
      PROVE  Recorded'
  BY <1>1, <1>7, LoneBegins DEF Respond
<1>8. ASSUME NEW h \in Handlers, SaveChecked(h)
      PROVE  Recorded'
  <2> DEFINE m == mem[h]
  <2>1. /\ m.order \in Orders /\ (Lone(m.order) => m.loaded = ordStatus[m.order])
        /\ UNCHANGED <<ordCert, overlaps>> /\ pc[h] \in {"checked", "decided"}
    BY <1>8 DEF SaveChecked, SessionOK, SessionAt, Fresh
  <2>2. CASE m.attr = m.loaded
    BY <1>2, <1>8, <2>1, <2>2 DEF SaveChecked
  <2>3. CASE m.attr # m.loaded
    <3>1. m.loaded \in {"pending", "ready"} /\ m.attr \in {"pending", "ready", "invalid"}
      BY <2>1, <2>3 DEF ReadyIsAnswered, SessionOK, SessionAt
    <3>2. ordStatus' = [ordStatus EXCEPT ![m.order] = m.attr]
      BY <1>8, <2>3 DEF SaveChecked
    <3>3. m.attr \in OrderStatus /\ (Lone(m.order) => ordStatus[m.order] # "valid")
      BY <2>1, <3>1 DEF OrderStatus
    <3> HIDE DEF m
    <3> QED
      BY <1>3, <2>1, <3>2, <3>3
  <2> QED
    BY <2>2, <2>3
<1>9. ASSUME NEW h \in Handlers, StartProcessing(h)
      PROVE  Recorded'
  <2>1. /\ mem[h].order \in Orders /\ UNCHANGED <<ordCert, overlaps>>
        /\ ordStatus' = [ordStatus EXCEPT ![mem[h].order] = "processing"]
        /\ Lone(mem[h].order) => ordStatus[mem[h].order] # "valid"
    BY <1>9 DEF StartProcessing, SessionOK, SessionAt, Fresh, ReadyIsAnswered
  <2> QED
    BY <1>3, <2>1 DEF OrderStatus
<1>10. ASSUME NEW h \in Handlers, SaveCertificate(h)
      PROVE  Recorded'
  <2>1. PICK q \in Orders : /\ ordStatus' = [ordStatus EXCEPT ![q] = "valid"]
                            /\ ordCert' = [ordCert EXCEPT ![q] = Len(certs) + 1]
                            /\ UNCHANGED overlaps
    BY <1>10 DEF SaveCertificate, SessionOK, SessionAt
  <2>2. ASSUME NEW o \in Orders, Lone(o), ordCert'[o] # 0
        PROVE  ordStatus'[o] = "valid"
    BY <2>1, <2>2 DEF Recorded, TypeOK, DatabaseType
  <2> QED
    BY <2>1, <2>2, LoneStays DEF Recorded
<1>11. ASSUME NEW h \in Handlers, SaveFailure(h)
      PROVE  Recorded'
  <2>1. /\ mem[h].order \in Orders /\ UNCHANGED <<ordCert, overlaps>>
        /\ ordStatus' = [ordStatus EXCEPT ![mem[h].order] = "invalid"]
        /\ Lone(mem[h].order) => ordStatus[mem[h].order] # "valid"
    BY <1>11 DEF SaveFailure, SessionOK, SessionAt, Fresh
  <2> QED
    BY <1>3, <2>1 DEF OrderStatus
<1>12. ASSUME NEW p \in Purgers, PurgeScan(p)
      PROVE  Recorded'
  BY <1>1, <1>12, LoneBegins DEF PurgeScan
<1>13. ASSUME NEW p \in Purgers, PurgeDelete(p)
      PROVE  Recorded'
  <2>1. /\ ordStatus' = [o \in Orders |-> IF o \in doomed[p] THEN "deleted" ELSE ordStatus[o]]
        /\ UNCHANGED <<ordCert, overlaps>>
    BY <1>13 DEF PurgeDelete
  <2>2. ASSUME NEW o \in Orders, Lone(o), ordCert[o] # 0
        PROVE  ordStatus'[o] = "valid"
    BY <2>1, <2>2 DEF Recorded, Fresh
  <2> QED
    BY <2>1, <2>2, LoneStays DEF Recorded
<1>14. \/ UNCHANGED <<ordStatus, ordCert, overlaps>>
       \/ \E h \in Handlers : \/ SaveChecked(h) \/ StartProcessing(h)
                              \/ SaveCertificate(h) \/ SaveFailure(h)
       \/ \E h \in Handlers, o \in Orders :
            \/ Poll(h, o) \/ Finalize(h, o)
            \/ \E i \in Idents, t \in ChallengeTypes : Respond(h, o, i, t)
       \/ \E o \in Orders : NewOrder(o)
       \/ \E p \in Purgers : PurgeScan(p) \/ PurgeDelete(p)
  BY DEF Next, Request, Handle, Maintain, Expire, Recompute, MeetNoRow, RejectCsr,
     UpstreamIssues, UpstreamFails, RejectChain, LoadAuthz, TurnDown, Accept, Refuse,
     SaveAnswer, Crash, vars
<1> QED
  BY <1>2, <1>4, <1>5, <1>6, <1>7, <1>8, <1>9, <1>10, <1>11, <1>12, <1>13, <1>14

\* Work that begins is a step of the lifecycle, or none.
LEMMA BeginIsOverlap ==
  ASSUME TypeOK, NEW S, Begin(S), UNCHANGED <<ordStatus, ordCert>>
  PROVE  Lifecycle!Next
<1>1. PICK D \in SUBSET Orders : D = {o \in Orders : overlaps'[o] > 0}
  OBVIOUS
<1>2. \A o \in Orders : overlaps[o] > 0 => overlaps'[o] > 0
  BY Typed, BeginFacts
<1>3. {o \in Orders : overlaps'[o] > 0} = {o \in Orders : overlaps[o] > 0} \cup D
  BY <1>1, <1>2
<1>4. Lifecycle!Overlap(D)
  BY <1>3 DEF Lifecycle!Overlap
<1> QED
  BY <1>4 DEF Lifecycle!Next

\* A request that writes another status to an order that others have touched.
LEMMA WritingIsSlip ==
  ASSUME TypeOK, NEW q \in Orders, ~Lone(q), HasRow(q),
         NEW to \in {"pending", "ready", "processing", "invalid"},
         ordStatus' = [ordStatus EXCEPT ![q] = to], UNCHANGED <<ordCert, overlaps>>
  PROVE  Lifecycle!Next
<1>1. q \in {o \in Orders : overlaps[o] > 0}
  BY Typed DEF Lone
<1>2. ordStatus[q] \in Lifecycle!Rows /\ to \in Lifecycle!Rows
  BY DEF HasRow, OrderStatus, TypeOK, DatabaseType, Lifecycle!Rows
<1>3. Lifecycle!Slip(q, to)
  BY <1>1, <1>2 DEF Lifecycle!Slip, Lifecycle!Move
<1> QED
  BY <1>2, <1>3 DEF Lifecycle!Next

\* Every step of the server moves each order as OrderLifecycle allows, or leaves
\* it: a save that changes the status, a start, a grant, a failure or a deletion.
LEMMA LifecycleStep ==
  ASSUME TypeOK, SessionOK, OrderExisted, LifecycleInv, [Next]_vars
  PROVE  [Lifecycle!Next]_(Lifecycle!lifeVars)
<1> USE DEF OrderPC, IssuePC, Finish, dbVars, worldVars, factVars, Lifecycle!lifeVars
<1>1. ASSUME NEW o \in Orders, NewOrder(o)
      PROVE  Lifecycle!Next
  <2>1. ordStatus[o] = "absent" /\ ordCert' = ordCert /\ overlaps' = overlaps
        /\ ordStatus' = [ordStatus EXCEPT ![o] = "pending"]
    BY <1>1 DEF NewOrder
  <2>2. Lifecycle!Place(o)
    BY <2>1 DEF Lifecycle!Place, Lifecycle!Move
  <2> QED
    BY <2>2 DEF Lifecycle!Next
<1>2. ASSUME NEW h \in Handlers, NEW o \in Orders, Poll(h, o)
      PROVE  Lifecycle!Next
  BY <1>2, BeginIsOverlap DEF Poll, LoadOrder
<1>3. ASSUME NEW h \in Handlers, NEW o \in Orders, Finalize(h, o)
      PROVE  Lifecycle!Next
  BY <1>3, BeginIsOverlap DEF Finalize, LoadOrder
<1>4. ASSUME NEW h \in Handlers, NEW o \in Orders, NEW i \in Idents,
             NEW t \in ChallengeTypes, Respond(h, o, i, t)
      PROVE  Lifecycle!Next
  BY <1>4, BeginIsOverlap DEF Respond
<1>5. ASSUME NEW h \in Handlers, SaveChecked(h)
      PROVE  [Lifecycle!Next]_(Lifecycle!lifeVars)
  <2> DEFINE m == mem[h]
  <2>1. /\ m.order \in Orders /\ HasRow(m.order) /\ pc[h] \in {"checked", "decided"}
        /\ Lone(m.order) => m.loaded = ordStatus[m.order]
        /\ UNCHANGED <<ordCert, overlaps>>
    BY <1>5 DEF SaveChecked, SessionOK, SessionAt, LifecycleInv, Fresh
  <2>2. CASE m.attr = m.loaded
    BY <1>5, <2>1, <2>2 DEF SaveChecked
  <2>3. CASE m.attr # m.loaded
    <3>1. /\ ordStatus' = [ordStatus EXCEPT ![m.order] = m.attr]
          /\ \/ m.loaded = "pending" /\ m.attr \in {"ready", "invalid"}
             \/ m.loaded = "ready" /\ m.attr = "invalid"
      BY <1>5, <2>1, <2>3 DEF SaveChecked, LifecycleInv, ReadyIsAnswered
    <3>2. CASE ~Lone(m.order)
      <4> HIDE DEF m
      <4> QED
        BY <2>1, <3>1, <3>2, WritingIsSlip
    <3>3. CASE Lone(m.order)
      <4>1. Lifecycle!Authorize(m.order) \/ Lifecycle!Abort(m.order)
        BY <2>1, <3>1, <3>3 DEF Lifecycle!Authorize, Lifecycle!Abort, Lifecycle!Move
      <4> QED
        BY <2>1, <4>1 DEF Lifecycle!Next
    <3> QED
      BY <3>2, <3>3
  <2> QED
    BY <2>2, <2>3
<1>6. ASSUME NEW h \in Handlers, StartProcessing(h)
      PROVE  Lifecycle!Next
  <2>0. PICK o \in Orders : o = mem[h].order
    BY <1>6 DEF StartProcessing, SessionOK, SessionAt
  <2>1. /\ HasRow(o) /\ (Lone(o) => ordStatus[o] \in {"pending", "ready"})
        /\ ordStatus' = [ordStatus EXCEPT ![o] = "processing"]
        /\ UNCHANGED <<ordCert, overlaps>>
    BY <1>6, <2>0 DEF StartProcessing, LifecycleInv, Fresh, ReadyIsAnswered
  <2>2. CASE Lone(o)
    <3>1. Lifecycle!Start(o)
      BY <2>1, <2>2 DEF Lifecycle!Start, Lifecycle!Move
    <3> QED
      BY <3>1 DEF Lifecycle!Next
  <2> QED
    BY <2>1, <2>2, WritingIsSlip
<1>7. ASSUME NEW h \in Handlers, SaveCertificate(h)
      PROVE  Lifecycle!Next
  <2>0. PICK o \in Orders : o = mem[h].order
    BY <1>7 DEF SaveCertificate, SessionOK, SessionAt
  <2>1. /\ HasRow(o) /\ (Lone(o) => ordStatus[o] = "processing")
        /\ ordStatus' = [ordStatus EXCEPT ![o] = "valid"]
        /\ ordCert' = [ordCert EXCEPT ![o] = Len(certs) + 1]
        /\ overlaps' = overlaps
    BY <1>7, <2>0 DEF SaveCertificate, SessionOK, SessionAt, LifecycleInv, Fresh
  <2>2. {q \in Orders : ordCert'[q] # 0} = {q \in Orders : ordCert[q] # 0} \cup {o}
    BY <2>1 DEF TypeOK, DatabaseType
  <2>3. CASE Lone(o)
    <3>1. o \notin {q \in Orders : ordCert[q] # 0}
      BY <2>1, <2>3 DEF LifecycleInv, Recorded
    <3>2. Lifecycle!Grant(o)
      BY <2>1, <2>2, <2>3, <3>1 DEF Lifecycle!Grant, Lifecycle!Move
    <3> QED
      BY <3>2 DEF Lifecycle!Next
  <2>4. CASE ~Lone(o)
    <3>1. o \in {q \in Orders : overlaps[q] > 0}
      BY <2>4, Typed DEF Lone
    <3>2. ordStatus[o] \in Lifecycle!Rows /\ "valid" \in Lifecycle!Rows
      BY <2>1 DEF HasRow, OrderStatus, TypeOK, DatabaseType, Lifecycle!Rows
    <3>3. Lifecycle!Slip(o, "valid")
      BY <2>1, <2>2, <3>1, <3>2 DEF Lifecycle!Slip, Lifecycle!Move
    <3> QED
      BY <3>2, <3>3 DEF Lifecycle!Next
  <2> QED
    BY <2>3, <2>4
<1>8. ASSUME NEW h \in Handlers, SaveFailure(h)
      PROVE  Lifecycle!Next
  <2>0. PICK o \in Orders : o = mem[h].order
    BY <1>8 DEF SaveFailure, SessionOK, SessionAt
  <2>1. /\ HasRow(o) /\ (Lone(o) => ordStatus[o] = "processing")
        /\ ordStatus' = [ordStatus EXCEPT ![o] = "invalid"]
        /\ UNCHANGED <<ordCert, overlaps>>
    BY <1>8, <2>0 DEF SaveFailure, SessionOK, SessionAt, LifecycleInv, Fresh
  <2>2. CASE Lone(o)
    <3>1. Lifecycle!Abort(o)
      BY <2>1, <2>2 DEF Lifecycle!Abort, Lifecycle!Move
    <3> QED
      BY <3>1 DEF Lifecycle!Next
  <2> QED
    BY <2>1, <2>2, WritingIsSlip
<1>9. ASSUME NEW p \in Purgers, PurgeScan(p)
      PROVE  Lifecycle!Next
  BY <1>9, BeginIsOverlap DEF PurgeScan
<1>10. ASSUME NEW p \in Purgers, PurgeDelete(p)
      PROVE  Lifecycle!Next
  <2>1. /\ doomed[p] # {} /\ doomed[p] \in SUBSET Orders
        /\ ordStatus' = [q \in Orders |->
                           IF q \in doomed[p] THEN "deleted" ELSE ordStatus[q]]
        /\ UNCHANGED <<ordCert, overlaps>>
    BY <1>10 DEF PurgeDelete, TypeOK, WorldType
  <2>2. \A o \in doomed[p] :
          \/ ordStatus[o] \in {"pending", "ready", "invalid"}
          \/ o \in {q \in Orders : overlaps[q] > 0} /\ ordStatus[o] # "absent"
    BY <2>1, Typed DEF LifecycleInv, Fresh, Lone
  <2>3. Lifecycle!Discard(doomed[p])
    BY <2>1, <2>2 DEF Lifecycle!Discard
  <2> QED
    BY <2>1, <2>3 DEF Lifecycle!Next
<1>11. \/ UNCHANGED <<ordStatus, ordCert, overlaps>>
       \/ \E h \in Handlers : \/ SaveChecked(h) \/ StartProcessing(h)
                              \/ SaveCertificate(h) \/ SaveFailure(h)
       \/ \E h \in Handlers, o \in Orders :
            \/ Poll(h, o) \/ Finalize(h, o)
            \/ \E i \in Idents, t \in ChallengeTypes : Respond(h, o, i, t)
       \/ \E o \in Orders : NewOrder(o)
       \/ \E p \in Purgers : PurgeScan(p) \/ PurgeDelete(p)
  BY DEF Next, Request, Handle, Maintain, Expire, Recompute, MeetNoRow, RejectCsr,
     UpstreamIssues, UpstreamFails, RejectChain, LoadAuthz, TurnDown, Accept, Refuse,
     SaveAnswer, Crash, vars
<1>12. ASSUME UNCHANGED <<ordStatus, ordCert, overlaps>>
       PROVE  UNCHANGED Lifecycle!lifeVars
  BY <1>12
<1> QED
  BY <1>1, <1>2, <1>3, <1>4, <1>5, <1>6, <1>7, <1>8, <1>9, <1>10, <1>11, <1>12

\* Nothing runs, and nothing is recorded, at first.
LEMMA LifecycleInit == Init => LifecycleInv
BY OrdersAssumption
DEF Init, LifecycleInv, Alone, Fresh, ReadyIsAnswered, Answered, Wanted, Recorded,
    OrderPC, IssuePC

\* Whatever requests and maintenance processes do, and however they interleave, orders
\* follow OrderLifecycle: exactly, one by one, as long as the work on them does not
\* overlap, and after that within what it still promises.
THEOREM Refinement == Spec => ImplementsLifecycle
<1>1. Init => Lifecycle!Init
  BY OrdersAssumption DEF Init, Lifecycle!Init
<1>2. Init => OrderExisted /\ LifecycleInv
  BY InvInit, LifecycleInit
<1>3. TypeOK /\ SessionOK /\ OrderExisted /\ LifecycleInv /\ [Next]_vars
      => (OrderExisted /\ LifecycleInv)'
  BY ExistedStep, AloneStep, FreshStep, ReadyStep, RecordedStep DEF LifecycleInv
<1>4. TypeOK /\ SessionOK /\ OrderExisted /\ LifecycleInv /\ [Next]_vars
      => [Lifecycle!Next]_(Lifecycle!lifeVars)
  BY LifecycleStep
<1> QED
  BY <1>1, <1>2, <1>3, <1>4, TypeCorrect, PTL
  DEF Spec, ImplementsLifecycle, Lifecycle!Spec

=============================================================================
