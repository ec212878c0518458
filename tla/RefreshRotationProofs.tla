----------------------- MODULE RefreshRotationProofs -----------------------
(***************************************************************************)
(* What RefreshRotation guarantees for every number of tokens, families,   *)
(* clients, users and workers, and whichever events happen.                *)
(*                                                                         *)
(* The inductive invariant comes in layers, each proved from the ones      *)
(* before it: types and handler shapes; who holds which row; what a sweep  *)
(* still has to do; what answers say; and what excuses a second use.       *)
(***************************************************************************)
EXTENDS RefreshRotation, TLAPS

USE OwnersAssumption, NamesAssumption, RemembersAssumption

-----------------------------------------------------------------------------
(* Types.                                                                  *)

\* Where an exchange has its token and its client.
Exchange == {"queued", "replay", "consume", "held", "rotate", "remember", "reply",
             "refused", "rollback"}

Handlers ==
    \A r \in Request :
        /\ pc[r] = "idle" => tok[r] = None
        /\ pc[r] \in Exchange => tok[r] \in Token
        /\ tok[r] \in Token => by[r] \in Client /\ family[tok[r]] \in Family
        /\ pc[r] \in {"remember", "reply"} => answer[r] \in Token
        /\ \A t \in sweep[r].todo : family[t] \in Family

\* The table's rows and the handlers' locals keep their shapes.
Shapes == TypeOK /\ Handlers

\* The table is empty and every worker idle.
LEMMA InitShapes == Init => Shapes
  BY DEF Init, Shapes, TypeOK, Handlers, NoSweep, Update, Exchange, Answer

\* Every step keeps the shapes.
LEMMA NextShapes == Shapes /\ [Next]_vars => Shapes'
  <1> SUFFICES ASSUME Shapes, [Next]_vars
               PROVE  Shapes'
    OBVIOUS
  <1> USE DEF Shapes
  <1>1. ASSUME NEW f \in Family, NEW t \in Token, Redeem(f, t)
        PROVE  Shapes'
    BY <1>1 DEF Redeem, TypeOK, Handlers, Fresh, Issued, handler, history, Exchange
  <1>2. ASSUME NEW r \in Request, NEW t \in Token, NEW c \in Client, Present(r, t, c)
        PROVE  Shapes'
    BY <1>2 DEF Present, Goto, TypeOK, Handlers, Known, Issued, rows, history, Exchange
  <1>3. ASSUME NEW r \in Request, NEW fs \in SUBSET Family, Revoke(r, fs)
        PROVE  Shapes'
    BY <1>3 DEF Revoke, StartSweep, NoSweep, Update, Goto, TypeOK, Handlers, rows, history, Exchange
  <1>4. ASSUME NEW r \in Request, AcquireMutex(r)
        PROVE  Shapes'
    BY <1>4 DEF AcquireMutex, Goto, TypeOK, Handlers, rows, history, Exchange
  <1>5. ASSUME NEW r \in Request, GiveUp(r)
        PROVE  Shapes'
    BY <1>5 DEF GiveUp, Finish, NoSweep, Update, Goto, TypeOK, Handlers, rows, history, Exchange
  <1>6. ASSUME NEW r \in Request, ReplayedRotation(r)
        PROVE  Shapes'
    <2>1. tok[r] \in Token
      BY <1>6 DEF ReplayedRotation, Handlers, Exchange
    <2>2. CASE Collects(tok[r], by[r])
      <3>1. replay[tok[r]].token \in Token
        BY <2>1, <2>2 DEF Collects, TypeOK, Answer
      <3>2. answer' = [answer EXCEPT ![r] = replay[tok[r]].token]
        BY <1>6, <2>2 DEF ReplayedRotation
      <3>3. TypeOK'
        BY <1>6, <2>2, <3>1, <3>2 DEF ReplayedRotation, Goto, TypeOK, rows, history
      <3>4. Handlers'
        BY <1>6, <2>1, <2>2, <3>1, <3>2
           DEF ReplayedRotation, Goto, TypeOK, Handlers, rows, Exchange
      <3> QED
        BY <3>3, <3>4
    <2>3. CASE ~Collects(tok[r], by[r])
      BY SMTT(60), <1>6, <2>3 DEF ReplayedRotation, Goto, TypeOK, Handlers, rows, history, Exchange
    <2> QED
      BY <2>2, <2>3
  <1>7. ASSUME NEW r \in Request, ConsumeRefreshToken(r)
        PROVE  Shapes'
    <2>1. tok[r] \in Token /\ family[tok[r]] \in Family
      BY <1>7 DEF ConsumeRefreshToken, Handlers, Exchange
    <2>2. CASE StartSweep(r, {family[tok[r]]})
      BY <1>7, <2>1, <2>2 DEF ConsumeRefreshToken, StartSweep, Update, Goto, TypeOK, Handlers,
                              rows, history, Exchange
    <2>3. CASE Goto(r, "refused") /\ UNCHANGED sweep
      BY <1>7, <2>1, <2>3 DEF ConsumeRefreshToken, Goto, TypeOK, Handlers, rows, history,
                              Exchange
    <2>4. CASE Goto(r, "held") /\ UNCHANGED sweep
      BY <1>7, <2>1, <2>4 DEF ConsumeRefreshToken, Goto, TypeOK, Handlers, rows, history,
                              Exchange
    <2> QED
      BY <1>7, <2>2, <2>3, <2>4 DEF ConsumeRefreshToken
  <1>8. ASSUME NEW r \in Request, CheckUser(r)
        PROVE  Shapes'
    <2>1. tok[r] \in Token /\ family[tok[r]] \in Family
      BY <1>8 DEF CheckUser, Handlers, Exchange
    <2>2. CASE StartSweep(r, {family[tok[r]]})
      BY <1>8, <2>1, <2>2 DEF CheckUser, StartSweep, Update, Goto, TypeOK, Handlers, rows,
                              history, Exchange
    <2>3. CASE Goto(r, "rotate") /\ UNCHANGED sweep
      BY <1>8, <2>1, <2>3 DEF CheckUser, Goto, TypeOK, Handlers, rows, history, Exchange
    <2> QED
      BY <1>8, <2>2, <2>3 DEF CheckUser
  <1>9. ASSUME NEW r \in Request, NEW u \in Token, Rotate(r, u)
        PROVE  Shapes'
    BY <1>9 DEF Rotate, Unlocked, Fresh, Issued, Goto, TypeOK, Handlers, rows, history,
                Exchange
  <1>10. ASSUME NEW r \in Request, RememberRotation(r)
         PROVE  Shapes'
    BY <1>10 DEF RememberRotation, Answer, Goto, TypeOK, Handlers, rows, history, Exchange
  <1>11. ASSUME NEW r \in Request, Reply(r)
         PROVE  Shapes'
    BY <1>11 DEF Reply, ReleaseMutex, Finish, NoSweep, Update, Goto, TypeOK, Handlers, rows,
                 Exchange
  <1>12. ASSUME NEW r \in Request, Refuse(r)
         PROVE  Shapes'
    BY <1>12 DEF Refuse, ReleaseMutex, Goto, TypeOK, Handlers, rows, history, Exchange
  <1>13. ASSUME NEW r \in Request, Rollback(r)
         PROVE  Shapes'
    BY <1>13 DEF Rollback, Unlocked, Finish, NoSweep, Update, Goto, TypeOK, Handlers, rows, history,
                 Exchange
  <1>14. ASSUME NEW r \in Request, TakeSnapshot(r)
         PROVE  Shapes'
    BY <1>14 DEF TakeSnapshot, NoSweep, Update, Goto, TypeOK, Handlers, rows, history, Exchange
  <1>15. ASSUME NEW r \in Request, NEW t \in Token, SweepRow(r, t)
         PROVE  Shapes'
    <2>1. family[t] \in Family
      BY <1>15 DEF SweepRow, Handlers
    <2>2. /\ sweep[r].targets \subseteq Family /\ sweep[r].todo \subseteq Token
          /\ sweep[r].marked \subseteq Token /\ sweep[r].skipped \subseteq Family
      BY DEF TypeOK
    <2>3. PICK marked \in SUBSET Token, skipped \in SUBSET Family :
            sweep' = [sweep EXCEPT ![r] =
                        Update(sweep[r].targets, sweep[r].todo \ {t}, marked, skipped)]
      BY <1>15, <2>1, <2>2 DEF SweepRow
    <2>4. sweep' \in [Request -> [targets : SUBSET Family, todo : SUBSET Token,
                                  marked : SUBSET Token, skipped : SUBSET Family]]
      BY <2>2, <2>3 DEF Update, TypeOK
    <2>5. rowLock' \in [Token -> Request \cup {None}]
      BY <1>15 DEF SweepRow, TypeOK
    <2>6. UNCHANGED <<rows, mutex, replay, pc, tok, by, answer, history>>
      BY <1>15 DEF SweepRow
    <2>7. TypeOK'
      BY <2>4, <2>5, <2>6 DEF TypeOK, rows, history
    <2>8. Handlers'
      BY <2>2, <2>3, <2>6 DEF Update, TypeOK, Handlers, rows
    <2> QED
      BY <2>7, <2>8
  <1>16. ASSUME NEW r \in Request, CommitSweep(r)
         PROVE  Shapes'
    <2>1. sweep[r].targets \subseteq Family
      BY DEF TypeOK
    <2>2. live' \subseteq Token /\ swept' \subseteq Family /\ clean' \subseteq swept'
      BY <1>16, <2>1 DEF CommitSweep, TypeOK
    <2>3. rowLock' \in [Token -> Request \cup {None}]
      BY <1>16 DEF CommitSweep, Unlocked, TypeOK
    <2>4. UNCHANGED <<family, successor, expired, active, mutex, replay, excuse, answered>>
      BY <1>16 DEF CommitSweep
    <2>5. sweep' = [sweep EXCEPT ![r] = NoSweep]
      BY <1>16 DEF CommitSweep, Finish
    <2>6. CASE tok[r] = None
      <3>1. /\ pc' = [pc EXCEPT ![r] = "idle"]
            /\ tok' = [tok EXCEPT ![r] = None]
            /\ by' = [by EXCEPT ![r] = None]
            /\ answer' = [answer EXCEPT ![r] = None]
        BY <1>16, <2>6 DEF CommitSweep, Finish, Goto
      <3> QED
        BY <2>2, <2>3, <2>4, <2>5, <3>1 DEF NoSweep, Update, TypeOK, Handlers, Exchange
    <2>7. CASE tok[r] # None
      <3>1. pc' = [pc EXCEPT ![r] = "refused"] /\ UNCHANGED <<tok, by, answer>>
        BY <1>16, <2>7 DEF CommitSweep, Goto
      <3> QED
        BY <2>2, <2>3, <2>4, <2>5, <2>7, <3>1 DEF NoSweep, Update, TypeOK, Handlers, Exchange
    <2> QED
      BY <2>6, <2>7
  <1>17. ASSUME NEW r \in Request, Crash(r)
         PROVE  Shapes'
    BY <1>17 DEF Crash, Unlocked, Finish, NoSweep, Update, Goto, TypeOK, Handlers, rows, Excuse,
                 Exchange
  <1>18. ASSUME NEW t \in Token, LeaseExpires(t)
         PROVE  Shapes'
    BY <1>18 DEF LeaseExpires, TypeOK, Handlers, rows, handler, Excuse, Exchange
  <1>19. ASSUME NEW t \in Token, ReplayExpires(t)
         PROVE  Shapes'
    BY <1>19 DEF ReplayExpires, TypeOK, Handlers, rows, handler, Excuse, Exchange
  <1>20. ASSUME NEW t \in Token, TokenExpires(t)
         PROVE  Shapes'
    BY <1>20 DEF TokenExpires, TypeOK, Handlers, handler, history, Exchange
  <1>21. ASSUME NEW u \in User, SetActive(u)
         PROVE  Shapes'
    BY <1>21 DEF SetActive, TypeOK, Handlers, handler, history, Exchange
  <1>22. CASE UNCHANGED vars
    BY <1>22 DEF vars, rows, handler, history, TypeOK, Handlers, Exchange
  <1>23. ASSUME NEW r \in Request, DeadlockAbort(r)
         PROVE  Shapes'
    <2>1. /\ rowLock' \in [Token -> Request \cup {None}]
          /\ sweep' = [sweep EXCEPT ![r] = NoSweep]
          /\ UNCHANGED <<rows, mutex, replay, history>>
      BY <1>23 DEF DeadlockAbort, Unlocked, Finish, TypeOK
    <2>2. CASE tok[r] = None
      <3>1. /\ pc' = [pc EXCEPT ![r] = "idle"]
            /\ tok' = [tok EXCEPT ![r] = None]
            /\ by' = [by EXCEPT ![r] = None]
            /\ answer' = [answer EXCEPT ![r] = None]
        BY <1>23, <2>2 DEF DeadlockAbort, Finish, Goto
      <3> QED
        BY <2>1, <3>1 DEF NoSweep, Update, TypeOK, Handlers, Exchange, rows, history
    <2>3. CASE tok[r] # None
      <3>1. pc' = [pc EXCEPT ![r] = "refused"] /\ UNCHANGED <<tok, by, answer>>
        BY <1>23, <2>3 DEF DeadlockAbort, Goto
      <3> QED
        BY <2>1, <2>3, <3>1 DEF NoSweep, Update, TypeOK, Handlers, Exchange, rows, history
    <2> QED
      BY <2>2, <2>3
  <1> QED
    BY <1>1, <1>2, <1>3, <1>4, <1>5, <1>6, <1>7, <1>8, <1>9, <1>10, <1>11, <1>12, <1>13,
       <1>14, <1>15, <1>16, <1>17, <1>18, <1>19, <1>20, <1>21, <1>22, <1>23
       DEF Next, Step

\* Type correctness: no handler ever finds a NULL where it expects a token.
THEOREM TypeCorrect == Spec => []TypeOK
  <1>1. Spec => []Shapes
    BY InitShapes, NextShapes, PTL DEF Spec
  <1>2. Shapes => TypeOK
    BY DEF Shapes
  <1> QED
    BY <1>1, <1>2, PTL

-----------------------------------------------------------------------------
(* Who holds which row.                                                    *)

\* A transaction that Postgres aborts was waiting for a row; it leaves no row locked
\* and nothing changed, and its request goes on to its error or is over.
LEMMA AbortsCleanly ==
  ASSUME Shapes, NEW r \in Request, DeadlockAbort(r)
  PROVE  /\ pc[r] \in {"consume", "sweeping"} /\ pc'[r] \in {"idle", "refused"}
         /\ \A q \in Request : q # r => pc'[q] = pc[q] /\ tok'[q] = tok[q] /\ by'[q] = by[q]
                                       /\ answer'[q] = answer[q] /\ sweep'[q] = sweep[q]
         /\ sweep' = [sweep EXCEPT ![r] = NoSweep]
         /\ rowLock' = Unlocked(r)
         /\ UNCHANGED <<rows, mutex, replay, history>>
  <1>1. WaitsFor(r) # {}
    BY DEF DeadlockAbort, Deadlocked
  <1>2. pc[r] \in {"consume", "sweeping"}
    BY <1>1 DEF WaitsFor
  <1> QED
    BY <1>2 DEF Shapes, TypeOK, DeadlockAbort, Finish, Goto

TableInv ==
    /\ \A t \in live : family[t] \in Family /\ successor[t] = None
    /\ \A t \in Token : successor[t] # None => family[t] \in Family

\* A request that means to exchange a token, or to revoke in its name, holds its
\* row; so does a sweep each row it has changed and not yet committed.
HolderInv ==
    \A r \in Request :
        /\ pc[r] \in {"held", "rotate"} =>
              /\ tok[r] \in live
              /\ rowLock[tok[r]] = r
              /\ ClientOf[family[tok[r]]] = by[r]
        /\ pc[r] \in {"sweep", "sweeping"} /\ tok[r] \in Token => rowLock[tok[r]] = r
        /\ \A t \in sweep[r].marked : t \in live /\ rowLock[t] = r /\ pc[r] = "sweeping"

Locks == TableInv /\ HolderInv /\ AtMostOneLive

\* At first nothing is locked.
LEMMA InitLocks == Init => Locks
  BY DEF Init, Locks, TableInv, HolderInv, AtMostOneLive, NoSweep, Update

\* Every step keeps the live rows and the locks on them.
LEMMA NextLocks == Shapes /\ Locks /\ [Next]_vars => Locks'
  <1> SUFFICES ASSUME Shapes, Locks, [Next]_vars
               PROVE  Locks'
    OBVIOUS
  <1> USE DEF Shapes, Locks
  \* Most steps leave the table as it was.
  <1>0. ASSUME UNCHANGED <<family, live, successor>>
        PROVE  TableInv' /\ AtMostOneLive'
    BY <1>0 DEF TableInv, AtMostOneLive
  <1>1. ASSUME NEW f \in Family, NEW t \in Token, Redeem(f, t)
        PROVE  Locks'
    <2>1. TableInv'
      BY <1>1 DEF Redeem, Fresh, Issued, TypeOK, TableInv
    <2>2. AtMostOneLive'
      BY <1>1 DEF Redeem, Fresh, Issued, TypeOK, TableInv, AtMostOneLive
    <2>3. HolderInv'
      BY <1>1 DEF Redeem, Fresh, Issued, TypeOK, TableInv, HolderInv, handler
    <2> QED
      BY <2>1, <2>2, <2>3
  <1>2. ASSUME NEW r \in Request, NEW t \in Token, NEW c \in Client, Present(r, t, c)
        PROVE  Locks'
    BY <1>0, <1>2 DEF Present, Goto, TypeOK, HolderInv, rows
  <1>3. ASSUME NEW r \in Request, NEW fs \in SUBSET Family, Revoke(r, fs)
        PROVE  Locks'
    <2>1. tok[r] \notin Token
      BY <1>3 DEF Revoke, TypeOK, Handlers
    <2> QED
      BY <1>0, <1>3, <2>1 DEF Revoke, StartSweep, Update, Goto, TypeOK, HolderInv, rows
  <1>4. ASSUME NEW r \in Request, AcquireMutex(r)
        PROVE  Locks'
    BY <1>0, <1>4 DEF AcquireMutex, Goto, TypeOK, HolderInv, rows
  <1>5. ASSUME NEW r \in Request, GiveUp(r)
        PROVE  Locks'
    BY <1>0, <1>5 DEF GiveUp, Finish, NoSweep, Update, Goto, TypeOK, HolderInv, rows
  <1>6. ASSUME NEW r \in Request, ReplayedRotation(r)
        PROVE  Locks'
    BY <1>0, <1>6 DEF ReplayedRotation, Goto, TypeOK, HolderInv, rows
  <1>7. ASSUME NEW r \in Request, ConsumeRefreshToken(r)
        PROVE  Locks'
    <2>1. tok[r] \in Token
      BY <1>7 DEF ConsumeRefreshToken, Handlers, Exchange
    <2>2. CASE StartSweep(r, {family[tok[r]]})
      BY <1>0, <1>7, <2>1, <2>2 DEF ConsumeRefreshToken, RowFree, StartSweep, Update, Goto,
                                    TypeOK, HolderInv, rows
    <2>3. CASE Goto(r, "refused") /\ UNCHANGED sweep
      BY <1>0, <1>7, <2>1, <2>3 DEF ConsumeRefreshToken, RowFree, Goto, TypeOK, HolderInv,
                                    rows
    <2>4. CASE ~Used(tok[r]) /\ ClientOf[family[tok[r]]] = by[r]
               /\ Goto(r, "held") /\ UNCHANGED sweep
      BY <1>0, <1>7, <2>1, <2>4 DEF ConsumeRefreshToken, Used, RowFree, Goto, TypeOK,
                                    HolderInv, rows
    <2> QED
      BY <1>7, <2>2, <2>3, <2>4 DEF ConsumeRefreshToken
  <1>8. ASSUME NEW r \in Request, CheckUser(r)
        PROVE  Locks'
    BY <1>0, <1>8 DEF CheckUser, StartSweep, Update, Goto, TypeOK, HolderInv, rows
  <1>9. ASSUME NEW r \in Request, NEW u \in Token, Rotate(r, u)
        PROVE  Locks'
    <2> DEFINE t == tok[r]
    <2>1. t \in live /\ rowLock[t] = r /\ family[t] \in Family /\ family[u] = None
      BY <1>9 DEF Rotate, Fresh, Issued, HolderInv, TableInv
    <2>2. u \notin live /\ u # t
      BY <2>1 DEF TableInv
    <2>3. /\ family' = [family EXCEPT ![u] = family[t]]
          /\ live' = (live \ {t}) \cup {u}
          /\ successor' = [successor EXCEPT ![t] = u]
          /\ rowLock' = Unlocked(r)
          /\ pc'[r] \in {"remember", "reply"}
          /\ \A q \in Request : q # r => pc'[q] = pc[q]
          /\ UNCHANGED <<tok, by, sweep>>
      BY <1>9 DEF Rotate, Goto, TypeOK
    <2>4. TableInv'
      BY <2>1, <2>2, <2>3 DEF TableInv, TypeOK
    <2>5. AtMostOneLive'
      BY <2>1, <2>2, <2>3 DEF AtMostOneLive, TypeOK
    <2>6. \A q \in Request : rowLock'[t] # q /\ \A v \in Token :
              q # r /\ rowLock[v] = q => rowLock'[v] = q
      BY <2>1, <2>3 DEF TypeOK, Unlocked
    <2>7. \A q \in Request : q # r =>
            /\ pc[q] \in {"held", "rotate"} => tok[q] # t
            /\ t \notin sweep[q].marked
      BY <2>1 DEF HolderInv
    <2>8. sweep[r].marked = {}
      BY <1>9 DEF Rotate, HolderInv
    <2>9. \A v \in live : v # t => v \in live' /\ family'[v] = family[v]
      BY <2>2, <2>3 DEF TypeOK
    <2>10. HolderInv'
      BY <2>3, <2>6, <2>7, <2>8, <2>9 DEF HolderInv, TypeOK
    <2> QED
      BY <2>4, <2>5, <2>10
  <1>10. ASSUME NEW r \in Request, RememberRotation(r)
         PROVE  Locks'
    BY <1>0, <1>10 DEF RememberRotation, Goto, TypeOK, HolderInv, rows
  <1>11. ASSUME NEW r \in Request, Reply(r)
         PROVE  Locks'
    BY <1>0, <1>11 DEF Reply, Finish, NoSweep, Update, Goto, TypeOK, HolderInv, rows
  <1>12. ASSUME NEW r \in Request, Refuse(r)
         PROVE  Locks'
    BY <1>0, <1>12 DEF Refuse, Goto, TypeOK, HolderInv, rows
  <1>13. ASSUME NEW r \in Request, Rollback(r)
         PROVE  Locks'
    BY <1>0, <1>13 DEF Rollback, Unlocked, Finish, NoSweep, Update, Goto, TypeOK, HolderInv,
                       rows
  <1>14. ASSUME NEW r \in Request, TakeSnapshot(r)
         PROVE  Locks'
    BY <1>0, <1>14 DEF TakeSnapshot, Update, Goto, TypeOK, HolderInv, rows
  <1>15. ASSUME NEW r \in Request, NEW t \in Token, SweepRow(r, t)
         PROVE  Locks'
    BY <1>0, <1>15 DEF SweepRow, RowFree, Update, TypeOK, HolderInv, rows
  <1>16. ASSUME NEW r \in Request, CommitSweep(r)
         PROVE  Locks'
    <2>1. /\ live' = live \ sweep[r].marked
          /\ rowLock' = Unlocked(r)
          /\ sweep' = [sweep EXCEPT ![r] = NoSweep]
          /\ pc'[r] \in {"idle", "refused"}
          /\ \A q \in Request : q # r => pc'[q] = pc[q] /\ tok'[q] = tok[q] /\ by'[q] = by[q]
          /\ UNCHANGED <<family, successor>>
      BY <1>16 DEF CommitSweep, Finish, Goto, TypeOK
    <2>2. TableInv' /\ AtMostOneLive'
      BY <2>1 DEF TableInv, AtMostOneLive, TypeOK
    <2>3. HolderInv'
      BY <2>1 DEF HolderInv, TypeOK, Unlocked, NoSweep, Update
    <2> QED
      BY <2>2, <2>3
  <1>17. ASSUME NEW r \in Request, Crash(r)
         PROVE  Locks'
    BY <1>0, <1>17 DEF Crash, Unlocked, Finish, NoSweep, Update, Goto, TypeOK, HolderInv,
                       rows
  <1>18. CASE \E t \in Token : LeaseExpires(t) \/ ReplayExpires(t) \/ TokenExpires(t)
    BY <1>0, <1>18 DEF LeaseExpires, ReplayExpires, TokenExpires, TypeOK, HolderInv, rows,
                       handler
  <1>19. CASE \E u \in User : SetActive(u)
    BY <1>0, <1>19 DEF SetActive, TypeOK, HolderInv, handler
  <1>20. CASE UNCHANGED vars
    BY <1>0, <1>20 DEF vars, rows, handler, TypeOK, HolderInv
  <1>21. ASSUME NEW r \in Request, DeadlockAbort(r)
         PROVE  Locks'
    <2>1. /\ rowLock' = Unlocked(r) /\ sweep' = [sweep EXCEPT ![r] = NoSweep]
          /\ pc'[r] \in {"idle", "refused"}
          /\ \A q \in Request : q # r => pc'[q] = pc[q] /\ tok'[q] = tok[q] /\ by'[q] = by[q]
          /\ UNCHANGED <<family, live, successor>>
      BY <1>21, AbortsCleanly DEF rows
    <2>2. HolderInv'
      BY <2>1 DEF HolderInv, TypeOK, Unlocked, NoSweep, Update
    <2> QED
      BY <1>0, <2>1, <2>2
  <1> QED
    BY <1>1, <1>2, <1>3, <1>4, <1>5, <1>6, <1>7, <1>8, <1>9, <1>10, <1>11, <1>12, <1>13,
       <1>14, <1>15, <1>16, <1>17, <1>18, <1>19, <1>20, <1>21
       DEF Next, Step

\* However many workers rotate, revoke and die at once, a family never has two
\* tokens that can be exchanged.
THEOREM OneLiveToken == Spec => []AtMostOneLive
  <1>1. Spec => [](Shapes /\ Locks)
    BY InitShapes, NextShapes, InitLocks, NextLocks, PTL DEF Spec
  <1>2. Locks => AtMostOneLive
    BY DEF Locks
  <1> QED
    BY <1>1, <1>2, PTL

-----------------------------------------------------------------------------
(* What a sweep still has to do.                                           *)

Opened(f) == \E t \in Token : family[t] = f

\* While it runs: it skipped a row of the family, or is about to, or it holds or
\* will reach every live row there is.
SweepInv ==
    \A r \in Request : pc[r] = "sweeping" =>
        \A f \in sweep[r].targets :
            /\ Opened(f)
            /\ \/ f \in sweep[r].skipped
               \/ \E t \in sweep[r].todo : family[t] = f /\ t \notin live
               \/ \A t \in live : family[t] = f => t \in sweep[r].todo \cup sweep[r].marked

CleanInv == \A f \in clean : Opened(f) /\ \A t \in live : family[t] # f

Sweeps == SweepInv /\ CleanInv

\* At first no sweep runs.
LEMMA InitSweeps == Init => Sweeps
  BY DEF Init, Sweeps, SweepInv, CleanInv

\* Every step keeps what a sweep has reached or will reach.
LEMMA NextSweeps == Shapes /\ Locks /\ Sweeps /\ [Next]_vars => Sweeps'
  <1> SUFFICES ASSUME Shapes, Locks, Sweeps, [Next]_vars
               PROVE  Sweeps'
    OBVIOUS
  <1> USE DEF Shapes, Sweeps
  \* Most steps touch neither the table nor a running sweep.
  <1>0. ASSUME UNCHANGED <<family, live, clean>>,
               \A q \in Request : pc'[q] = "sweeping" =>
                   pc[q] = "sweeping" /\ sweep'[q] = sweep[q]
        PROVE  Sweeps'
    BY <1>0 DEF SweepInv, CleanInv, Opened
  <1>1. ASSUME NEW f \in Family, NEW t \in Token, Redeem(f, t)
        PROVE  Sweeps'
    <2>1. \A v \in Token : family[v] # f
      BY <1>1 DEF Redeem
    <2>2. \A v \in Token : v # t => family'[v] = family[v]
      BY <1>1 DEF Redeem, TypeOK
    <2>3. family[t] = None /\ family'[t] = f /\ live' = live \cup {t}
      BY <1>1 DEF Redeem, Fresh, Issued, TypeOK
    <2>4. \A g \in Family : Opened(g) => g # f /\ Opened(g)'
      BY <2>1, <2>2, <2>3 DEF Opened
    <2>5. UNCHANGED <<pc, sweep, clean>>
      BY <1>1 DEF Redeem, handler, history
    <2>6. SweepInv'
      <3> SUFFICES ASSUME NEW q \in Request, pc[q] = "sweeping",
                          NEW g \in sweep[q].targets
                   PROVE  /\ Opened(g)'
                          /\ \/ g \in sweep[q].skipped
                             \/ \E v \in sweep[q].todo : family'[v] = g /\ v \notin live'
                             \/ \A v \in live' : family'[v] = g =>
                                   v \in sweep[q].todo \cup sweep[q].marked
        BY <2>5 DEF SweepInv
      <3>1. g \in Family /\ Opened(g) /\ g # f /\ Opened(g)'
        BY <2>4 DEF SweepInv, TypeOK
      <3>2. \A v \in sweep[q].todo : v # t /\ family'[v] = family[v]
        BY <2>2, <2>3 DEF TypeOK, Handlers
      <3>3. \A v \in live' : family'[v] = g => v \in live /\ family[v] = g
        BY <2>2, <2>3, <3>1 DEF TypeOK
      <3> QED
        BY <2>3, <3>1, <3>2, <3>3 DEF SweepInv
    <2>7. CleanInv'
      BY <2>1, <2>2, <2>3, <2>4, <2>5 DEF CleanInv, TypeOK
    <2> QED
      BY <2>6, <2>7
  <1>2. ASSUME NEW r \in Request, NEW t \in Token, NEW c \in Client, Present(r, t, c)
        PROVE  Sweeps'
    BY <1>0, <1>2 DEF Present, Goto, TypeOK, rows, history
  <1>3. ASSUME NEW r \in Request, NEW fs \in SUBSET Family, Revoke(r, fs)
        PROVE  Sweeps'
    BY <1>0, <1>3 DEF Revoke, StartSweep, Update, Goto, TypeOK, rows, history
  <1>4. ASSUME NEW r \in Request, \/ AcquireMutex(r) \/ ReplayedRotation(r)
                                  \/ RememberRotation(r) \/ Refuse(r)
        PROVE  Sweeps'
    BY <1>0, <1>4 DEF AcquireMutex, ReplayedRotation, RememberRotation, Refuse, Goto, TypeOK,
                      rows, history
  <1>5. ASSUME NEW r \in Request, GiveUp(r) \/ Reply(r) \/ Rollback(r) \/ Crash(r)
        PROVE  Sweeps'
    BY <1>0, <1>5 DEF GiveUp, Reply, Rollback, Crash, Finish, Goto, TypeOK, rows, history
  <1>6. ASSUME NEW r \in Request, ConsumeRefreshToken(r) \/ CheckUser(r)
        PROVE  Sweeps'
    BY <1>0, <1>6 DEF ConsumeRefreshToken, CheckUser, StartSweep, Update, Goto, TypeOK, rows,
                      history
  <1>7. ASSUME NEW r \in Request, NEW u \in Token, Rotate(r, u)
        PROVE  Sweeps'
    <2> DEFINE t == tok[r]
    <2>1. /\ t \in live /\ rowLock[t] = r /\ family[t] \in Family /\ family[u] = None
          /\ pc[r] = "rotate"
      BY <1>7 DEF Rotate, Fresh, Issued, Locks, HolderInv, TableInv
    <2>2. /\ family' = [family EXCEPT ![u] = family[t]]
          /\ live' = (live \ {t}) \cup {u}
          /\ pc'[r] # "sweeping"
          /\ \A q \in Request : q # r => pc'[q] = pc[q]
          /\ UNCHANGED <<sweep, clean>>
      BY <1>7 DEF Rotate, Goto, TypeOK, history
    <2>3. \A g \in Family : Opened(g) => Opened(g)'
      BY <2>1, <2>2 DEF Opened, TypeOK
    <2>4. CleanInv'
      BY <2>1, <2>2, <2>3 DEF CleanInv, TypeOK
    <2>5. SweepInv'
      <3> SUFFICES ASSUME NEW q \in Request, pc'[q] = "sweeping",
                          NEW f \in sweep[q].targets
                   PROVE  /\ Opened(f)'
                          /\ \/ f \in sweep[q].skipped
                             \/ \E v \in sweep[q].todo : family'[v] = f /\ v \notin live'
                             \/ \A v \in live' : family'[v] = f =>
                                   v \in sweep[q].todo \cup sweep[q].marked
        BY <2>2 DEF SweepInv
      <3>1. q # r /\ pc[q] = "sweeping" /\ f \in Family /\ Opened(f)
        BY <2>2 DEF SweepInv, TypeOK
      <3>2. \A v \in sweep[q].todo : v # u /\ v \in Token /\ family'[v] = family[v]
        BY <2>1, <2>2 DEF TypeOK, Handlers
      <3>3. t \notin sweep[q].marked
        BY <2>1, <3>1 DEF Locks, HolderInv
      <3>4. CASE f \in sweep[q].skipped
        BY <2>3, <3>1, <3>4
      <3>5. CASE \E v \in sweep[q].todo : family[v] = f /\ v \notin live
        BY <2>2, <2>3, <3>1, <3>2, <3>5
      <3>6. CASE /\ f = family[t]
                 /\ \A v \in live : family[v] = f => v \in sweep[q].todo \cup sweep[q].marked
        <4>1. t \in sweep[q].todo /\ t \notin live'
          BY <2>1, <2>2, <3>2, <3>3, <3>6
        <4> QED
          BY <2>3, <3>1, <3>2, <3>6, <4>1
      <3>7. CASE /\ f # family[t]
                 /\ \A v \in live : family[v] = f => v \in sweep[q].todo \cup sweep[q].marked
        BY <2>1, <2>2, <2>3, <3>1, <3>7 DEF TypeOK
      <3> QED
        BY <3>1, <3>4, <3>5, <3>6, <3>7 DEF SweepInv
    <2> QED
      BY <2>4, <2>5
  <1>8. ASSUME NEW r \in Request, TakeSnapshot(r)
        PROVE  Sweeps'
    <2>1. UNCHANGED <<family, live, clean>> /\ CleanInv'
      BY <1>8 DEF TakeSnapshot, rows, history, CleanInv, Opened
    <2>2. /\ sweep'[r].targets = {f \in sweep[r].targets : Opened(f)}
          /\ sweep'[r].todo = {t \in live : family[t] \in sweep'[r].targets}
          /\ \A q \in Request : q # r => pc'[q] = pc[q] /\ sweep'[q] = sweep[q]
      BY <1>8 DEF TakeSnapshot, Update, Goto, TypeOK, Opened
    <2>3. SweepInv'
      BY <2>1, <2>2 DEF SweepInv, Opened
    <2> QED
      BY <2>1, <2>3
  <1>9. ASSUME NEW r \in Request, NEW t \in Token, SweepRow(r, t)
        PROVE  Sweeps'
    <2>1. UNCHANGED <<family, live, clean, pc>> /\ CleanInv'
      BY <1>9 DEF SweepRow, rows, history, CleanInv, Opened
    <2>2. \A q \in Request : q # r => sweep'[q] = sweep[q]
      BY <1>9 DEF SweepRow, TypeOK
    <2>3. CASE t \in live
      <3>1. /\ sweep'[r].targets = sweep[r].targets
            /\ sweep'[r].todo = sweep[r].todo \ {t}
            /\ sweep'[r].marked = sweep[r].marked \cup {t}
            /\ sweep'[r].skipped = sweep[r].skipped
        BY <1>9, <2>3 DEF SweepRow, Update, TypeOK
      <3> QED
        BY <2>1, <2>2, <2>3, <3>1 DEF SweepInv, Opened
    <2>4. CASE t \notin live
      <3>1. /\ sweep'[r].targets = sweep[r].targets
            /\ sweep'[r].todo = sweep[r].todo \ {t}
            /\ sweep'[r].marked = sweep[r].marked
            /\ sweep'[r].skipped = sweep[r].skipped \cup {family[t]}
        BY <1>9, <2>4 DEF SweepRow, Update, TypeOK
      <3> QED
        BY <2>1, <2>2, <2>4, <3>1 DEF SweepInv, Opened
    <2> QED
      BY <2>3, <2>4
  <1>10. ASSUME NEW r \in Request, CommitSweep(r)
         PROVE  Sweeps'
    <2>1. /\ live' = live \ sweep[r].marked
          /\ clean' = clean \cup (sweep[r].targets \ sweep[r].skipped)
          /\ pc'[r] # "sweeping"
          /\ \A q \in Request : q # r => pc'[q] = pc[q] /\ sweep'[q] = sweep[q]
          /\ UNCHANGED family
      BY <1>10 DEF CommitSweep, Finish, Goto, TypeOK
    <2>2. \A f \in sweep[r].targets \ sweep[r].skipped :
            Opened(f) /\ \A t \in live : family[t] = f => t \in sweep[r].marked
      BY <1>10 DEF CommitSweep, SweepInv
    <2>3. CleanInv'
      BY <2>1, <2>2 DEF CleanInv, Opened
    <2>4. SweepInv'
      BY <2>1 DEF SweepInv, Opened
    <2> QED
      BY <2>3, <2>4
  <1>11. CASE \E t \in Token : LeaseExpires(t) \/ ReplayExpires(t) \/ TokenExpires(t)
    BY <1>0, <1>11 DEF LeaseExpires, ReplayExpires, TokenExpires, rows, handler, history
  <1>12. CASE \E u \in User : SetActive(u)
    BY <1>0, <1>12 DEF SetActive, handler, history
  <1>13. CASE UNCHANGED vars
    BY <1>0, <1>13 DEF vars, rows, handler, history
  <1>15. ASSUME NEW r \in Request, DeadlockAbort(r)
         PROVE  Sweeps'
    <2>1. /\ pc'[r] \in {"idle", "refused"}
          /\ \A q \in Request : q # r => pc'[q] = pc[q] /\ sweep'[q] = sweep[q]
          /\ UNCHANGED <<family, live, clean>>
      BY <1>15, AbortsCleanly DEF rows, history
    <2> QED
      BY <1>0, <2>1
  <1>14. ASSUME NEW r \in Request, Step(r)
         PROVE  Sweeps'
    BY <1>4, <1>5, <1>6, <1>7, <1>8, <1>9, <1>10, <1>14, <1>15 DEF Step
  <1> QED
    BY <1>1, <1>2, <1>3, <1>5, <1>11, <1>12, <1>13, <1>14 DEF Next

\* A revocation that met every row of a family as its snapshot had it is final:
\* whatever was in flight, no token of that family can be exchanged again.
THEOREM CleanSweeps == Spec => []CleanSweepIsFinal
  <1>1. Spec => [](Shapes /\ Locks /\ Sweeps)
    BY InitShapes, NextShapes, InitLocks, NextLocks, InitSweeps, NextSweeps, PTL DEF Spec
  <1>2. Sweeps => CleanSweepIsFinal
    BY DEF Sweeps, CleanInv, CleanSweepIsFinal
  <1> QED
    BY <1>1, <1>2, PTL

-----------------------------------------------------------------------------
(* What answers say.                                                       *)

\* Client c was given u for t: u succeeds t, in a family of c's.
Given(t, c, u) ==
    /\ successor[t] = u
    /\ family[u] \in Family
    /\ family[u] = family[t]
    /\ ClientOf[family[u]] = c

AnsweredInv == \A a \in answered : Given(a[1], a[2], a[3])
ReplayInv ==
    \A t \in Token : replay[t] # None => Given(t, replay[t].client, replay[t].token)
AnswerInv ==
    \A r \in Request : pc[r] \in {"remember", "reply"} => Given(tok[r], by[r], answer[r])

Answers == AnsweredInv /\ ReplayInv /\ AnswerInv

\* At first nothing has been answered.
LEMMA InitAnswers == Init => Answers
  BY DEF Init, Answers, AnsweredInv, ReplayInv, AnswerInv

\* The table never goes back on an exchange.
LEMMA GivenForGood ==
  ASSUME Shapes, Locks, [Next]_vars,
         NEW t \in Token, NEW c \in Client, NEW v \in Token, Given(t, c, v)
  PROVE  Given(t, c, v)'
  <1> USE DEF Shapes, Locks
  <1>1. family[t] \in Family /\ family[v] \in Family /\ successor[t] # None
    BY DEF Given
  <1>2. ASSUME UNCHANGED <<family, successor>>
        PROVE  Given(t, c, v)'
    BY <1>2 DEF Given
  <1>3. ASSUME NEW f \in Family, NEW u \in Token, Redeem(f, u)
        PROVE  Given(t, c, v)'
    <2>1. family[u] = None /\ family' = [family EXCEPT ![u] = f] /\ UNCHANGED successor
      BY <1>3 DEF Redeem, Fresh, Issued
    <2> QED
      BY <1>1, <2>1 DEF Given, TypeOK
  <1>4. ASSUME NEW r \in Request, NEW u \in Token, Rotate(r, u)
        PROVE  Given(t, c, v)'
    <2>1. /\ family[u] = None /\ family' = [family EXCEPT ![u] = family[tok[r]]]
          /\ successor' = [successor EXCEPT ![tok[r]] = u]
          /\ successor[tok[r]] = None
      BY <1>4 DEF Rotate, Fresh, Issued, HolderInv, TableInv
    <2> QED
      BY <1>1, <2>1 DEF Given, TypeOK
  <1>5. CASE UNCHANGED vars
    BY <1>2, <1>5 DEF vars, rows
  <1>6. ASSUME NEW r \in Request, Step(r), \A u \in Token : ~Rotate(r, u)
        PROVE  UNCHANGED <<family, successor>>
    BY <1>6 DEF Step, AcquireMutex, GiveUp, ReplayedRotation, ConsumeRefreshToken, CheckUser,
                RememberRotation, Reply, Refuse, Rollback, TakeSnapshot, CommitSweep, SweepRow,
                DeadlockAbort, rows
  <1>7. CASE \/ \E r \in Request, u \in Token, d \in Client : Present(r, u, d)
             \/ \E r \in Request, fs \in SUBSET Family : Revoke(r, fs)
             \/ \E r \in Request : Crash(r)
    BY <1>2, <1>7 DEF Present, Revoke, Crash, rows
  <1>8. CASE \/ \E u \in Token : LeaseExpires(u) \/ ReplayExpires(u) \/ TokenExpires(u)
             \/ \E u \in User : SetActive(u)
    BY <1>2, <1>8 DEF LeaseExpires, ReplayExpires, TokenExpires, SetActive, rows
  <1>9. ASSUME NEW r \in Request, Step(r)
        PROVE  Given(t, c, v)'
    BY <1>2, <1>4, <1>6, <1>9
  <1> QED
    BY <1>3, <1>5, <1>7, <1>8, <1>9 DEF Next

\* Every step keeps the answers successors of their tokens.
LEMMA NextAnswers == Shapes /\ Locks /\ Answers /\ [Next]_vars => Answers'
  <1> SUFFICES ASSUME Shapes, Locks, Answers, [Next]_vars
               PROVE  Answers'
    OBVIOUS
  <1> USE DEF Shapes, Answers
  <1>1. \A t, v \in Token, c \in Client : Given(t, c, v) => Given(t, c, v)'
    BY GivenForGood
  \* Answers made before the step stay what they were.
  <1>2. ASSUME UNCHANGED answered
        PROVE  AnsweredInv'
    <2>1. \A a \in answered : a[1] \in Token /\ a[2] \in Client /\ a[3] \in Token
      BY DEF TypeOK
    <2>2. \A a \in answered : Given(a[1], a[2], a[3])'
      BY <1>1, <2>1 DEF AnsweredInv
    <2> QED
      BY <1>2, <2>2 DEF AnsweredInv
  <1>3. ASSUME \A t \in Token : replay'[t] # None => replay'[t] = replay[t]
        PROVE  ReplayInv'
    <2>1. \A t \in Token : replay[t] # None =>
            replay[t].client \in Client /\ replay[t].token \in Token
      BY DEF TypeOK, Answer
    <2>2. \A t, v \in Token, c \in Client :
            replay[t] # None /\ replay[t].client = c /\ replay[t].token = v => Given(t, c, v)'
      BY <1>1 DEF ReplayInv
    <2> QED
      BY <1>3, <2>1, <2>2 DEF ReplayInv
  <1>4. ASSUME \A q \in Request : pc'[q] \in {"remember", "reply"} =>
                 /\ pc[q] \in {"remember", "reply"}
                 /\ tok'[q] = tok[q] /\ by'[q] = by[q] /\ answer'[q] = answer[q]
        PROVE  AnswerInv'
    <2>1. \A q \in Request : pc[q] \in {"remember", "reply"} =>
            tok[q] \in Token /\ by[q] \in Client /\ answer[q] \in Token
      BY DEF Handlers, Exchange
    <2>2. \A q \in Request, t, v \in Token, c \in Client :
            pc[q] \in {"remember", "reply"} /\ tok[q] = t /\ by[q] = c /\ answer[q] = v
              => Given(t, c, v)'
      BY <1>1 DEF AnswerInv
    <2> QED
      BY <1>4, <2>1, <2>2 DEF AnswerInv
  <1>5. ASSUME NEW r \in Request, NEW u \in Token, Rotate(r, u)
        PROVE  Answers'
    <2>1. /\ tok[r] \in Token /\ family[tok[r]] \in Family
          /\ ClientOf[family[tok[r]]] = by[r] /\ family[u] = None
      BY <1>5 DEF Rotate, Fresh, Issued, Handlers, Exchange, Locks, HolderInv
    <2>2. /\ family' = [family EXCEPT ![u] = family[tok[r]]]
          /\ successor' = [successor EXCEPT ![tok[r]] = u]
          /\ answer'[r] = u /\ UNCHANGED <<tok, by, replay, answered>>
          /\ \A q \in Request : q # r => pc'[q] = pc[q] /\ answer'[q] = answer[q]
      BY <1>5 DEF Rotate, Goto, TypeOK, history
    <2>3. Given(tok[r], by[r], u)'
      BY <2>1, <2>2 DEF Given, TypeOK
    <2>4. \A q \in Request : q # r /\ pc'[q] \in {"remember", "reply"} =>
            Given(tok[q], by[q], answer[q])'
      <3>1. \A q \in Request : pc[q] \in {"remember", "reply"} =>
              tok[q] \in Token /\ by[q] \in Client /\ answer[q] \in Token
        BY DEF Handlers, Exchange
      <3>2. \A q \in Request : pc[q] \in {"remember", "reply"} =>
              Given(tok[q], by[q], answer[q])
        BY DEF AnswerInv
      <3> QED
        BY <1>1, <2>2, <3>1, <3>2 DEF Given
    <2>5. AnswerInv'
      BY <2>2, <2>3, <2>4 DEF AnswerInv, Given
    <2> QED
      BY <1>2, <1>3, <2>2, <2>5
  <1>6. ASSUME NEW r \in Request, ReplayedRotation(r)
        PROVE  Answers'
    <2>1. tok[r] \in Token /\ UNCHANGED <<tok, by, replay, answered, family, successor>>
      BY <1>6 DEF ReplayedRotation, Handlers, Exchange, rows, history
    <2>2. \A q \in Request : q # r => pc'[q] = pc[q] /\ answer'[q] = answer[q]
      BY <1>6 DEF ReplayedRotation, Goto, TypeOK
    <2>3. pc'[r] = "reply" => Given(tok[r], by[r], answer'[r])
      BY <1>6, <2>1 DEF ReplayedRotation, Collects, Goto, TypeOK, ReplayInv
    <2>4. pc'[r] \in {"reply", "consume"}
      BY <1>6 DEF ReplayedRotation, Goto, TypeOK
    <2>5. AnswerInv'
      BY <2>1, <2>2, <2>3, <2>4 DEF AnswerInv, Given
    <2> QED
      BY <1>2, <1>3, <2>1, <2>5
  <1>7. ASSUME NEW r \in Request, RememberRotation(r)
        PROVE  Answers'
    <2>1. tok[r] \in Token /\ Given(tok[r], by[r], answer[r])
      BY <1>7 DEF RememberRotation, Handlers, Exchange, AnswerInv
    <2>2. /\ UNCHANGED <<tok, by, answer, answered, family, successor>>
          /\ pc' = [pc EXCEPT ![r] = "reply"]
          /\ replay' = [replay EXCEPT ![tok[r]] = [client |-> by[r], token |-> answer[r]]]
      BY <1>7 DEF RememberRotation, Goto, rows, history
    <2>3. AnswerInv'
      BY <2>1, <2>2 DEF AnswerInv, Given, TypeOK
    <2>4. ReplayInv'
      BY <2>1, <2>2 DEF ReplayInv, Given, TypeOK
    <2> QED
      BY <1>2, <2>2, <2>3, <2>4
  <1>8. ASSUME NEW r \in Request, Reply(r)
        PROVE  Answers'
    <2>1. Given(tok[r], by[r], answer[r])
      BY <1>8 DEF Reply, AnswerInv
    <2>2. /\ answered' \subseteq answered \cup {<<tok[r], by[r], answer[r]>>}
          /\ UNCHANGED <<family, successor, replay>>
      BY <1>8 DEF Reply, rows
    <2>3. AnsweredInv'
      BY <2>1, <2>2 DEF AnsweredInv, Given
    <2>4. AnswerInv'
      BY <1>4, <1>8 DEF Reply, Finish, Goto, TypeOK
    <2> QED
      BY <1>3, <2>2, <2>3, <2>4
  <1>9. ASSUME NEW r \in Request, AcquireMutex(r) \/ Refuse(r)
        PROVE  Answers'
    BY <1>2, <1>3, <1>4, <1>9 DEF AcquireMutex, Refuse, Goto, TypeOK, history
  <1>10. ASSUME NEW r \in Request, GiveUp(r) \/ Rollback(r) \/ Crash(r)
         PROVE  Answers'
    BY <1>2, <1>3, <1>4, <1>10 DEF GiveUp, Rollback, Crash, Finish, Goto, TypeOK, history
  <1>11. ASSUME NEW r \in Request, \/ ConsumeRefreshToken(r) \/ CheckUser(r)
                                   \/ TakeSnapshot(r)
         PROVE  Answers'
    BY <1>2, <1>3, <1>4, <1>11 DEF ConsumeRefreshToken, CheckUser, StartSweep, TakeSnapshot,
                                   Goto, TypeOK, history
  <1>12. ASSUME NEW r \in Request, CommitSweep(r)
         PROVE  Answers'
    BY <1>2, <1>3, <1>4, <1>12 DEF CommitSweep, Finish, Goto, TypeOK
  <1>13. ASSUME NEW r \in Request, NEW t \in Token, SweepRow(r, t)
         PROVE  Answers'
    BY <1>2, <1>3, <1>4, <1>13 DEF SweepRow, history
  <1>14. ASSUME NEW r \in Request, NEW t \in Token, NEW c \in Client, Present(r, t, c)
         PROVE  Answers'
    BY <1>2, <1>3, <1>4, <1>14 DEF Present, Goto, TypeOK, history
  <1>15. ASSUME NEW r \in Request, NEW fs \in SUBSET Family, Revoke(r, fs)
         PROVE  Answers'
    BY <1>2, <1>3, <1>4, <1>15 DEF Revoke, StartSweep, Goto, TypeOK, history
  <1>16. CASE \E f \in Family, t \in Token : Redeem(f, t)
    BY <1>2, <1>3, <1>4, <1>16 DEF Redeem, handler, history
  <1>17. CASE \E t \in Token : LeaseExpires(t) \/ ReplayExpires(t) \/ TokenExpires(t)
    BY <1>2, <1>3, <1>4, <1>17 DEF LeaseExpires, ReplayExpires, TokenExpires, handler, history,
                                   TypeOK
  <1>18. CASE \E u \in User : SetActive(u)
    BY <1>2, <1>3, <1>4, <1>18 DEF SetActive, handler, history
  <1>19. CASE UNCHANGED vars
    BY <1>2, <1>3, <1>4, <1>19 DEF vars, handler, history
  <1>21. ASSUME NEW r \in Request, DeadlockAbort(r)
         PROVE  Answers'
    <2>1. /\ pc'[r] \in {"idle", "refused"}
          /\ \A q \in Request : q # r => /\ pc'[q] = pc[q] /\ tok'[q] = tok[q]
                                        /\ by'[q] = by[q] /\ answer'[q] = answer[q]
          /\ UNCHANGED <<replay, answered>>
      BY <1>21, AbortsCleanly DEF history
    <2> QED
      BY <1>2, <1>3, <1>4, <2>1
  <1>20. ASSUME NEW r \in Request, Step(r)
         PROVE  Answers'
    BY <1>5, <1>6, <1>7, <1>8, <1>9, <1>10, <1>11, <1>12, <1>13, <1>20, <1>21 DEF Step
  <1> QED
    BY <1>10, <1>14, <1>15, <1>16, <1>17, <1>18, <1>19, <1>20 DEF Next

\* Two answers to one refresh token carry the same successor, and a client is
\* only ever answered with tokens of its own families.
THEOREM AnswersAgree == Spec => [](OneAnswerPerToken /\ OnlyOwnTokens)
  <1>1. Spec => [](Shapes /\ Locks /\ Answers)
    BY InitShapes, NextShapes, InitLocks, NextLocks, InitAnswers, NextAnswers, PTL DEF Spec
  <1>2. Answers => OneAnswerPerToken /\ OnlyOwnTokens
    BY DEF Answers, AnsweredInv, Given, OneAnswerPerToken, OnlyOwnTokens
  <1> QED
    BY <1>1, <1>2, PTL

\* A client only ever receives tokens issued to it, minted for its request or
\* remembered from an earlier one: what is remembered is its own exchange's.
THEOREM OwnTokens == Spec => []OnlyOwnTokens
  BY AnswersAgree, PTL

-----------------------------------------------------------------------------
(* What excuses a second use.                                              *)

Excused(t) == excuse[t] # {}

\* Every exchange is remembered, or about to be by the one who holds its lock, or
\* something went wrong.
RememberedInv ==
    Remembers => \A t \in Token : successor[t] # None =>
        \/ Excused(t)
        \/ replay[t] # None
        \/ \E q \in Request : tok[q] = t /\ mutex[t] = q /\ pc[q] = "remember"

\* Whoever runs under the rotation lock holds it, unless its lease ran out.
MutexInv ==
    \A r \in Request : pc[r] \in {"replay", "consume", "held", "rotate", "remember"} =>
        mutex[tok[r]] = r \/ Excused(tok[r])

SecondUse(r) ==
    /\ pc[r] \in {"consume", "sweep"}
    /\ tok[r] \in Token
    /\ successor[tok[r]] # None
    /\ ClientOf[family[tok[r]]] = by[r]

SecondUseInv == Remembers => \A r \in Request : SecondUse(r) => Excused(tok[r])

Excuses == RememberedInv /\ MutexInv /\ SecondUseInv

\* At first nothing has been exchanged.
LEMMA InitExcuses == Init => Excuses
  BY DEF Init, Excuses, RememberedInv, MutexInv, SecondUseInv, SecondUse

\* Every step keeps the exchanges remembered or excused.
LEMMA NextExcuses == Shapes /\ Locks /\ Answers /\ Excuses /\ [Next]_vars => Excuses'
  <1> SUFFICES ASSUME Shapes, Locks, Answers, Excuses, [Next]_vars
               PROVE  Excuses'
    OBVIOUS
  <1> USE DEF Shapes, Excuses
  \* Steps that neither exchange, remember, forget nor touch a rotation lock.
  <1>0. ASSUME UNCHANGED <<successor, replay, mutex, excuse>>,
               \A q \in Request :
                   /\ pc[q] = "remember" => pc'[q] = "remember" /\ tok'[q] = tok[q]
                   /\ pc'[q] \in {"replay", "consume", "held", "rotate", "remember"} =>
                        /\ pc[q] \in {"replay", "consume", "held", "rotate", "remember"}
                        /\ tok'[q] = tok[q]
                   /\ SecondUse(q)' => SecondUse(q) /\ tok'[q] = tok[q]
        PROVE  Excuses'
    <2>1. RememberedInv'
      BY <1>0 DEF RememberedInv, Excused
    <2>2. MutexInv'
      BY <1>0 DEF MutexInv, Excused
    <2>3. SecondUseInv'
      BY <1>0 DEF SecondUseInv, Excused
    <2> QED
      BY <2>1, <2>2, <2>3
  <1>1. ASSUME NEW f \in Family, NEW t \in Token, Redeem(f, t)
        PROVE  Excuses'
    <2>1. /\ family[t] = None /\ family' = [family EXCEPT ![t] = f]
          /\ UNCHANGED <<successor, replay, mutex, excuse, pc, tok, by>>
      BY <1>1 DEF Redeem, Fresh, Issued, handler, history
    <2>2. \A q \in Request : tok[q] \in Token => family'[tok[q]] = family[tok[q]]
      BY <2>1 DEF Handlers, TypeOK
    <2>3. \A q \in Request : SecondUse(q)' => SecondUse(q)
      BY <2>1, <2>2 DEF SecondUse
    <2> QED
      BY <1>0, <2>1, <2>3
  <1>2. ASSUME NEW r \in Request, NEW t \in Token, NEW c \in Client, Present(r, t, c)
        PROVE  Excuses'
    BY <1>0, <1>2 DEF Present, Goto, TypeOK, SecondUse, rows, history
  <1>3. ASSUME NEW r \in Request, NEW fs \in SUBSET Family, Revoke(r, fs)
        PROVE  Excuses'
    <2>1. tok[r] = None
      BY <1>3 DEF Revoke, Handlers
    <2> QED
      BY <1>0, <1>3, <2>1 DEF Revoke, StartSweep, Goto, TypeOK, SecondUse, rows, history
  <1>4. ASSUME NEW r \in Request, AcquireMutex(r)
        PROVE  Excuses'
    <2>1. /\ pc[r] = "queued" /\ mutex[tok[r]] = None /\ tok[r] \in Token
          /\ mutex' = [mutex EXCEPT ![tok[r]] = r] /\ pc' = [pc EXCEPT ![r] = "replay"]
          /\ UNCHANGED <<successor, replay, excuse, tok, by, family>>
      BY <1>4 DEF AcquireMutex, MutexFree, Goto, Handlers, Exchange, rows, history
    <2>2. RememberedInv'
      BY <2>1 DEF RememberedInv, Excused, TypeOK
    <2>3. MutexInv'
      BY <2>1 DEF MutexInv, Excused, TypeOK, Handlers, Exchange
    <2>4. SecondUseInv'
      BY <2>1 DEF SecondUseInv, SecondUse, Excused, TypeOK
    <2> QED
      BY <2>2, <2>3, <2>4
  <1>5. ASSUME NEW r \in Request, ReplayedRotation(r)
        PROVE  Excuses'
    <2>1. /\ pc[r] = "replay" /\ tok[r] \in Token
          /\ \A q \in Request : q # r => pc'[q] = pc[q]
          /\ UNCHANGED <<successor, replay, mutex, excuse, tok, by, family>>
      BY <1>5 DEF ReplayedRotation, Goto, TypeOK, Handlers, Exchange, rows, history
    <2>2. pc'[r] = "reply" \/ (pc'[r] = "consume" /\ ~Collects(tok[r], by[r]))
      <3>1. CASE Collects(tok[r], by[r])
        BY <1>5, <3>1 DEF ReplayedRotation, Goto, TypeOK
      <3>2. CASE ~Collects(tok[r], by[r])
        BY <1>5, <3>2 DEF ReplayedRotation, Goto, TypeOK
      <3> QED
        BY <3>1, <3>2
    <2>3. RememberedInv'
      BY <2>1 DEF RememberedInv, Excused
    <2>4. MutexInv'
      BY <2>1, <2>2 DEF MutexInv, Excused
    <2>5. ASSUME Remembers, ~Collects(tok[r], by[r]), successor[tok[r]] # None,
                 ClientOf[family[tok[r]]] = by[r]
          PROVE  Excused(tok[r])
      <3>1. replay[tok[r]] = None
        BY <2>1, <2>5 DEF Collects, Answers, ReplayInv, Given
      <3>2. CASE Excused(tok[r])
        BY <3>2
      <3>3. CASE \E q \in Request : tok[q] = tok[r] /\ mutex[tok[r]] = q /\ pc[q] = "remember"
        BY <2>1, <3>3 DEF MutexInv
      <3> QED
        BY <2>1, <2>5, <3>1, <3>2, <3>3 DEF RememberedInv
    <2>6. SecondUseInv'
      BY <2>1, <2>2, <2>5 DEF SecondUseInv, SecondUse, Excused
    <2> QED
      BY <2>3, <2>4, <2>6
  <1>6. ASSUME NEW r \in Request, ConsumeRefreshToken(r)
        PROVE  Excuses'
    BY <1>0, <1>6 DEF ConsumeRefreshToken, StartSweep, Goto, TypeOK, SecondUse, rows, history
  <1>7. ASSUME NEW r \in Request, CheckUser(r)
        PROVE  Excuses'
    <2>1. successor[tok[r]] = None
      BY <1>7 DEF CheckUser, Locks, HolderInv, TableInv
    <2> QED
      BY <1>0, <1>7, <2>1 DEF CheckUser, StartSweep, Goto, TypeOK, SecondUse, rows, history
  <1>8. ASSUME NEW r \in Request, NEW u \in Token, Rotate(r, u)
        PROVE  Excuses'
    <2> DEFINE t == tok[r]
    <2>1. /\ pc[r] = "rotate" /\ t \in Token /\ rowLock[t] = r /\ family[u] = None
          /\ successor' = [successor EXCEPT ![t] = u]
          /\ family' = [family EXCEPT ![u] = family[t]]
          /\ pc'[r] = IF Remembers THEN "remember" ELSE "reply"
          /\ \A q \in Request : q # r => pc'[q] = pc[q]
          /\ UNCHANGED <<replay, mutex, excuse, tok, by>>
      BY <1>8 DEF Rotate, Fresh, Issued, Goto, TypeOK, Handlers, Exchange, Locks, HolderInv,
                  history
    <2>2. mutex[t] = r \/ Excused(t)
      BY <2>1 DEF MutexInv
    <2>3. RememberedInv'
      BY <2>1, <2>2 DEF RememberedInv, Excused, TypeOK
    <2>4. MutexInv'
      BY <2>1, <2>2 DEF MutexInv, Excused
    <2>5. ASSUME NEW q \in Request, SecondUse(q)', Remembers
          PROVE  Excused(tok[q])
      <3>1. q # r /\ pc[q] \in {"consume", "sweep"} /\ tok[q] \in Token
        BY <2>1, <2>5 DEF SecondUse
      <3>2. family'[tok[q]] = family[tok[q]]
        BY <2>1, <3>1 DEF Handlers, TypeOK
      <3>3. CASE tok[q] # t
        BY <2>1, <2>5, <3>1, <3>2, <3>3 DEF SecondUse, SecondUseInv, TypeOK
      <3>4. CASE tok[q] = t /\ pc[q] = "consume"
        BY <2>1, <2>2, <3>1, <3>4 DEF MutexInv
      <3>5. CASE tok[q] = t /\ pc[q] = "sweep"
        BY <2>1, <3>1, <3>5 DEF Locks, HolderInv
      <3> QED
        BY <3>1, <3>3, <3>4, <3>5
    <2>6. SecondUseInv'
      BY <2>1, <2>5 DEF SecondUseInv, Excused
    <2> QED
      BY <2>3, <2>4, <2>6
  <1>9. ASSUME NEW r \in Request, RememberRotation(r)
        PROVE  Excuses'
    <2>1. /\ pc' = [pc EXCEPT ![r] = "reply"] /\ tok[r] \in Token
          /\ replay' = [replay EXCEPT ![tok[r]] = [client |-> by[r], token |-> answer[r]]]
          /\ UNCHANGED <<successor, mutex, excuse, tok, by, family>>
      BY <1>9 DEF RememberRotation, Goto, Handlers, Exchange, rows, history
    <2>2. replay'[tok[r]] # None
      <3>1. [client |-> by[r], token |-> answer[r]] \in Answer
        BY <1>9, <2>1 DEF RememberRotation, Handlers, Exchange, Answer
      <3> QED
        BY <2>1, <3>1 DEF TypeOK
    <2>3. RememberedInv'
      BY <2>1, <2>2 DEF RememberedInv, Excused, TypeOK
    <2>4. MutexInv'
      BY <2>1 DEF MutexInv, Excused, TypeOK
    <2>5. SecondUseInv'
      BY <2>1 DEF SecondUseInv, SecondUse, Excused, TypeOK
    <2> QED
      BY <2>3, <2>4, <2>5
  <1>10. ASSUME NEW r \in Request, Reply(r) \/ Refuse(r)
         PROVE  Excuses'
    <2>1. /\ pc[r] \in {"reply", "refused"} /\ tok[r] \in Token
          /\ mutex' = IF mutex[tok[r]] = r THEN [mutex EXCEPT ![tok[r]] = None] ELSE mutex
          /\ pc'[r] \in {"idle", "rollback"}
          /\ \A q \in Request : q # r => pc'[q] = pc[q] /\ tok'[q] = tok[q] /\ by'[q] = by[q]
          /\ UNCHANGED <<successor, family, replay, excuse>>
      BY <1>10 DEF Reply, Refuse, ReleaseMutex, Finish, Goto, TypeOK, Handlers, Exchange, rows,
                   history
    <2>2. RememberedInv'
      BY <2>1 DEF RememberedInv, Excused, TypeOK
    <2>3. MutexInv'
      BY <2>1 DEF MutexInv, Excused, TypeOK
    <2>4. SecondUseInv'
      BY <2>1 DEF SecondUseInv, SecondUse, Excused, TypeOK
    <2> QED
      BY <2>2, <2>3, <2>4
  <1>11. ASSUME NEW r \in Request, GiveUp(r) \/ Rollback(r)
         PROVE  Excuses'
    BY <1>0, <1>11 DEF GiveUp, Rollback, Finish, Goto, TypeOK, SecondUse, rows, history
  <1>12. ASSUME NEW r \in Request, TakeSnapshot(r)
         PROVE  Excuses'
    BY <1>0, <1>12 DEF TakeSnapshot, Goto, TypeOK, SecondUse, rows, history
  <1>13. ASSUME NEW r \in Request, NEW t \in Token, SweepRow(r, t)
         PROVE  Excuses'
    BY <1>0, <1>13 DEF SweepRow, SecondUse, rows, history
  <1>14. ASSUME NEW r \in Request, CommitSweep(r)
         PROVE  Excuses'
    <2>1. /\ pc[r] = "sweeping" /\ pc'[r] \in {"idle", "refused"}
          /\ \A q \in Request : q # r => pc'[q] = pc[q] /\ tok'[q] = tok[q] /\ by'[q] = by[q]
          /\ UNCHANGED <<successor, family, replay, mutex, excuse>>
      BY <1>14 DEF CommitSweep, Finish, Goto, TypeOK
    <2> QED
      BY <1>0, <2>1 DEF SecondUse
  <1>15. ASSUME NEW r \in Request, Crash(r)
         PROVE  Excuses'
    <2>1. /\ pc[r] # "idle" /\ pc'[r] = "idle"
          /\ \A q \in Request : q # r => pc'[q] = pc[q] /\ tok'[q] = tok[q] /\ by'[q] = by[q]
          /\ mutex' = [t \in Token |-> IF mutex[t] = r THEN Orphan ELSE mutex[t]]
          /\ UNCHANGED <<successor, family, replay>>
      BY <1>15 DEF Crash, Finish, Goto, TypeOK, rows
    <2>2. \A t \in Token : Excused(t) => Excused(t)'
      BY <1>15 DEF Crash, Excused, TypeOK
    <2>3. \A t \in Token : pc[r] = "remember" /\ tok[r] = t => Excused(t)'
      BY <1>15 DEF Crash, Excused, TypeOK
    <2>4. RememberedInv'
      <3> SUFFICES ASSUME Remembers, NEW t \in Token, successor[t] # None, ~Excused(t)',
                          replay[t] = None
                   PROVE  \E q \in Request : /\ tok'[q] = t /\ mutex'[t] = q
                                             /\ pc'[q] = "remember"
        BY <2>1 DEF RememberedInv
      <3>1. PICK q \in Request : tok[q] = t /\ mutex[t] = q /\ pc[q] = "remember"
        BY <2>2 DEF RememberedInv
      <3>2. q # r
        BY <2>3, <3>1
      <3> QED
        BY <2>1, <3>1, <3>2
    <2>5. MutexInv'
      BY <2>1, <2>2 DEF MutexInv, TypeOK, Handlers, Exchange
    <2>6. SecondUseInv'
      BY <2>1, <2>2 DEF SecondUseInv, SecondUse
    <2> QED
      BY <2>4, <2>5, <2>6
  <1>16. ASSUME NEW t \in Token, LeaseExpires(t)
         PROVE  Excuses'
    <2>1. /\ mutex' = [mutex EXCEPT ![t] = None]
          /\ UNCHANGED <<pc, tok, by, successor, family, replay>>
      BY <1>16 DEF LeaseExpires, rows, handler
    <2>2. \A v \in Token : Excused(v) => Excused(v)'
      BY <1>16 DEF LeaseExpires, Excused, TypeOK
    <2>3. mutex[t] = Orphan \/ Excused(t)'
      BY <1>16 DEF LeaseExpires, Excused, TypeOK
    <2>4. RememberedInv'
      BY <2>1, <2>2, <2>3 DEF RememberedInv, TypeOK
    <2>5. MutexInv'
      BY <2>1, <2>2, <2>3 DEF MutexInv, TypeOK, Handlers, Exchange
    <2>6. SecondUseInv'
      BY <2>1, <2>2 DEF SecondUseInv, SecondUse
    <2> QED
      BY <2>4, <2>5, <2>6
  <1>17. ASSUME NEW t \in Token, ReplayExpires(t)
         PROVE  Excuses'
    <2>1. /\ replay' = [replay EXCEPT ![t] = None]
          /\ UNCHANGED <<pc, tok, by, successor, family, mutex>>
      BY <1>17 DEF ReplayExpires, rows, handler
    <2>2. Excused(t)' /\ \A v \in Token : Excused(v) => Excused(v)'
      BY <1>17 DEF ReplayExpires, Excused, TypeOK
    <2>3. RememberedInv'
      BY <2>1, <2>2 DEF RememberedInv, TypeOK
    <2>4. MutexInv'
      BY <2>1, <2>2 DEF MutexInv, TypeOK, Handlers, Exchange
    <2>5. SecondUseInv'
      BY <2>1, <2>2 DEF SecondUseInv, SecondUse
    <2> QED
      BY <2>3, <2>4, <2>5
  <1>18. CASE \/ \E t \in Token : TokenExpires(t)
              \/ \E u \in User : SetActive(u)
    BY <1>0, <1>18 DEF TokenExpires, SetActive, handler, history, SecondUse
  <1>19. CASE UNCHANGED vars
    BY <1>0, <1>19 DEF vars, rows, handler, history, SecondUse
  <1>21. ASSUME NEW r \in Request, DeadlockAbort(r)
         PROVE  Excuses'
    <2>1. /\ pc[r] \in {"consume", "sweeping"} /\ pc'[r] \in {"idle", "refused"}
          /\ \A q \in Request : q # r => pc'[q] = pc[q] /\ tok'[q] = tok[q] /\ by'[q] = by[q]
          /\ UNCHANGED <<successor, family, replay, mutex, excuse>>
      BY <1>21, AbortsCleanly DEF rows, history
    <2> QED
      BY <1>0, <2>1 DEF SecondUse
  <1>20. ASSUME NEW r \in Request, Step(r)
         PROVE  Excuses'
    BY <1>4, <1>5, <1>6, <1>7, <1>8, <1>9, <1>10, <1>11, <1>12, <1>13, <1>14, <1>20, <1>21
       DEF Step
  <1> QED
    BY <1>1, <1>2, <1>3, <1>15, <1>16, <1>17, <1>18, <1>19, <1>20 DEF Next

\* A client that repeats its own exchange is taken for a thief only once the
\* answer is no longer remembered, or after a lease ran out or a worker died
\* between the commit and the remembering.
THEOREM OnlyTheftIsRefused == Spec => []ReuseMeansTheft
  <1>1. Spec => [](Shapes /\ Locks /\ Answers /\ Excuses)
    BY InitShapes, NextShapes, InitLocks, NextLocks, InitAnswers, NextAnswers,
       InitExcuses, NextExcuses, PTL DEF Spec
  <1>2. Shapes /\ Excuses => ReuseMeansTheft
    BY DEF Shapes, TypeOK, Excuses, SecondUseInv, SecondUse, Excused, ReuseMeansTheft,
           RepeatsOwnExchange
  <1> QED
    BY <1>1, <1>2, PTL

-----------------------------------------------------------------------------
(* Implementing the line of succession.                                    *)

\* What the refinement mapping says of one family.
HeadFacts ==
    \A f \in Family :
        /\ \A t \in live : family[t] = f => head[f] = t
        /\ (\A t \in live : family[t] # f) /\ Opened(f) => head[f] = Ended
        /\ ~Opened(f) => head[f] = None

\* The refinement mapping says so.
LEMMA HeadMeans == Shapes /\ Locks => HeadFacts
  <1> SUFFICES ASSUME Shapes, Locks, NEW f \in Family
               PROVE  /\ \A t \in live : family[t] = f => head[f] = t
                      /\ (\A t \in live : family[t] # f) /\ Opened(f) => head[f] = Ended
                      /\ ~Opened(f) => head[f] = None
    BY DEF HeadFacts
  <1>1. live \subseteq Token
    BY DEF Shapes, TypeOK
  <1>2. ASSUME NEW t \in live, family[t] = f
        PROVE  head[f] = t
    <2>1. LiveIn(f) = {t}
      BY <1>2 DEF LiveIn, Locks, AtMostOneLive
    <2>2. (CHOOSE v \in Token : v \in {t}) = t
      BY <1>1, <1>2
    <2> QED
      BY <2>1, <2>2 DEF head
  <1>3. ASSUME \A t \in live : family[t] # f
        PROVE  head[f] = IF Opened(f) THEN Ended ELSE None
    <2>1. LiveIn(f) = {}
      BY <1>3 DEF LiveIn
    <2> QED
      BY <2>1 DEF head, Opened
  <1>4. ~Opened(f) => \A t \in live : family[t] # f
    BY <1>1 DEF Opened
  <1> QED
    BY <1>2, <1>3, <1>4

\* The initial states are those of TokenLineage.
LEMMA InitRefines == Init => Lineage!Init
  BY DEF Init, Lineage!Init, head, LiveIn, Issued

\* Every step is one of TokenLineage, or changes nothing it speaks of.
LEMMA NextRefines ==
  Shapes /\ Locks /\ HeadFacts /\ HeadFacts' /\ [Next]_vars => [Lineage!Next]_(Lineage!vars)
  <1> SUFFICES ASSUME Shapes, Locks, HeadFacts, HeadFacts', [Next]_vars
               PROVE  [Lineage!Next]_(Lineage!vars)
    OBVIOUS
  <1> USE DEF Shapes, Locks
  <1>0. ASSUME UNCHANGED <<family, live>>
        PROVE  UNCHANGED <<head, Issued>>
    BY <1>0 DEF head, LiveIn, Issued
  <1>8. /\ head = [g \in Family |-> head[g]]
        /\ head' = [g \in Family |-> head'[g]]
    BY DEF head
  <1>1. ASSUME NEW f \in Family, NEW t \in Token, Redeem(f, t)
        PROVE  Lineage!Open(f, t)
    <2>1. /\ ~Opened(f) /\ family[t] = None
          /\ family' = [family EXCEPT ![t] = f] /\ live' = live \cup {t}
      BY <1>1 DEF Redeem, Fresh, Issued, Opened
    <2>2. head[f] = None /\ t \notin Issued
      BY <2>1 DEF HeadFacts, Issued
    <2>3. Issued' = Issued \cup {t}
      BY <2>1 DEF Issued, TypeOK
    <2>4. ASSUME NEW g \in Family
          PROVE  head'[g] = IF g = f THEN t ELSE head[g]
      <3>1. CASE g = f
        BY <2>1, <3>1 DEF HeadFacts, TypeOK
      <3>2. CASE g # f
        <4>1. \A v \in Token : (family'[v] = g) <=> (family[v] = g)
          BY <2>1, <3>2 DEF TypeOK
        <4>2. \A v \in Token : family[v] = g => (v \in live' <=> v \in live)
          BY <2>1
        <4>3. LiveIn(g)' = LiveIn(g)
          BY <2>1, <4>1, <4>2 DEF LiveIn, TypeOK
        <4> QED
          BY <3>2, <4>1, <4>3 DEF head
      <3> QED
        BY <3>1, <3>2
    <2>5. head' = [head EXCEPT ![f] = t]
      BY <1>8, <2>4
    <2> QED
      BY <2>2, <2>3, <2>5 DEF Lineage!Open
  <1>2. ASSUME NEW r \in Request, NEW u \in Token, Rotate(r, u)
        PROVE  Lineage!Exchange(family[tok[r]], u)
    <2> DEFINE t == tok[r]
               f == family[t]
    <2>1. /\ t \in live /\ f \in Family /\ family[u] = None
          /\ family' = [family EXCEPT ![u] = f] /\ live' = (live \ {t}) \cup {u}
      BY <1>2 DEF Rotate, Fresh, Issued, HolderInv, TableInv
    <2>2. head[f] \in Token /\ u \notin Issued
      BY <2>1 DEF HeadFacts, Issued, TypeOK
    <2>3. Issued' = Issued \cup {u}
      BY <2>1 DEF Issued, TypeOK
    <2>4. ASSUME NEW g \in Family
          PROVE  head'[g] = IF g = f THEN u ELSE head[g]
      <3>1. CASE g = f
        BY <2>1, <3>1 DEF HeadFacts, TypeOK
      <3>2. CASE g # f
        <4>1. \A v \in Token : (family'[v] = g) <=> (family[v] = g)
          BY <2>1, <3>2 DEF TypeOK
        <4>2. \A v \in Token : family[v] = g => (v \in live' <=> v \in live)
          BY <2>1, <3>2
        <4>3. LiveIn(g)' = LiveIn(g)
          BY <2>1, <4>1, <4>2 DEF LiveIn, TypeOK
        <4> QED
          BY <3>2, <4>1, <4>3 DEF head
      <3> QED
        BY <3>1, <3>2
    <2>5. head' = [head EXCEPT ![f] = u]
      BY <1>8, <2>1, <2>4
    <2> QED
      BY <2>2, <2>3, <2>5 DEF Lineage!Exchange
  <1>3. ASSUME NEW r \in Request, CommitSweep(r)
        PROVE  Lineage!End({family[t] : t \in sweep[r].marked})
    <2> DEFINE fs == {family[t] : t \in sweep[r].marked}
    <2>1. /\ live' = live \ sweep[r].marked /\ UNCHANGED family
          /\ \A t \in sweep[r].marked : t \in live /\ family[t] \in Family
      BY <1>3 DEF CommitSweep, HolderInv, TableInv
    <2>2. \A g \in fs : head[g] \in Token
      BY <2>1 DEF HeadFacts, TypeOK
    <2>3. UNCHANGED Issued
      BY <2>1 DEF Issued
    <2>4. ASSUME NEW g \in Family
          PROVE  head'[g] = IF g \in fs THEN Ended ELSE head[g]
      <3>1. CASE g \in fs
        <4>1. Opened(g)'
          BY <2>1, <3>1 DEF Opened, TypeOK
        <4>2. \A t \in live' : family'[t] # g
          BY <2>1, <3>1 DEF AtMostOneLive
        <4> QED
          BY <3>1, <4>1, <4>2 DEF HeadFacts
      <3>2. CASE g \notin fs
        <4>1. LiveIn(g)' = LiveIn(g)
          BY <2>1, <3>2 DEF LiveIn
        <4> QED
          BY <2>1, <3>2, <4>1 DEF head
      <3> QED
        BY <3>1, <3>2
    <2>5. head' = [g \in Family |-> IF g \in fs THEN Ended ELSE head[g]]
      BY <1>8, <2>4
    <2> QED
      BY <2>2, <2>3, <2>5 DEF Lineage!End
  <1>4. ASSUME NEW r \in Request, Step(r), \A u \in Token : ~Rotate(r, u), ~CommitSweep(r)
        PROVE  UNCHANGED <<family, live>>
    BY <1>4 DEF Step, AcquireMutex, GiveUp, ReplayedRotation, ConsumeRefreshToken, CheckUser,
                RememberRotation, Reply, Refuse, Rollback, TakeSnapshot, SweepRow,
                DeadlockAbort, rows
  <1>5. CASE \/ \E r \in Request, u \in Token, d \in Client : Present(r, u, d)
             \/ \E r \in Request, gs \in SUBSET Family : Revoke(r, gs)
             \/ \E r \in Request : Crash(r)
    BY <1>0, <1>5 DEF Present, Revoke, Crash, rows, Lineage!vars
  <1>9. CASE \/ \E u \in Token : LeaseExpires(u) \/ ReplayExpires(u) \/ TokenExpires(u)
             \/ \E u \in User : SetActive(u)
    BY <1>0, <1>9 DEF LeaseExpires, ReplayExpires, TokenExpires, SetActive, rows, Lineage!vars
  <1>10. CASE UNCHANGED vars
    BY <1>0, <1>10 DEF vars, rows, Lineage!vars
  <1>6. CASE \E f \in Family, t \in Token : Redeem(f, t)
    BY <1>1, <1>6 DEF Lineage!Next
  <1>7. ASSUME NEW r \in Request, Step(r)
        PROVE  [Lineage!Next]_(Lineage!vars)
    <2>1. CASE \E u \in Token : Rotate(r, u)
      <3>1. PICK u \in Token : Rotate(r, u)
        BY <2>1
      <3>2. family[tok[r]] \in Family
        BY <3>1 DEF Rotate, Handlers, Exchange
      <3> QED
        BY <1>2, <3>1, <3>2 DEF Lineage!Next
    <2>2. CASE CommitSweep(r)
      <3>1. {family[t] : t \in sweep[r].marked} \in SUBSET Family
        BY DEF HolderInv, TableInv
      <3> QED
        BY <1>3, <2>2, <3>1 DEF Lineage!Next
    <2>3. CASE ~CommitSweep(r) /\ \A u \in Token : ~Rotate(r, u)
      BY <1>0, <1>4, <1>7, <2>3 DEF Lineage!vars
    <2> QED
      BY <2>1, <2>2, <2>3
  <1> QED
    BY <1>5, <1>6, <1>7, <1>9, <1>10 DEF Next

\* Rotation as the workers run it implements the line of succession: every step is
\* an opening, an exchange of the head, an ending of whole families, or nothing.
THEOREM Refinement == Spec => ImplementsLineage
  <1>1. Spec => [](Shapes /\ Locks)
    BY InitShapes, NextShapes, InitLocks, NextLocks, PTL DEF Spec
  <1> QED
    BY <1>1, HeadMeans, InitRefines, NextRefines, PTL
       DEF Spec, ImplementsLineage, Lineage!Spec
=============================================================================
