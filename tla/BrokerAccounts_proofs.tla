------------------------ MODULE BrokerAccounts_proofs ------------------------
(***************************************************************************)
(* Proofs about BrokerAccounts, for any users, accounts, requests, pools   *)
(* and outcomes of a broker.                                               *)
(*                                                                         *)
(* IInv says what a request may rely on between its flush and its commit:  *)
(* the row it locked is there, nobody else has it locked, and the columns  *)
(* it updates are those in which its assignments differ from its image.    *)
(***************************************************************************)
EXTENDS BrokerAccounts, TLAPS

\* A connect in progress has an id to itself that no row has yet.
ConnectsFresh ==
  \A r \in Reqs : ~Over(r) /\ req[r].op = "connect" =>
    /\ life[req[r].acct] = "none"
    /\ \A q \in Reqs \ {r} : ~Over(q) /\ req[q].op = "connect" => req[q].acct # req[r].acct

Locks(r) == req[r].stage = "written" /\ (req[r].op = "delete" \/ req[r].cols # {})

LockedOnce ==
  \A r, q \in Reqs : r # q /\ Locks(r) /\ Locks(q) => req[r].acct # req[q].acct

WrittenFits ==
  \A r \in Reqs : req[r].stage = "written" =>
    req[r].cols = Updated(r) /\ (req[r].cols # {} => Live(req[r].acct))

\* A request on a row read it.
RowsRead ==
  \A r \in Reqs :
    req[r].stage \in {"calling", "flush", "written"} /\ req[r].op \in OnRow =>
      life[req[r].acct] # "none"

CountsFit ==
  \A a \in Accounts : IF life[a] = "deleted" THEN checks[a] = 0 ELSE checks[a] = tested[a]

IInv ==
  /\ TypeOK /\ ConnectsFresh /\ LockedOnce /\ WrittenFits /\ RowsRead /\ CountsFit
  /\ SwitchHolds /\ VerificationHolds

Step(r) ==
  \/ \E op \in Ops, u \in Users, a \in Accounts : Begin(r, op, u, a)
  \/ Handle(r) \/ Abort(r)

\* Every step but a commit leaves the tables alone.
BeforeCommit(r) ==
  \/ \E op \in Ops, u \in Users, a \in Accounts : Begin(r, op, u, a)
  \/ Checkout(r) \/ CheckoutTimesOut(r) \/ Refuse(r) \/ Load(r) \/ BrokerAnswers(r)
  \/ Resume(r) \/ Flush(r) \/ FlushFails(r) \/ Abort(r)

USE SomeAssumption, PoolAssumption

\* The values that stand for "any" have their types.
LEMMA AnyTypes ==
  /\ AnyAccount \in Accounts /\ AnyRow \in Row /\ AnyRow.owner \in Users
  /\ \A u \in Users : NewRow(u) \in Row
<1>1. AnyAccount \in Accounts
  BY DEF AnyAccount
<1>2. \A u \in Users : NewRow(u) \in Row
  BY DEF NewRow, Row, Statuses
<1>3. AnyRow \in Row
  BY <1>2 DEF AnyRow
<1> QED
  BY <1>1, <1>2, <1>3 DEF Row

\* The idle slot is a request.
LEMMA IdleType == Idle \in Request
<1>1. "list" \in Ops /\ "idle" \in Stages /\ "success" \in Statuses
  BY DEF Ops, Reads, Stages, Statuses
<1> QED
  BY <1>1, AnyTypes DEF Idle, Request

\* What the handler assigned is a row.
LEMMA AssignedType ==
  ASSUME NEW r \in Reqs, req[r] \in Request
  PROVE  Assigned(r) \in Row /\ DOMAIN req[r].image = {"owner", "active", "off", "status"}
<1>1. req[r].image \in Row /\ req[r].status \in Statuses
  BY DEF Request
<1>2. DOMAIN req[r].image = {"owner", "active", "off", "status"}
  BY <1>1 DEF Row
<1>3. CASE req[r].op = "deactivate"
  BY <1>1, <1>3 DEF Assigned, Row
<1>4. CASE req[r].op = "reactivate"
  BY <1>1, <1>4 DEF Assigned, Row
<1>5. CASE req[r].op = "test_stored"
  BY <1>1, <1>5 DEF Assigned, Row
<1>6. CASE req[r].op \notin {"deactivate", "reactivate", "test_stored"}
  BY <1>1, <1>6 DEF Assigned, Row
<1> QED
  BY <1>2, <1>3, <1>4, <1>5, <1>6

\* Which columns each operation updates.
LEMMA UpdatedCols ==
  ASSUME NEW r \in Reqs, req[r] \in Request
  PROVE  LET image == req[r].image IN
         /\ Updated(r) \subseteq Columns
         /\ req[r].op = "deactivate" =>
              Updated(r) = {"off"} \union (IF image.active THEN {"active"} ELSE {})
         /\ req[r].op = "reactivate" =>
              Updated(r) = (IF image.off THEN {"off"} ELSE {})
                           \union (IF image.active THEN {} ELSE {"active"})
         /\ req[r].op = "test_stored" =>
              Updated(r) = {"last_tested_at"}
                           \union (IF image.status = req[r].status THEN {} ELSE {"status"})
         /\ req[r].op \notin Switches \union {"test_stored"} => Updated(r) = {}
<1> DEFINE image == req[r].image
<1>1. image \in Row /\ req[r].status \in Statuses
  BY DEF Request
<1>2. DOMAIN image = {"owner", "active", "off", "status"}
  BY <1>1 DEF Row
<1>3. CASE req[r].op = "deactivate"
  BY <1>1, <1>2, <1>3 DEF Updated, Assigned, Stamped, Row, Switches, Columns
<1>4. CASE req[r].op = "reactivate"
  BY <1>1, <1>2, <1>4 DEF Updated, Assigned, Stamped, Row, Switches, Columns
<1>5. CASE req[r].op = "test_stored"
  BY <1>1, <1>2, <1>5 DEF Updated, Assigned, Stamped, Row, Switches, Columns
<1>6. CASE req[r].op \notin Switches \union {"test_stored"}
  BY <1>1, <1>2, <1>6 DEF Updated, Assigned, Stamped, Row, Switches, Columns
<1> QED
  BY <1>3, <1>4, <1>5, <1>6 DEF Switches

\* IInv holds initially.
LEMMA InitInv == Init => IInv
<1> SUFFICES ASSUME Init PROVE IInv
  OBVIOUS
<1>1. Idle \in Request /\ AnyRow \in Row
  BY IdleType, AnyTypes
<1>2. TypeOK
  BY <1>1 DEF Init, TypeOK, Broker!Init, Switches, Statuses
<1>3. \A r \in Reqs : req[r].stage = "idle"
  BY DEF Init, Idle
<1>4. ConnectsFresh /\ LockedOnce /\ WrittenFits /\ RowsRead /\ CountsFit
  BY <1>3 DEF ConnectsFresh, LockedOnce, Locks, WrittenFits, RowsRead, CountsFit,
     Over, Init
<1>5. SwitchHolds /\ VerificationHolds
  BY DEF Init, SwitchHolds, VerificationHolds, Live
<1> QED
  BY <1>2, <1>4, <1>5 DEF IInv

\* A request that is not over stays a request when it is moved to a stage.
LEMMA BeforeCommitType ==
  ASSUME TypeOK, NEW r \in Reqs, BeforeCommit(r)
  PROVE  /\ req' \in [Reqs -> Request] /\ call' \in [Reqs -> {"none", "asked"} \union Broker!Outcomes]
         /\ UNCHANGED <<pool, tables>>
         /\ \A q \in Reqs \ {r} : req'[q] = req[q]
<1> USE DEF TypeOK
<1>0. req[r] \in Request /\ Idle \in Request
  BY IdleType
<1>1. ASSUME NEW op \in Ops, NEW u \in Users, NEW a \in Accounts, Begin(r, op, u, a)
      PROVE  /\ req' \in [Reqs -> Request] /\ call' = call
             /\ UNCHANGED <<pool, tables>>
             /\ \A q \in Reqs \ {r} : req'[q] = req[q]
  BY <1>0, <1>1 DEF Begin, Ended, Request, Stages
<1>2. CASE Checkout(r)
  BY <1>0, <1>2 DEF Checkout, Request, Stages
<1>3. CASE CheckoutTimesOut(r) \/ Refuse(r) \/ Abort(r)
  BY <1>0, <1>3 DEF CheckoutTimesOut, Refuse, Abort, Ended
<1>4. CASE Load(r)
  <2>1. row[req[r].acct] \in Row
    BY <1>0 DEF Request
  <2>2. Image(r) \in Row
    BY <2>1, AnyTypes DEF Image, Row
  <2>3. call' \in [Reqs -> {"none", "asked"} \union Broker!Outcomes]
    BY <1>4 DEF Load, Broker!Ask
  <2> QED
    BY <1>0, <1>4, <2>2, <2>3 DEF Load, Request, Stages
<1>5. CASE BrokerAnswers(r)
  BY <1>5 DEF BrokerAnswers, Broker!Answer, Broker!Reply
<1>6. CASE Resume(r)
  <2>1. call' \in [Reqs -> {"none", "asked"} \union Broker!Outcomes]
    BY <1>6 DEF Resume, Broker!Release
  <2>2. CASE Escapes(call[r])
    BY <1>0, <1>6, <2>1, <2>2 DEF Resume, Ended
  <2>3. CASE ~Escapes(call[r])
    <3>1. call[r] \in Statuses
      BY <1>6, <2>3 DEF Resume, Escapes, Broker!Outcomes, Statuses
    <3>2. PICK status \in Statuses :
            req' = [req EXCEPT ![r] = [req[r] EXCEPT !.stage = "flush", !.status = status]]
      <4>1. CASE req[r].op \in {"connect", "test_stored"}
        BY <1>0, <1>6, <2>3, <3>1, <4>1 DEF Resume
      <4>2. CASE req[r].op \notin {"connect", "test_stored"}
        <5>1. req[r].status \in Statuses
          BY <1>0 DEF Request
        <5> QED
          BY <1>0, <1>6, <2>3, <5>1, <4>2 DEF Resume
      <4> QED
        BY <4>1, <4>2
    <3>3. [req[r] EXCEPT !.stage = "flush", !.status = status] \in Request
      BY <1>0 DEF Request, Stages
    <3> QED
      BY <1>6, <2>1, <3>2, <3>3 DEF Resume
  <2> QED
    BY <2>2, <2>3
<1>7. CASE Flush(r)
  <2>1. Updated(r) \subseteq Columns
    BY <1>0, UpdatedCols
  <2> QED
    BY <1>0, <1>7, <2>1 DEF Flush, Request, Stages
<1>8. CASE FlushFails(r)
  BY <1>0, <1>8 DEF FlushFails, AfterStale, Ended
<1> QED
  BY <1>1, <1>2, <1>3, <1>4, <1>5, <1>6, <1>7, <1>8 DEF BeforeCommit

\* How a step before the commit moves its request.
LEMMA BeforeCommitMoves ==
  ASSUME TypeOK, NEW r \in Reqs, BeforeCommit(r)
  PROVE  \/ req'[r] = req[r]
         \/ Over(r)'
         \/ /\ req'[r].stage = "queued"
            /\ req'[r].op = "connect" =>
                 life[req'[r].acct] = "none" /\ ~Reserved(req'[r].acct)
         \/ /\ ~Over(r) /\ req'[r].stage \in {"begun", "calling", "flush"}
            /\ req'[r].op = req[r].op /\ req'[r].acct = req[r].acct
         \/ Flush(r)
<1> USE DEF TypeOK
<1>0. req[r] \in Request
  OBVIOUS
<1>1. ASSUME NEW op \in Ops, NEW u \in Users, NEW a \in Accounts, Begin(r, op, u, a)
      PROVE  /\ req'[r].stage = "queued"
             /\ req'[r].op = "connect" => life[req'[r].acct] = "none" /\ ~Reserved(req'[r].acct)
  BY <1>0, <1>1 DEF Begin, Ended, Idle
<1>2. CASE Checkout(r)
  BY <1>0, <1>2 DEF Checkout, Over
<1>3. CASE CheckoutTimesOut(r) \/ Refuse(r) \/ Abort(r)
  BY <1>0, <1>3 DEF CheckoutTimesOut, Refuse, Abort, Ended, Idle, Over
<1>4. CASE Load(r)
  BY <1>0, <1>4 DEF Load, Over
<1>5. CASE BrokerAnswers(r)
  BY <1>5 DEF BrokerAnswers
<1>6. CASE Resume(r)
  <2>1. CASE Escapes(call[r])
    BY <1>0, <1>6, <2>1 DEF Resume, Ended, Idle, Over
  <2>2. CASE ~Escapes(call[r])
    <3>1. req'[r] = [req[r] EXCEPT !.stage = "flush",
                       !.status = IF req[r].op \in {"connect", "test_stored"}
                                    THEN call[r] ELSE @]
      BY <1>0, <1>6, <2>2 DEF Resume
    <3>2. /\ req'[r].stage = "flush" /\ req'[r].op = req[r].op /\ req'[r].acct = req[r].acct
      BY <1>0, <3>1 DEF Request
    <3> QED
      BY <1>6, <3>2 DEF Resume, Over
  <2> QED
    BY <2>1, <2>2
<1>7. CASE Flush(r)
  BY <1>0, <1>7 DEF Flush
<1>8. CASE FlushFails(r)
  BY <1>0, <1>8 DEF FlushFails, AfterStale, Ended, Idle, Over
<1> QED
  BY <1>1, <1>2, <1>3, <1>4, <1>5, <1>6, <1>7, <1>8 DEF BeforeCommit

\* A step before the commit that moves a request on a row past its reading has read it.
LEMMA BeforeCommitRead ==
  ASSUME IInv, NEW r \in Reqs, BeforeCommit(r),
         req'[r].stage \in {"calling", "flush", "written"}, req'[r].op \in OnRow
  PROVE  life[req'[r].acct] # "none"
<1> USE DEF IInv, TypeOK
<1>0. req[r] \in Request /\ Idle.stage = "idle"
  BY DEF Idle
<1>1. ASSUME NEW op \in Ops, NEW u \in Users, NEW a \in Accounts, Begin(r, op, u, a)
      PROVE  FALSE
  BY <1>0, <1>1 DEF Begin, Ended, Idle
<1>2. CASE CheckoutTimesOut(r) \/ Refuse(r) \/ Abort(r) \/ FlushFails(r)
  <2>1. req' = [req EXCEPT ![r] = Idle]
    BY <1>2 DEF CheckoutTimesOut, Refuse, Abort, FlushFails, AfterStale, Ended
  <2> QED
    BY <1>0, <2>1
<1>7. CASE Checkout(r)
  BY <1>0, <1>7 DEF Checkout
<1>3. CASE Load(r)
  BY <1>0, <1>3 DEF Load, Owned, Live
<1>4. CASE BrokerAnswers(r)
  BY <1>4 DEF BrokerAnswers, RowsRead
<1>5. CASE Resume(r)
  <2>1. CASE Escapes(call[r])
    <3>1. req' = [req EXCEPT ![r] = Idle]
      BY <1>5, <2>1 DEF Resume, Ended
    <3> QED
      BY <1>0, <3>1
  <2>2. CASE ~Escapes(call[r])
    <3>1. req'[r] = [req[r] EXCEPT !.stage = "flush",
                       !.status = IF req[r].op \in {"connect", "test_stored"}
                                    THEN call[r] ELSE @]
      BY <1>0, <1>5, <2>2 DEF Resume
    <3>2. req'[r].op = req[r].op /\ req'[r].acct = req[r].acct
      BY <1>0, <3>1 DEF Request
    <3> QED
      BY <1>5, <3>2 DEF Resume, RowsRead
  <2> QED
    BY <2>1, <2>2
<1>6. CASE Flush(r)
  <2>1. req'[r].op = req[r].op /\ req'[r].acct = req[r].acct
    BY <1>0, <1>6 DEF Flush, Request
  <2> QED
    BY <1>6, <2>1 DEF Flush, RowsRead
<1> QED
  BY <1>1, <1>2, <1>3, <1>4, <1>5, <1>6, <1>7 DEF BeforeCommit

\* A step before the commit preserves the invariant.
LEMMA BeforeCommitInv ==
  ASSUME IInv, NEW r \in Reqs, BeforeCommit(r)
  PROVE  IInv'
<1>1. /\ TypeOK /\ req' \in [Reqs -> Request] /\ UNCHANGED <<pool, tables>>
      /\ \A q \in Reqs \ {r} : req'[q] = req[q]
      /\ call' \in [Reqs -> {"none", "asked"} \union Broker!Outcomes]
  BY BeforeCommitType DEF IInv
<1>2. TypeOK'
  BY <1>1 DEF TypeOK, tables
<1>3. SwitchHolds' /\ VerificationHolds' /\ CountsFit'
  BY <1>1 DEF IInv, tables, SwitchHolds, VerificationHolds, CountsFit, Live
<1>4. \A q \in Reqs \ {r} : Updated(q)' = Updated(q)
  BY <1>1 DEF Updated, Assigned
<1>10. RowsRead'
  BY <1>1, BeforeCommitRead DEF IInv, tables, RowsRead
<1>5. CASE req'[r] = req[r]
  <2>1. \A q \in Reqs : req'[q] = req[q]
    BY <1>1, <1>5
  <2>2. ConnectsFresh' /\ LockedOnce'
    BY <1>1, <2>1 DEF IInv, tables, ConnectsFresh, LockedOnce, Locks, Over
  <2>3. \A q \in Reqs : Updated(q)' = Updated(q)
    BY <2>1 DEF Updated, Assigned
  <2>4. WrittenFits'
    BY <1>1, <2>1, <2>3 DEF IInv, tables, WrittenFits, Live
  <2> QED
    BY <1>2, <1>3, <1>10, <2>2, <2>4 DEF IInv
<1>6. CASE req'[r].stage # "written" /\ (Over(r)' \/ (~Over(r) /\ req'[r].op = req[r].op
                                                    /\ req'[r].acct = req[r].acct))
  <2>1. ConnectsFresh'
    BY <1>1, <1>6 DEF IInv, tables, ConnectsFresh, Over
  <2>2. LockedOnce' /\ WrittenFits'
    BY <1>1, <1>4, <1>6 DEF IInv, tables, LockedOnce, Locks, WrittenFits, Live
  <2> QED
    BY <1>2, <1>3, <1>10, <2>1, <2>2 DEF IInv
<1>7. CASE /\ req'[r].stage = "queued"
           /\ req'[r].op = "connect" => life[req'[r].acct] = "none" /\ ~Reserved(req'[r].acct)
  <2>1. ConnectsFresh'
    BY <1>1, <1>7 DEF IInv, tables, ConnectsFresh, Over, Reserved, Mine
  <2>2. LockedOnce' /\ WrittenFits'
    BY <1>1, <1>4, <1>7 DEF IInv, tables, LockedOnce, Locks, WrittenFits, Live
  <2> QED
    BY <1>2, <1>3, <1>10, <2>1, <2>2 DEF IInv
<1>8. CASE Flush(r)
  <2>1. /\ req[r] \in Request /\ req[r].stage = "flush"
        /\ req'[r] = [req[r] EXCEPT !.stage = "written", !.cols = Updated(r)]
    BY <1>1, <1>8 DEF Flush, TypeOK
  <2>2. /\ req'[r].op = req[r].op /\ req'[r].acct = req[r].acct /\ req'[r].cols = Updated(r)
        /\ req'[r].stage = "written" /\ req'[r].image = req[r].image
        /\ req'[r].status = req[r].status
    BY <2>1 DEF Request
  <2>3. Updated(r)' = Updated(r)
    BY <2>2 DEF Updated, Assigned
  <2>4. ConnectsFresh'
    <3>1. Over(r)' = Over(r) /\ \A q \in Reqs \ {r} : Over(q)' = Over(q)
      BY <1>1, <2>1, <2>2 DEF Over
    <3>2. \A q \in Reqs : req'[q].op = req[q].op /\ req'[q].acct = req[q].acct
      BY <1>1, <2>2
    <3>3. life' = life
      BY <1>1 DEF tables
    <3> QED
      BY <3>1, <3>2, <3>3 DEF IInv, ConnectsFresh
  <2>5. WrittenFits'
    BY <1>1, <1>4, <1>8, <2>2, <2>3 DEF IInv, tables, WrittenFits, Flush, Matches, Live
  <2>6. LockedOnce'
    BY <1>1, <1>8, <2>2 DEF IInv, LockedOnce, Locks, Flush, CanLock, LockedFor, Mine
  <2> QED
    BY <1>2, <1>3, <1>10, <2>4, <2>5, <2>6 DEF IInv
<1>9. Over(r)' => req'[r].stage # "written"
  BY DEF Over
<1> QED
  BY <1>1, <1>5, <1>6, <1>7, <1>8, <1>9, BeforeCommitMoves

\* The row a commit leaves: of the account of r only, and of that only the columns updated.
LEMMA CommittedRow ==
  ASSUME TypeOK, NEW r \in Reqs
  PROVE  LET a == req[r].acct IN
         /\ RowAfter(r) \in [Accounts -> Row]
         /\ \A b \in Accounts \ {a} : RowAfter(r)[b] = row[b]
         /\ Connects(r) => RowAfter(r)[a] = NewRow(req[r].user)
         /\ ~Connects(r) /\ req[r].op # "delete" =>
              \A c \in {"active", "off", "status"} :
                RowAfter(r)[a][c] = IF c \in req[r].cols THEN Assigned(r)[c] ELSE row[a][c]
<1> DEFINE a == req[r].acct
           Merged == [c \in DOMAIN row[a] |->
                        IF c \in req[r].cols THEN Assigned(r)[c] ELSE row[a][c]]
<1>1. /\ req[r] \in Request /\ a \in Accounts /\ req[r].user \in Users
      /\ row \in [Accounts -> Row] /\ row[a] \in Row
  BY DEF TypeOK, Request
<1>2. CASE Connects(r)
  BY <1>1, <1>2, AnyTypes DEF RowAfter
<1>3. CASE ~Connects(r) /\ req[r].op = "delete"
  BY <1>1, <1>3, AnyTypes DEF RowAfter
<1>4. CASE ~Connects(r) /\ req[r].op # "delete"
  <2>1. RowAfter(r) = [row EXCEPT ![a] = Merged]
    BY <1>4 DEF RowAfter
  <2>2. Assigned(r) \in Row
    BY <1>1, AssignedType
  <2>3. DOMAIN row[a] = {"owner", "active", "off", "status"}
    BY <1>1 DEF Row
  <2>4. /\ Merged["owner"] \in Users /\ Merged["active"] \in BOOLEAN
        /\ Merged["off"] \in BOOLEAN /\ Merged["status"] \in Statuses
    BY <1>1, <2>2, <2>3 DEF Row
  <2>5. Merged = [owner |-> Merged["owner"], active |-> Merged["active"],
                  off |-> Merged["off"], status |-> Merged["status"]]
    BY <2>3
  <2>6. Merged \in Row
    BY <2>4, <2>5 DEF Row
  <2>7. \A c \in {"active", "off", "status"} :
          Merged[c] = IF c \in req[r].cols THEN Assigned(r)[c] ELSE row[a][c]
    BY <2>3
  <2> HIDE DEF Merged
  <2> QED
    BY <1>1, <1>4, <2>1, <2>6, <2>7
<1> QED
  BY <1>2, <1>3, <1>4

\* A commit changes nothing of another account.
LEMMA CommitElsewhere ==
  ASSUME TypeOK, NEW r \in Reqs, Commit(r), NEW b \in Accounts, b # req[r].acct
  PROVE  /\ life'[b] = life[b] /\ row'[b] = row[b] /\ checks'[b] = checks[b]
         /\ tested'[b] = tested[b] /\ switch'[b] = switch[b] /\ found'[b] = found[b]
         /\ \A k \in {"switch", "test"} : <<b, k>> \in stale' <=> <<b, k>> \in stale
<1>1. row'[b] = row[b]
  BY CommittedRow DEF Commit
<1>2. life'[b] = life[b] /\ checks'[b] = checks[b] /\ tested'[b] = tested[b]
  BY DEF TypeOK, Commit, LifeAfter, ChecksAfter, TestedAfter
<1>3. switch'[b] = switch[b] /\ found'[b] = found[b]
  BY DEF TypeOK, Commit, Remember
<1>4. ASSUME NEW k \in {"switch", "test"}
      PROVE  <<b, k>> \in stale' <=> <<b, k>> \in stale
  BY DEF Commit, Remember
<1> QED
  BY <1>1, <1>2, <1>3, <1>4

\* A commit keeps the types.
LEMMA CommitType ==
  ASSUME TypeOK, NEW r \in Reqs, Commit(r)
  PROVE  /\ TypeOK' /\ req'[r] = Idle
         /\ \A q \in Reqs \ {r} : req'[q] = req[q]
<1> DEFINE a == req[r].acct
<1>1. req[r] \in Request /\ a \in Accounts /\ req[r].status \in Statuses /\ req[r].op \in Ops
  BY DEF TypeOK, Request
<1>2. req' = [req EXCEPT ![r] = Idle]
  BY DEF Commit, Ended
<1>3. Idle \in Request
  BY IdleType
<1>4. row' \in [Accounts -> Row]
  BY CommittedRow DEF Commit
<1>5. /\ life' \in [Accounts -> {"none", "row", "deleted"}]
      /\ checks' \in [Accounts -> Nat] /\ tested' \in [Accounts -> Nat]
  BY <1>1 DEF TypeOK, Commit, LifeAfter, ChecksAfter, TestedAfter
<1>6. switch' \in [Accounts -> Switches] /\ found' \in [Accounts -> Statuses]
  BY <1>1 DEF TypeOK, Commit, Remember, Switches
<1>7. stale' \subseteq Accounts \X {"switch", "test"}
  BY <1>1 DEF TypeOK, Commit, Remember
<1>8. pool' = pool /\ call' = call
  BY DEF Commit
<1> QED
  BY <1>2, <1>3, <1>4, <1>5, <1>6, <1>7, <1>8 DEF TypeOK

\* What the commit of a request does to the row of its own account.
LEMMA CommitHere ==
  ASSUME IInv, NEW r \in Reqs, Commit(r)
  PROVE  LET a == req[r].acct IN
         /\ life'[a] = "row" /\ <<a, "switch">> \notin stale' =>
              /\ row'[a].active = (switch'[a] = "reactivate")
              /\ row'[a].off = ~row'[a].active
         /\ life'[a] = "row" /\ <<a, "test">> \notin stale' => row'[a].status = found'[a]
         /\ IF life'[a] = "deleted" THEN checks'[a] = 0 ELSE checks'[a] = tested'[a]
         /\ life[a] = "deleted" => life'[a] = "deleted"
<1> DEFINE a == req[r].acct
<1> USE DEF IInv
<1>1. /\ TypeOK /\ req[r] \in Request /\ a \in Accounts /\ req[r].status \in Statuses
      /\ row[a] \in Row /\ req[r].image \in Row /\ req[r].op \in Ops /\ req[r].user \in Users
      /\ req[r].stage = "written" /\ req[r].cols = Updated(r)
      /\ req[r].cols # {} => Live(a)
  BY DEF TypeOK, Request, Commit, WrittenFits
<1>2. CASE Connects(r)
  <2>1. life[a] = "none"
    BY <1>1, <1>2 DEF ConnectsFresh, Connects, Over
  <2>2. row'[a] = NewRow(req[r].user)
    BY <1>1, <1>2, CommittedRow DEF Commit
  <2>3. life'[a] = "row" /\ checks'[a] = checks[a] /\ tested'[a] = tested[a]
    BY <1>1, <1>2 DEF TypeOK, Commit, LifeAfter, ChecksAfter, TestedAfter, Connects
  <2>4. switch'[a] = "reactivate" /\ found'[a] = "success"
    BY <1>1, <1>2 DEF TypeOK, Commit, Remember, Connects, Switches
  <2> QED
    <3>1. /\ row'[a].active = TRUE /\ row'[a].off = FALSE
          /\ row'[a].status = "success"
      BY <2>2 DEF NewRow
    <3>2. checks[a] = tested[a]
      BY <1>1, <2>1 DEF CountsFit
    <3> QED
      BY <2>1, <2>3, <2>4, <3>1, <3>2
<1>3. CASE req[r].op = "delete"
  <2>1. life'[a] = "deleted" /\ checks'[a] = 0
    BY <1>1, <1>3 DEF TypeOK, Commit, LifeAfter, ChecksAfter, Connects
  <2> QED
    BY <2>1, <1>3 DEF Live, Connects
<1>4. CASE ~Connects(r) /\ req[r].op # "delete"
  <2>1. life' = life
    BY <1>4 DEF Commit, LifeAfter
  <2>2. \A c \in {"active", "off", "status"} :
          row'[a][c] = IF c \in req[r].cols THEN Assigned(r)[c] ELSE row[a][c]
    BY <1>1, <1>4, CommittedRow DEF Commit
  <2>3. CASE req[r].cols = {} /\ req[r].op # "test_stored"
    <3>1. /\ row'[a].active = row[a].active /\ row'[a].off = row[a].off
          /\ row'[a].status = row[a].status
      BY <2>2, <2>3
    <3>2. switch' = switch /\ found' = found /\ stale' = stale
      BY <1>4, <2>3 DEF Commit, Remember
    <3>3. checks' = checks /\ tested' = tested
      BY <1>4, <2>3 DEF Commit, ChecksAfter, TestedAfter
    <3> QED
      BY <1>1, <1>4, <2>1, <3>1, <3>2, <3>3 DEF SwitchHolds, VerificationHolds, CountsFit, Live
  <2>4. CASE req[r].op = "test_stored"
    <3>1. req[r].cols \subseteq {"last_tested_at", "status"} /\ "last_tested_at" \in req[r].cols
      BY <1>1, <2>4, UpdatedCols
    <3>2. row'[a].active = row[a].active /\ row'[a].off = row[a].off
      BY <2>2, <3>1
    <3>3. switch' = switch /\ found'[a] = req[r].status
      BY <1>1, <1>4, <2>4 DEF TypeOK, Commit, Remember, Switches
    <3>4. <<a, "switch">> \in stale' <=> <<a, "switch">> \in stale
      BY <1>4, <2>4 DEF Commit, Remember
    <3>5. CASE Outdated(r)
      <4>1. <<a, "test">> \in stale'
        BY <2>4, <3>1, <3>5 DEF Commit, Remember
      <4> QED
        BY <1>1, <1>4, <2>1, <2>4, <3>1, <3>2, <3>3, <3>4, <4>1
        DEF Commit, SwitchHolds, CountsFit, Live, ChecksAfter, TestedAfter, TypeOK
    <3>6. CASE ~Outdated(r)
      <4>1. row[a].status = req[r].image.status
        BY <2>4, <3>6 DEF Outdated
      <4>2. Assigned(r).status = req[r].status
        BY <1>1, <2>4 DEF Assigned, Row
      <4>3. row'[a].status = req[r].status
        BY <1>1, <2>2, <2>4, <4>1, <4>2, UpdatedCols
      <4> QED
        BY <1>1, <1>4, <2>1, <2>4, <3>1, <3>2, <3>3, <3>4, <4>3
        DEF Commit, SwitchHolds, CountsFit, Live, ChecksAfter, TestedAfter, TypeOK
    <3> QED
      BY <3>5, <3>6
  <2>5. CASE req[r].cols # {} /\ req[r].op # "test_stored"
    <3>1. req[r].op \in Switches
      BY <1>1, <2>5, UpdatedCols
    <3>2. /\ switch'[a] = req[r].op /\ found' = found
          /\ checks' = checks /\ tested' = tested
      BY <1>1, <1>4, <2>5, <3>1 DEF TypeOK, Commit, Remember, ChecksAfter, TestedAfter
    <3>3. "status" \notin req[r].cols
      BY <1>1, <3>1, UpdatedCols DEF Switches
    <3>4. row'[a].status = row[a].status
      BY <2>2, <3>3
    <3>5. <<a, "test">> \in stale' <=> <<a, "test">> \in stale
      BY <1>4, <2>5 DEF Commit, Remember
    <3>6. Outdated(r) => <<a, "switch">> \in stale'
      BY <1>4, <2>5 DEF Commit, Remember
    <3>7. ASSUME ~Outdated(r)
          PROVE  row'[a].active = (req[r].op = "reactivate") /\ row'[a].off = ~row'[a].active
      <4>1. row[a].active = req[r].image.active /\ row[a].off = req[r].image.off
        BY <2>5, <3>7 DEF Outdated
      <4>2. CASE req[r].op = "deactivate"
        <5>1. Assigned(r).active = FALSE /\ Assigned(r).off = TRUE
          BY <1>1, <4>2 DEF Assigned, Row
        <5>2. row'[a].active = FALSE /\ row'[a].off = TRUE
          BY <1>1, <2>2, <4>1, <4>2, <5>1, UpdatedCols DEF Row
        <5> QED
          BY <4>2, <5>2
      <4>3. CASE req[r].op = "reactivate"
        <5>1. Assigned(r).active = TRUE /\ Assigned(r).off = FALSE
          BY <1>1, <4>3 DEF Assigned, Row
        <5>2. row'[a].active = TRUE /\ row'[a].off = FALSE
          BY <1>1, <2>2, <4>1, <4>3, <5>1, UpdatedCols DEF Row
        <5> QED
          BY <4>3, <5>2
      <4> QED
        BY <3>1, <4>2, <4>3 DEF Switches
    <3> QED
      BY <1>1, <1>4, <2>1, <3>2, <3>4, <3>5, <3>6, <3>7 DEF VerificationHolds, CountsFit, Live
  <2> QED
    BY <2>3, <2>4, <2>5
<1> QED
  BY <1>2, <1>3, <1>4

\* A commit preserves the invariant.
LEMMA CommitInv ==
  ASSUME IInv, NEW r \in Reqs, Commit(r)
  PROVE  IInv'
<1> DEFINE a == req[r].acct
<1>1. /\ TypeOK /\ TypeOK' /\ req'[r] = Idle
      /\ \A q \in Reqs \ {r} : req'[q] = req[q]
      /\ req[r] \in Request /\ a \in Accounts /\ req[r].stage = "written"
  BY CommitType DEF IInv, TypeOK, Request, Commit
<1>2. req'[r].stage = "idle"
  BY <1>1 DEF Idle
<1>3. \A b \in Accounts \ {a} :
        /\ life'[b] = life[b] /\ row'[b] = row[b] /\ checks'[b] = checks[b]
        /\ tested'[b] = tested[b] /\ switch'[b] = switch[b] /\ found'[b] = found[b]
        /\ \A k \in {"switch", "test"} : <<b, k>> \in stale' <=> <<b, k>> \in stale
  BY <1>1, CommitElsewhere
<1>4. SwitchHolds'
  <2>1. ASSUME NEW b \in Accounts \ {a}, life'[b] = "row", <<b, "switch">> \notin stale'
        PROVE  row'[b].active = (switch'[b] = "reactivate") /\ row'[b].off = ~row'[b].active
    BY <1>3, <2>1 DEF IInv, SwitchHolds, Live
  <2> QED
    BY <2>1, CommitHere DEF SwitchHolds, Live
<1>5. VerificationHolds'
  <2>1. ASSUME NEW b \in Accounts \ {a}, life'[b] = "row", <<b, "test">> \notin stale'
        PROVE  row'[b].status = found'[b]
    BY <1>3, <2>1 DEF IInv, VerificationHolds, Live
  <2> QED
    BY <2>1, CommitHere DEF VerificationHolds, Live
<1>6. CountsFit'
  <2>1. ASSUME NEW b \in Accounts \ {a}
        PROVE  IF life'[b] = "deleted" THEN checks'[b] = 0 ELSE checks'[b] = tested'[b]
    BY <1>3, <2>1 DEF IInv, CountsFit
  <2> QED
    BY <2>1, CommitHere DEF CountsFit
<1>8. LockedOnce'
  <2>1. \A q \in Reqs : Locks(q)' => q # r /\ Locks(q) /\ req'[q] = req[q]
    BY <1>1, <1>2 DEF Locks
  <2> QED
    BY <2>1 DEF IInv, LockedOnce
<1>9. life' = life \/ Connects(r) \/ req[r].op = "delete"
  BY DEF Commit, LifeAfter
<1>10. ConnectsFresh'
  <2> SUFFICES ASSUME NEW q \in Reqs, ~Over(q)', req'[q].op = "connect"
               PROVE  /\ life'[req'[q].acct] = "none"
                      /\ \A p \in Reqs \ {q} :
                           ~Over(p)' /\ req'[p].op = "connect" => req'[p].acct # req'[q].acct
    BY DEF ConnectsFresh
  <2>1. q # r /\ req'[q] = req[q] /\ ~Over(q) /\ req[q].acct \in Accounts
    BY <1>1, <1>2 DEF Over, TypeOK, Request
  <2>2. /\ life[req[q].acct] = "none"
        /\ \A p \in Reqs \ {q} :
             ~Over(p) /\ req[p].op = "connect" => req[p].acct # req[q].acct
    BY <2>1 DEF IInv, ConnectsFresh
  <2>6. ASSUME NEW p \in Reqs \ {q}, ~Over(p)', req'[p].op = "connect"
        PROVE  req'[p].acct # req'[q].acct
    BY <1>1, <1>2, <2>1, <2>2, <2>6 DEF Over
  <2>7. life'[req[q].acct] = life[req[q].acct] => life'[req'[q].acct] = "none"
    BY <2>1, <2>2
  <2>3. CASE Connects(r)
    <3>1. req[q].acct # a
      BY <1>1, <2>1, <2>2, <2>3 DEF Connects, Over
    <3> QED
      BY <1>3, <2>1, <2>6, <2>7, <3>1
  <2>4. CASE req[r].op = "delete"
    <3>1. life[a] # "none"
      BY <1>1, <2>4 DEF IInv, RowsRead, OnRow
    <3> QED
      BY <1>3, <2>1, <2>2, <2>6, <2>7, <3>1
  <2>5. CASE life' = life
    BY <2>5, <2>6, <2>7
  <2> QED
    BY <1>9, <2>3, <2>4, <2>5
<1>11. \A q \in Reqs \ {r} : Updated(q)' = Updated(q)
  BY <1>1 DEF Updated, Assigned
<1>12. WrittenFits'
  <2> SUFFICES ASSUME NEW q \in Reqs, req'[q].stage = "written"
               PROVE  req'[q].cols = Updated(q)' /\ (req'[q].cols # {} => Live(req[q].acct)')
    BY DEF WrittenFits
  <2>1. /\ q # r /\ req'[q] = req[q] /\ req[q].acct \in Accounts
        /\ req[q].cols = Updated(q) /\ (req[q].cols # {} => Live(req[q].acct))
    BY <1>1, <1>2 DEF IInv, WrittenFits, TypeOK, Request
  <2>2. ASSUME req[q].cols # {}
        PROVE  life'[req[q].acct] = "row"
    <3>1. CASE Connects(r)
      BY <1>1, <1>3, <2>1, <2>2, <3>1 DEF IInv, ConnectsFresh, Connects, Over, Live
    <3>2. CASE req[r].op = "delete"
      <4>1. req[q].acct # a
        BY <1>1, <2>1, <2>2, <3>2 DEF IInv, LockedOnce, Locks
      <4> QED
        BY <1>3, <2>1, <2>2, <4>1 DEF Live
    <3> QED
      BY <1>9, <2>1, <2>2, <3>1, <3>2 DEF Live
  <2> QED
    BY <1>11, <2>1, <2>2 DEF Live
<1>13. RowsRead'
  <2>1. \A b \in Accounts : life[b] # "none" => life'[b] # "none"
    BY <1>1 DEF TypeOK, Commit, LifeAfter
  <2> QED
    <3>1. ASSUME NEW q \in Reqs,
                 req'[q].stage \in {"calling", "flush", "written"}, req'[q].op \in OnRow
          PROVE  life'[req'[q].acct] # "none"
      <4>1. q # r /\ req'[q] = req[q]
        BY <1>1, <1>2, <3>1
      <4>2. req[q].acct \in Accounts
        BY <1>1 DEF TypeOK, Request
      <4>3. life[req[q].acct] # "none"
        BY <3>1, <4>1 DEF IInv, RowsRead
      <4> QED
        BY <2>1, <4>1, <4>2, <4>3
    <3> QED
      BY <3>1 DEF RowsRead
<1> QED
  BY <1>1, <1>4, <1>5, <1>6, <1>8, <1>10, <1>12, <1>13 DEF IInv

\* Every step preserves the invariant, and what is deleted stays so.
LEMMA NextInv ==
  ASSUME IInv, [Next]_vars
  PROVE  /\ IInv'
         /\ \A a \in Accounts : life[a] = "deleted" => life'[a] = "deleted" /\ checks'[a] = 0
<1>1. CASE UNCHANGED vars
  <2>1. \A r \in Reqs : Updated(r)' = Updated(r)
    BY <1>1 DEF vars, Updated, Assigned
  <2> QED
    BY <1>1, <2>1
    DEF vars, tables, IInv, TypeOK, ConnectsFresh, LockedOnce, Locks, WrittenFits, RowsRead,
        CountsFit, SwitchHolds, VerificationHolds, Live, Over
<1>2. ASSUME NEW r \in Reqs, BeforeCommit(r)
      PROVE  IInv' /\ life' = life
  BY <1>2, BeforeCommitInv, BeforeCommitType DEF IInv, tables
<1>3. ASSUME NEW r \in Reqs, Commit(r)
      PROVE  IInv' /\ \A a \in Accounts : life[a] = "deleted" => life'[a] = "deleted"
  <2>1. \A a \in Accounts : a # req[r].acct => life'[a] = life[a]
    BY <1>3, CommitElsewhere DEF IInv
  <2> QED
    BY <1>3, <2>1, CommitInv, CommitHere
<1>4. IInv' /\ \A a \in Accounts : life[a] = "deleted" => life'[a] = "deleted"
  BY <1>1, <1>2, <1>3 DEF Next, Handle, BeforeCommit, vars, tables
<1> QED
  BY <1>4 DEF IInv, CountsFit

\* The invariant holds throughout.
LEMMA Inductive == Spec => []IInv
<1>1. IInv /\ [Next]_vars => IInv'
  BY NextInv
<1> QED
  BY InitInv, <1>1, PTL DEF Spec

\* Every reachable state has its types: requests, rows, calls and the pool.
THEOREM TypeCorrect == Spec => []TypeOK
<1>1. IInv => TypeOK
  BY DEF IInv
<1> QED
  BY <1>1, Inductive, PTL

\* A switch of an account stays as it was last set, whatever tests overlap it, as long
\* as no other switch outdated it (api/broker.py, deactivate and reactivate).
THEOREM SwitchKept == Spec => []SwitchHolds
<1>1. IInv => SwitchHolds
  BY DEF IInv
<1> QED
  BY <1>1, Inductive, PTL

\* The status of an account is that of its last test, whatever switches overlap it
\* (brokers/credential_store.py, verify_stored_credentials).
THEOREM VerificationKept == Spec => []VerificationHolds
<1>1. IInv => VerificationHolds
  BY DEF IInv
<1> QED
  BY <1>1, Inductive, PTL

\* A test of an account leaves a health check and an audit row, or neither.
THEOREM ChecksAreAudited == Spec => []ChecksAudited
<1>1. IInv => ChecksAudited
  BY DEF IInv, CountsFit, ChecksAudited, Live
<1> QED
  BY <1>1, Inductive, PTL

\* No request brings an account back that was deleted after it read it.
THEOREM DeletionIsFinal == Spec => DeletedStaysDeleted
<1> DEFINE Kept == \A a \in Accounts :
                     life[a] = "deleted" => life'[a] = "deleted" /\ checks'[a] = 0
<1>1. IInv /\ [Next]_vars => [Kept]_vars
  BY NextInv
<1>2. Spec => [][Kept]_vars
  BY <1>1, Inductive, PTL DEF Spec
<1> QED
  BY <1>2 DEF DeletedStaysDeleted
-----------------------------------------------------------------------------
\* A request has a call open exactly while it waits for it.
CallFits == \A r \in Reqs : call[r] # "none" <=> req[r].stage = "calling"

LEMMA CallInit == Init => CallFits
BY DEF Init, Broker!Init, CallFits, Idle

\* Each step of a handler is a step of its call, or none.
LEMMA CallStep ==
  ASSUME TypeOK, CallFits, NEW r \in Reqs, Step(r)
  PROVE  CallFits' /\ [Broker!Next]_call
<1>0. /\ req \in [Reqs -> Request] /\ call \in [Reqs -> {"none", "asked"} \union Broker!Outcomes]
      /\ Idle.stage = "idle"
  BY DEF TypeOK, Idle
<1>1. ASSUME call' = call, req[r].stage # "calling", req'[r].stage # "calling",
             \A q \in Reqs \ {r} : req'[q] = req[q]
      PROVE  CallFits' /\ [Broker!Next]_call
  BY <1>1 DEF CallFits
<1>2. ASSUME NEW op \in Ops, NEW u \in Users, NEW a \in Accounts, Begin(r, op, u, a)
      PROVE  CallFits' /\ [Broker!Next]_call
  BY <1>0, <1>1, <1>2 DEF Begin, Ended, Over, Request
<1>3. CASE \/ Checkout(r) \/ CheckoutTimesOut(r) \/ Refuse(r) \/ Flush(r) \/ FlushFails(r)
           \/ Abort(r)
  BY <1>0, <1>1, <1>3
  DEF Checkout, CheckoutTimesOut, Refuse, Flush, FlushFails, AfterStale, Abort, Ended,
      Request
<1>4. CASE Commit(r)
  BY <1>0, <1>1, <1>4 DEF Commit, Ended
<1>5. CASE Load(r)
  <2>1. /\ req[r].stage = "begun" /\ \A q \in Reqs \ {r} : req'[q] = req[q]
        /\ req'[r].stage = IF AsksBroker(r) THEN "calling" ELSE "flush"
    BY <1>0, <1>5 DEF Load, Request
  <2>2. CASE AsksBroker(r)
    <3>1. Broker!Ask(r)
      BY <1>5, <2>2 DEF Load
    <3>2. call' = [call EXCEPT ![r] = "asked"]
      BY <3>1 DEF Broker!Ask
    <3>3. CallFits'
      BY <1>0, <2>1, <2>2, <3>2 DEF CallFits
    <3> QED
      BY <3>1, <3>3 DEF Broker!Next
  <2>3. CASE ~AsksBroker(r)
    <3>1. call' = call /\ req'[r].stage = "flush"
      BY <1>5, <2>1, <2>3 DEF Load
    <3> QED
      BY <1>1, <2>1, <3>1
  <2> QED
    BY <2>2, <2>3
<1>6. CASE BrokerAnswers(r)
  <2>1. PICK o \in Broker!Outcomes : Broker!Reply(r, o) /\ req' = req
    BY <1>6 DEF BrokerAnswers, Broker!Answer
  <2>2. call[r] = "asked" /\ call' = [call EXCEPT ![r] = o]
    BY <2>1 DEF Broker!Reply
  <2>3. CASE o # "none"
    BY <1>0, <1>6, <2>1, <2>2, <2>3 DEF CallFits, Broker!Next, BrokerAnswers
  <2> QED
    BY <2>3, FailuresAssumption DEF Broker!Outcomes
<1>7. CASE Resume(r)
  <2>1. Broker!Release(r) /\ req[r].stage = "calling"
    BY <1>7 DEF Resume
  <2>2. call' = [call EXCEPT ![r] = "none"]
    BY <2>1 DEF Broker!Release
  <2>3. req'[r].stage # "calling" /\ \A q \in Reqs \ {r} : req'[q] = req[q]
    BY <1>0, <1>7 DEF Resume, Ended, Request
  <2>4. CallFits'
    BY <1>0, <2>2, <2>3 DEF CallFits
  <2> QED
    BY <2>1, <2>4 DEF Broker!Next
<1> QED
  BY <1>2, <1>3, <1>4, <1>5, <1>6, <1>7 DEF Step, Handle

LEMMA CallsInvariant == Spec => [](TypeOK /\ CallFits)
<1>1. IInv /\ CallFits /\ [Next]_vars => CallFits'
  <2>1. UNCHANGED vars /\ CallFits => CallFits'
    BY DEF vars, CallFits
  <2> QED
    BY <2>1, CallStep DEF IInv, Next, Step
<1>2. IInv => TypeOK
  BY DEF IInv
<1> QED
  BY <1>1, <1>2, CallInit, Inductive, PTL DEF Spec

\* The handlers call a broker as BrokerCall allows (brokers/base.py): one call at a time,
\* each answered before the handler goes on.  The adapters take the same steps
\* (BrokerAdapters_proofs, CallSteps).
THEOREM BrokerUsedAsPromised == Spec => Broker!Init /\ [][Broker!Next]_call /\ []CallFits
<1>1. Init => Broker!Init
  BY DEF Init
<1>2. TypeOK /\ CallFits /\ [Next]_vars => [Broker!Next]_call
  <2>1. UNCHANGED vars => UNCHANGED call
    BY DEF vars
  <2> QED
    BY <2>1, CallStep DEF Next, Step
<1> QED
  BY <1>1, <1>2, CallsInvariant, PTL DEF Spec
=============================================================================
