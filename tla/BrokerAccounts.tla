---------------------------- MODULE BrokerAccounts ----------------------------
(***************************************************************************)
(* The handlers of backend/app/api/broker.py over the tables               *)
(* broker_accounts and broker_health_checks.                               *)
(*                                                                         *)
(* A handler takes a connection of the pool with its first statement and   *)
(* keeps it until its transaction ends, also while it waits for a broker.  *)
(* It reads the account once.  SQLAlchemy's UPDATE then names only the     *)
(* columns whose value differs from the one that was read, and fails when  *)
(* it matches no row.                                                      *)
(*                                                                         *)
(* Of a row the columns that change are kept, of a time whether it is set. *)
(* The broker is BrokerCall, which the adapters implement.                 *)
(***************************************************************************)
EXTENDS FiniteSets, Naturals

CONSTANTS
  Users,
  Viewers,     \* those with the role VIEWER
  Accounts,    \* the ids that may be drawn
  Reqs,        \* requests that may be in progress at the same time
  Failures,    \* the outcomes of a call that are no success, for last_test_status
  PoolSizes,   \* pool_size + max_overflow of the deployments considered
  MaxChecks    \* bound: health checks of one account

ASSUME PoolAssumption     == PoolSizes \subseteq Nat \ {0}
ASSUME ChecksAssumption   == MaxChecks \in Nat
ASSUME ReqsAssumption     == IsFiniteSet(Reqs)
ASSUME SomeAssumption     == Users # {} /\ Accounts # {}
ASSUME FailuresAssumption == {"none", "asked"} \intersect Failures = {}

VARIABLES
  pool,     \* connections of the pool
  life,     \* life[a]: no row yet, a row, or a row that was deleted
  row,      \* row[a]: the broker_accounts row
  checks,   \* checks[a]: its broker_health_checks rows
  tested,   \* tested[a]: broker.test_stored rows of audit_log for it
  switch,   \* history: the last switch of a that wrote
  found,    \* history: what the last committed test of a found
  stale,    \* history: <<a, op>>: the last such write came from an outdated image
  call,     \* call[r]: the call of r to a broker
  req       \* req[r]: the state of request r

tables == <<life, row, checks, tested, switch, found, stale>>
vars   == <<pool, tables, call, req>>

Broker == INSTANCE BrokerCall WITH Calls <- Reqs, Failures <- Failures

Reads    == {"list", "read"}
Switches == {"deactivate", "reactivate"}
Ops      == Reads \union Switches \union {"test", "connect", "test_stored", "delete"}
OnRow    == {"read", "test_stored", "delete"} \union Switches
Columns  == {"active", "off", "status", "last_tested_at"}
Statuses == {"success"} \union Failures

\* off: deactivated_at is set.  status: last_test_status.
Row       == [owner: Users, active: BOOLEAN, off: BOOLEAN, status: Statuses]
NewRow(u) == [owner |-> u, active |-> TRUE, off |-> FALSE, status |-> "success"]
AnyRow     == NewRow(CHOOSE u \in Users : TRUE)
AnyAccount == CHOOSE a \in Accounts : TRUE

(***************************************************************************)
(* Stages: queued (wants a connection), begun (has one), calling (waits    *)
(* for the broker), flush (about to write), written (flushed).             *)
(***************************************************************************)
Stages  == {"idle", "queued", "begun", "calling", "flush", "written"}

Request == [stage: Stages, op: Ops, user: Users, acct: Accounts, image: Row,
            status: Statuses, cols: SUBSET Columns]

Idle == [stage |-> "idle", op |-> "list", user |-> AnyRow.owner, acct |-> AnyAccount,
         image |-> AnyRow, status |-> "success", cols |-> {}]

Holding   == {r \in Reqs : req[r].stage \in {"begun", "calling", "flush", "written"}}
Live(a)   == life[a] = "row"
Over(r)   == req[r].stage = "idle"
Mine(r,a) == req[r].acct = a

\* Held by a transaction that changed the row and has not ended.
LockedFor(r) ==
  \E q \in Reqs \ {r} :
    /\ req[q].stage = "written" /\ Mine(q, req[r].acct)
    /\ (req[q].op = "delete" \/ req[q].cols # {})

Reserved(a) == \E r \in Reqs : ~Over(r) /\ req[r].op = "connect" /\ Mine(r, a)

Init ==
  /\ pool \in PoolSizes
  /\ life   = [a \in Accounts |-> "none"]
  /\ row    = [a \in Accounts |-> AnyRow]
  /\ checks = [a \in Accounts |-> 0]
  /\ tested = [a \in Accounts |-> 0]
  /\ switch = [a \in Accounts |-> "reactivate"]
  /\ found  = [a \in Accounts |-> "success"]
  /\ stale  = {}
  /\ Broker!Init
  /\ req    = [r \in Reqs |-> Idle]

\* The transaction is over and the connection is back in the pool.
Ended(r) == [req EXCEPT ![r] = Idle]
-----------------------------------------------------------------------------
Begin(r, op, u, a) ==
  /\ Over(r)
  /\ op = "connect" => life[a] = "none" /\ ~Reserved(a)
  /\ op = "test_stored" => checks[a] < MaxChecks
  /\ req' = [req EXCEPT ![r].stage = "queued", ![r].op = op, ![r].user = u, ![r].acct = a]
  /\ UNCHANGED <<pool, tables, call>>

\* The first statement is that of get_current_user.
Checkout(r) ==
  /\ req[r].stage = "queued" /\ Cardinality(Holding) < pool
  /\ req' = [req EXCEPT ![r].stage = "begun"]
  /\ UNCHANGED <<pool, tables, call>>

\* QueuePool gives up after pool_timeout.
CheckoutTimesOut(r) ==
  /\ req[r].stage = "queued" /\ Cardinality(Holding) >= pool
  /\ req' = Ended(r)
  /\ UNCHANGED <<pool, tables, call>>

MayManage(r) == req[r].user \notin Viewers
Owned(r)     == Live(req[r].acct) /\ row[req[r].acct].owner = req[r].user

\* _require_writer, which the two reads do not call; _load_owned_or_404.
Refuse(r) ==
  /\ req[r].stage = "begun"
  /\ \/ req[r].op \notin Reads /\ ~MayManage(r) /\ req' = Ended(r)
     \/ /\ req[r].op \in Reads \/ MayManage(r)
        /\ req[r].op \in OnRow /\ ~Owned(r) /\ req' = Ended(r)
  /\ UNCHANGED <<pool, tables, call>>

\* The account is read; a test, a connect and the read of an active account go on to
\* ask the broker.
AsksBroker(r) ==
  \/ req[r].op \in {"test", "connect", "test_stored"}
  \/ req[r].op = "read" /\ row[req[r].acct].active

\* Of the image only the columns are kept that the request will assign.
Image(r) ==
  LET now == row[req[r].acct] IN
  CASE req[r].op \in Switches     -> [now EXCEPT !.status = AnyRow.status]
    [] req[r].op = "test_stored" -> [AnyRow EXCEPT !.status = now.status]
    [] OTHER                     -> AnyRow

Load(r) ==
  /\ req[r].stage = "begun"
  /\ req[r].op \in Reads \/ MayManage(r)
  /\ req[r].op \in OnRow => Owned(r)
  /\ req' = [req EXCEPT ![r].stage = IF AsksBroker(r) THEN "calling" ELSE "flush",
                        ![r].image = Image(r)]
  /\ IF AsksBroker(r) THEN Broker!Ask(r) ELSE UNCHANGED call
  /\ UNCHANGED <<pool, tables>>

BrokerAnswers(r) == Broker!Answer(r) /\ UNCHANGED <<pool, tables, req>>

\* An exception that is not a BrokerError leaves the handler.  A broker that said no
\* is an answer, of a connect a refusal.
Escapes(outcome) == outcome = "raised"

Resume(r) ==
  /\ req[r].stage = "calling" /\ call[r] \in Broker!Outcomes
  /\ Broker!Release(r)
  /\ IF Escapes(call[r])
       THEN req' = Ended(r)
       ELSE req' = [req EXCEPT ![r].stage = "flush",
                               ![r].status = IF req[r].op \in {"connect", "test_stored"}
                                               THEN call[r] ELSE @]
  /\ UNCHANGED <<pool, tables>>
-----------------------------------------------------------------------------
(* The writes.                                                             *)

\* The attributes the handler assigned to the row it read.
Assigned(r) ==
  LET image == req[r].image IN
  CASE req[r].op = "deactivate"  -> [image EXCEPT !.active = FALSE, !.off = TRUE]
    [] req[r].op = "reactivate"  -> [image EXCEPT !.active = TRUE, !.off = FALSE]
    [] req[r].op = "test_stored" -> [image EXCEPT !.status = req[r].status]
    [] OTHER                     -> image

\* A new time always differs from the one before.
Stamped(op) ==
  CASE op = "deactivate" -> {"off"} [] op = "test_stored" -> {"last_tested_at"} [] OTHER -> {}

\* Mutant of Updated: the whole image is written back.
UpdatedWhole(r) == IF req[r].op \in Switches \union {"test_stored"} THEN Columns ELSE {}

\* The columns of the UPDATE.
Updated(r) ==
  {c \in DOMAIN req[r].image : Assigned(r)[c] # req[r].image[c]} \union Stamped(req[r].op)

\* Mutant of Matches: the row is merged, which inserts a missing one.
MatchesAlways(r) == TRUE

\* An UPDATE of no row raises StaleDataError; a DELETE of no row is a warning.
Matches(r) == Updated(r) = {} \/ Live(req[r].acct)

CanLock(r) == Updated(r) # {} \/ req[r].op = "delete" => ~LockedFor(r)

Flush(r) ==
  /\ req[r].stage = "flush" /\ CanLock(r) /\ Matches(r)
  /\ req' = [req EXCEPT ![r].stage = "written", ![r].cols = Updated(r)]
  /\ UNCHANGED <<pool, tables, call>>

\* Mutant of AfterStale: the flush is tried again with the same image.
Retried(r) == req

AfterStale(r) == Ended(r)

FlushFails(r) ==
  /\ req[r].stage = "flush" /\ CanLock(r) /\ ~Matches(r)
  /\ req' = AfterStale(r)
  /\ UNCHANGED <<pool, tables, call>>

\* A statement fails: nothing of the transaction stays.
Abort(r) ==
  /\ req[r].stage \in {"begun", "flush", "written"}
  /\ req' = Ended(r)
  /\ UNCHANGED <<pool, tables, call>>

Connects(r) == req[r].op = "connect" /\ req[r].status = "success"

RowAfter(r) ==
  LET a == req[r].acct IN
  IF Connects(r) THEN [row EXCEPT ![a] = NewRow(req[r].user)]
  ELSE IF req[r].op = "delete" THEN [row EXCEPT ![a] = AnyRow]
  ELSE [row EXCEPT ![a] = [c \in DOMAIN @ |->
          IF c \in req[r].cols THEN Assigned(r)[c] ELSE @[c]]]

LifeAfter(r) ==
  CASE Connects(r)            -> [life EXCEPT ![req[r].acct] = "row"]
    [] req[r].op = "delete"   -> [life EXCEPT ![req[r].acct] = "deleted"]
    [] OTHER                  -> life

\* One more by a test, none of a deleted account: ON DELETE CASCADE.
ChecksAfter(r) ==
  CASE req[r].op = "test_stored" -> [checks EXCEPT ![req[r].acct] = @ + 1]
    [] req[r].op = "delete"      -> [checks EXCEPT ![req[r].acct] = 0]
    [] OTHER                     -> checks

\* Mutant of TestedAfter: a test that failed is not audited.
TestedIfSuccess(r) ==
  IF req[r].op = "test_stored" /\ req[r].status = "success"
    THEN [tested EXCEPT ![req[r].acct] = @ + 1] ELSE tested

TestedAfter(r) ==
  IF req[r].op = "test_stored" THEN [tested EXCEPT ![req[r].acct] = @ + 1] ELSE tested

\* The columns an operation is about were changed by another one since they were read.
Outdated(r) ==
  LET now == row[req[r].acct]  image == req[r].image IN
  IF req[r].op = "test_stored" THEN now.status # image.status
  ELSE <<now.active, now.off>> # <<image.active, image.off>>

Remember(r) ==
  LET a == req[r].acct  kind == IF req[r].op = "test_stored" THEN "test" ELSE "switch" IN
  /\ switch' = CASE Connects(r) \/ req[r].op = "delete"
                              -> [switch EXCEPT ![a] = "reactivate"]
                 [] req[r].op \in Switches /\ req[r].cols # {}
                              -> [switch EXCEPT ![a] = req[r].op]
                 [] OTHER     -> switch
  /\ found' = IF Connects(r) \/ req[r].op \in {"test_stored", "delete"}
                THEN [found EXCEPT ![a] = req[r].status] ELSE found
  /\ stale' = IF req[r].op = "delete" THEN stale \ ({a} \X {"switch", "test"})
              ELSE IF req[r].cols = {} THEN stale
              ELSE IF Outdated(r)      THEN stale \union {<<a, kind>>}
              ELSE stale \ {<<a, kind>>}

\* get_session commits on return, and also when the refusal of a connect is raised: of
\* that only the audit row stays, which is not kept here.
Commit(r) ==
  /\ req[r].stage = "written"
  /\ req' = Ended(r)
  /\ row' = RowAfter(r) /\ life' = LifeAfter(r)
  /\ checks' = ChecksAfter(r) /\ tested' = TestedAfter(r)
  /\ Remember(r)
  /\ UNCHANGED <<pool, call>>
-----------------------------------------------------------------------------
Handle(r) ==
  \/ Checkout(r) \/ CheckoutTimesOut(r) \/ Refuse(r) \/ Load(r) \/ BrokerAnswers(r)
  \/ Resume(r) \/ Flush(r) \/ FlushFails(r) \/ Commit(r)

Next ==
  \E r \in Reqs :
    \/ \E op \in Ops, u \in Users, a \in Accounts : Begin(r, op, u, a)
    \/ Handle(r) \/ Abort(r)

\* Handlers run, brokers answer (BrokerAdapters!ImplementsCall), and PostgreSQL hands
\* a row lock to those who wait for it in turn.  No failure is assumed to happen.
Fairness == \A r \in Reqs : WF_vars(Handle(r)) /\ SF_vars(Flush(r) \/ FlushFails(r))

Spec == Init /\ [][Next]_vars /\ Fairness
-----------------------------------------------------------------------------
TypeOK ==
  /\ pool \in PoolSizes /\ life \in [Accounts -> {"none", "row", "deleted"}]
  /\ row \in [Accounts -> Row] /\ checks \in [Accounts -> Nat] /\ tested \in [Accounts -> Nat]
  /\ switch \in [Accounts -> Switches] /\ found \in [Accounts -> Statuses]
  /\ stale \subseteq Accounts \X {"switch", "test"}
  /\ call \in [Reqs -> {"none", "asked"} \union Broker!Outcomes]
  /\ req \in [Reqs -> Request]

\* README.md:303-304: an account is off after a deactivation and on after a
\* reactivation, whatever tests overlapped it, unless that switch itself came from an
\* image another switch had outdated.
SwitchHolds ==
  \A a \in Accounts :
    Live(a) /\ <<a, "switch">> \notin stale =>
      /\ row[a].active = (switch[a] = "reactivate")
      /\ row[a].off = ~row[a].active

\* The status beside last_tested_at is that of the last test, whatever switches
\* overlapped it, unless another test had changed it since this one read it.
VerificationHolds ==
  \A a \in Accounts : Live(a) /\ <<a, "test">> \notin stale => row[a].status = found[a]

\* Every stored test that is committed left a health check and an audit row.
ChecksAudited == \A a \in Accounts : Live(a) => checks[a] = tested[a]

\* README.md:305 "Hard delete (cascades health checks)": no request that read the
\* account earlier brings it or a health check of it back.
DeletedStaysDeleted ==
  [][\A a \in Accounts : life[a] = "deleted" => life'[a] = "deleted" /\ checks'[a] = 0]_vars

\* Every request ends, also when all connections wait for brokers.
EveryRequestEnds == \A r \in Reqs : req[r].stage = "queued" ~> Over(r)
=============================================================================
