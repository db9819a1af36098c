---------------------------- MODULE Transactions ----------------------------
(***************************************************************************)
(* The transaction endpoint of PANOPTICON (prog6): process_transaction,    *)
(* the idempotency store in Redis, the statistics and location caches and  *)
(* the shared PostgreSQL pool.  A request holds one pool connection from   *)
(* Connect to its commit or rollback; the tasks it gathers ask the same    *)
(* pool for more.  asyncio.gather does not cancel the other tasks when one *)
(* fails, so tasks outlive their request.                                  *)
(*                                                                         *)
(* A row of the table is named by the request that inserts it.  The scores *)
(* and rules behind a decision are module RuleEngine's.                    *)
(***************************************************************************)
EXTENDS Integers, FiniteSets, Sequences

CONSTANTS
    Requests,           \* calls of the endpoint, retries included
    Past,               \* those answered 200 before the behaviour begins
    Keys,               \* idempotency keys
    Users, KnownUsers,  \* the user ids in use, and those with a row in users
    Merchants,
    Scenarios,          \* assignments of the arguments to the requests
    PoolSize,           \* DATABASE_POOL_MAX_SIZE
    StatsTTL,           \* HistoricalContext.cache_ttl
    PlaceTTL,           \* SpatialContext.cache_ttl
    NoRow,
    MaxClock,           \* bound: seconds explored
    MaxEvents           \* bound: administrative calls, health checks,
                        \* expired responses and restarts together

ASSUME TransactionsAssumption ==
    /\ KnownUsers \subseteq Users /\ Past \subseteq Requests
    /\ NoRow \notin Requests
    /\ PoolSize \in Nat \ {0} /\ StatsTTL \in Nat \ {0}
    /\ {PlaceTTL, MaxClock, MaxEvents} \subseteq Nat
    /\ Scenarios \subseteq
         [Requests -> [key : Keys, user : Users, merchant : Merchants, stamp : Nat]]
    /\ \A c \in Scenarios : \A r, o \in Past : c[r].key = c[o].key => r = o

VARIABLES
    call,               \* the arguments of every request
    pc, code, reply,    \* request: where it is, its status code, the row its 200 describes
    stats, travel, merchant,  \* request: its three gathered tasks
    committed,          \* table transactions: the committed rows
    responses,          \* Redis: key -> row of the stored response
    merchants,          \* Redis: user -> merchants in the HyperLogLog
    stats_cache, location_cache,
    replaced,           \* table users: user -> times its risk score was replaced
    office,             \* the administrative call or health check under way
    clock, events

requestVars == <<pc, code, reply>>
taskVars == <<stats, travel, merchant>>
cacheVars == <<stats_cache, location_cache>>
redisVars == <<responses, merchants>>
boundVars == <<clock, events>>
vars == <<call, requestVars, taskVars, committed, redisVars, cacheVars, replaced, office, boundVars>>

User(r) == call[r].user
Key(r) == call[r].key
Stamp(r) == call[r].stamp
Risk(u) == Len(replaced[u])     \* the version of u's risk score

NoStats == [at |-> "none"]
NoTravel == [at |-> "none"]
NoStatsCache == [since |-> -1]
NoPlace == [row |-> NoRow]
Idle == [op |-> "idle"]

Init ==
    /\ call \in Scenarios
    /\ pc = [r \in Requests |-> IF r \in Past THEN "done" ELSE "idle"]
    /\ code = [r \in Requests |-> IF r \in Past THEN 200 ELSE 0]
    /\ reply = [r \in Requests |-> IF r \in Past THEN r ELSE NoRow]
    /\ stats = [r \in Requests |-> NoStats]
    /\ travel = [r \in Requests |-> NoTravel]
    /\ merchant = [r \in Requests |-> "none"]
    /\ committed = Past
    /\ responses = [k \in Keys |-> IF \E r \in Past : Key(r) = k
                                   THEN CHOOSE r \in Past : Key(r) = k ELSE NoRow]
    /\ merchants = [u \in Users |-> {call[r].merchant : r \in {o \in Past : User(o) = u}}]
    /\ stats_cache = [u \in Users |-> NoStatsCache]
    /\ location_cache = [u \in Users |-> NoPlace]
    /\ replaced = [u \in Users |-> <<>>]
    /\ office = Idle
    /\ clock = 0 /\ events = 0

-----------------------------------------------------------------------------
(* The pool.                                                               *)

\* Requests inside `async with db_pool.acquire()` of process_transaction.
InTransaction == {"lock", "gather", "rules", "load", "insert", "commit"}

\* Mutation: the handler of UniqueViolationError keeps the connection.
OpenRefused == {r \in Requests : pc[r] \in InTransaction \/ code[r] = 409}

Open == {r \in Requests : pc[r] \in InTransaction}

StatsConnections == {r \in Requests : stats[r].at = "read"}

TravelConnections == {r \in Requests : travel[r].at = "read"}

RuleConnections == {r \in Requests : pc[r] = "load"}

Free ==
    PoolSize - (Cardinality(Open) + Cardinality(StatsConnections)
                + Cardinality(TravelConnections) + Cardinality(RuleConnections)
                + IF office.op \in {"update", "health"} THEN 1 ELSE 0)

-----------------------------------------------------------------------------
(* How a request ends.                                                     *)

\* The tasks that ended go with their request; those that still run stay.
Orphan(task, r) == IF task[r].at \in {"wait", "read"} THEN task
                   ELSE [task EXCEPT ![r] = [at |-> "none"]]

Respond(r, c, row) ==
    /\ pc' = [pc EXCEPT ![r] = "done"]
    /\ code' = [code EXCEPT ![r] = c]
    /\ reply' = [reply EXCEPT ![r] = row]

\* The handlers of LockNotAvailableError and Exception: the transaction is
\* rolled back, the connection released, the client told 500.
Fail(r) ==
    /\ Respond(r, 500, NoRow)
    /\ stats' = Orphan(stats, r)
    /\ travel' = Orphan(travel, r)
    /\ merchant' = [merchant EXCEPT ![r] = IF @ = "eval" THEN @ ELSE "none"]

Goto(r, where) ==
    /\ pc' = [pc EXCEPT ![r] = where]
    /\ UNCHANGED <<code, reply>>

-----------------------------------------------------------------------------
(* process_transaction.                                                    *)

get_response(k) == responses[k]

\* The first look at the idempotency store; its errors are outside the try.
Receive(r) ==
    /\ pc[r] = "idle"
    /\ \/ get_response(Key(r)) # NoRow /\ Respond(r, 200, get_response(Key(r)))
       \/ get_response(Key(r)) = NoRow /\ Goto(r, "acquire")
       \/ Respond(r, 500, NoRow)
    /\ UNCHANGED <<call, taskVars, committed, redisVars, cacheVars, replaced, office, boundVars>>

Connect(r) ==
    /\ pc[r] = "acquire"
    /\ Free > 0
    /\ Goto(r, "lock")
    /\ UNCHANGED <<call, taskVars, committed, redisVars, cacheVars, replaced, office, boundVars>>

\* pg_advisory_xact_lock of a user: held until the transaction ends.
LockHolders(u) == {r \in Open : pc[r] # "lock" /\ User(r) = u}

\* Mutation: the advisory lock is taken per key, not per user.
LockFreeByKey(r) == \A o \in Open : pc[o] # "lock" => Key(o) # Key(r)

LockFree(r) == LockHolders(User(r)) = {}

StatsFresh(u) ==
    /\ stats_cache[u] # NoStatsCache
    /\ clock - stats_cache[u].since < StatsTTL

PlaceFresh(u) ==
    /\ location_cache[u] # NoPlace
    /\ clock - location_cache[u].since < PlaceTTL

\* The part of get_user_statistics before its first await.
StartStats(r) ==
    IF StatsFresh(User(r))
    THEN [at |-> "ok", asked |-> clock, since |-> stats_cache[User(r)].since,
          risk |-> stats_cache[User(r)].risk]
    ELSE [at |-> "wait", asked |-> clock, since |-> clock, risk |-> 0]

\* The part of check_impossible_travel before its first await: a cached
\* place that is not earlier than this transaction means speed 0.
StartTravel(r) ==
    LET u == User(r) IN
    IF PlaceFresh(u)
    THEN [at |-> IF Stamp(r) <= Stamp(location_cache[u].row) THEN "ok" ELSE "wait",
          since |-> location_cache[u].since, from |-> "cache", row |-> location_cache[u].row]
    ELSE [at |-> "wait", since |-> clock, from |-> "table", row |-> NoRow]

\* The lock is granted; the three tasks start and run to their first await.
Lock(r) ==
    /\ pc[r] = "lock"
    /\ LockFree(r)
    /\ Goto(r, "gather")
    /\ stats' = [stats EXCEPT ![r] = StartStats(r)]
    /\ travel' = [travel EXCEPT ![r] = StartTravel(r)]
    /\ merchant' = [merchant EXCEPT ![r] = "eval"]
    /\ UNCHANGED <<call, committed, redisVars, cacheVars, replaced, office, boundVars>>

\* A command on the request's own connection or in load_rules fails or runs
\* into command_timeout.
CommandFails(r) ==
    /\ pc[r] \in {"lock", "load", "insert"}
    /\ Fail(r)
    /\ UNCHANGED <<call, committed, redisVars, cacheVars, replaced, office, boundVars>>

\* A gathered task raises: its request fails, unless it has failed before.
TaskFails(r, task) ==
    IF pc[r] = "gather"
    THEN /\ Respond(r, 500, NoRow)
         /\ stats' = IF task = "stats" THEN [stats EXCEPT ![r] = NoStats] ELSE Orphan(stats, r)
         /\ travel' = IF task = "travel" THEN [travel EXCEPT ![r] = NoTravel] ELSE Orphan(travel, r)
         /\ merchant' = [merchant EXCEPT ![r] = IF task # "merchant" /\ @ = "eval" THEN @ ELSE "none"]
    ELSE /\ stats' = IF task = "stats" THEN [stats EXCEPT ![r] = NoStats] ELSE stats
         /\ travel' = IF task = "travel" THEN [travel EXCEPT ![r] = NoTravel] ELSE travel
         /\ merchant' = IF task = "merchant" THEN [merchant EXCEPT ![r] = "none"] ELSE merchant
         /\ UNCHANGED requestVars

\* A task that ends after its request failed leaves nothing behind.
Ended(r, result) == IF pc[r] = "gather" THEN result ELSE [at |-> "none"]

-----------------------------------------------------------------------------
(* HistoricalContext.                                                      *)

StatsRead(r) ==
    /\ stats[r].at = "wait"
    /\ Free > 0
    /\ stats' = [stats EXCEPT ![r].at = "read", ![r].risk = Risk(User(r))]
    /\ UNCHANGED <<call, requestVars, travel, merchant, committed, redisVars, cacheVars, replaced, office, boundVars>>

\* Mutation: the cache entry is stamped with the time it is written.
StatsEntryLate(r) == [since |-> clock, risk |-> stats[r].risk]

StatsEntry(r) == [since |-> stats[r].since, risk |-> stats[r].risk]

StatsDone(r) ==
    /\ stats[r].at = "read"
    /\ User(r) \in KnownUsers
    /\ stats_cache' = [stats_cache EXCEPT ![User(r)] = StatsEntry(r)]
    /\ stats' = [stats EXCEPT ![r] = Ended(r, [@ EXCEPT !.at = "ok"])]
    /\ UNCHANGED <<call, requestVars, travel, merchant, committed, redisVars, location_cache, replaced, office, boundVars>>

\* A query fails; the INSERT of an unknown user always does (email is NOT NULL).
StatsFails(r) ==
    /\ stats[r].at = "read"
    /\ TaskFails(r, "stats")
    /\ UNCHANGED <<call, committed, redisVars, cacheVars, replaced, office, boundVars>>

-----------------------------------------------------------------------------
(* SpatialContext and RedisStore.                                          *)

\* The committed rows of r's user before r, and the latest of them.
Earlier(r) == {o \in committed : User(o) = User(r) /\ Stamp(o) < Stamp(r)}

Latest(r) == {o \in Earlier(r) : \A p \in Earlier(r) : Stamp(p) <= Stamp(o)}

\* The connection is there; without a cached place the last transaction is
\* fetched, and cached if there is one.
TravelRead(r) ==
    /\ travel[r].at = "wait"
    /\ Free > 0
    /\ IF travel[r].from = "cache" \/ Latest(r) = {}
       THEN /\ travel' = [travel EXCEPT ![r].at = "read"]
            /\ UNCHANGED location_cache
       ELSE \E o \in Latest(r) :
              /\ travel' = [travel EXCEPT ![r].at = "read", ![r].row = o]
              /\ location_cache' = [location_cache EXCEPT ![User(r)] =
                                       [row |-> o, since |-> travel[r].since]]
    /\ UNCHANGED <<call, requestVars, stats, merchant, committed, redisVars, stats_cache, replaced, office, boundVars>>

TravelDone(r) ==
    /\ travel[r].at = "read"
    /\ travel' = [travel EXCEPT ![r] = Ended(r, [@ EXCEPT !.at = "ok"])]
    /\ UNCHANGED <<call, requestVars, stats, merchant, committed, redisVars, cacheVars, replaced, office, boundVars>>

TravelFails(r) ==
    /\ travel[r].at = "read"
    /\ TaskFails(r, "travel")
    /\ UNCHANGED <<call, committed, redisVars, cacheVars, replaced, office, boundVars>>

\* The script adds the merchant whatever becomes of the transaction.
add_unique_merchant(r) ==
    /\ merchant[r] = "eval"
    /\ merchants' = [merchants EXCEPT ![User(r)] = @ \cup {call[r].merchant}]
    /\ merchant' = [merchant EXCEPT ![r] = IF pc[r] = "gather" THEN "ok" ELSE "none"]
    /\ UNCHANGED <<call, requestVars, stats, travel, committed, responses, cacheVars, replaced, office, boundVars>>

MerchantFails(r) ==
    /\ merchant[r] = "eval"
    /\ TaskFails(r, "merchant")
    /\ UNCHANGED <<call, committed, redisVars, cacheVars, replaced, office, boundVars>>

-----------------------------------------------------------------------------
(* process_transaction after the tasks.                                    *)

Gathered(r) == stats[r].at = "ok" /\ travel[r].at = "ok" /\ merchant[r] = "ok"

Gather(r) ==
    /\ pc[r] = "gather"
    /\ Gathered(r)
    /\ Goto(r, "rules")
    /\ UNCHANGED <<call, taskVars, committed, redisVars, cacheVars, replaced, office, boundVars>>

\* evaluate_all finds its rules in the cache, or asks the pool for a second
\* connection to load them.
CachedRules(r) ==
    /\ pc[r] = "rules"
    /\ Goto(r, "insert")
    /\ UNCHANGED <<call, taskVars, committed, redisVars, cacheVars, replaced, office, boundVars>>

ConnectRules(r) ==
    /\ pc[r] = "rules"
    /\ Free > 0
    /\ Goto(r, "load")
    /\ UNCHANGED <<call, taskVars, committed, redisVars, cacheVars, replaced, office, boundVars>>

LoadRules(r) ==
    /\ pc[r] = "load"
    /\ Goto(r, "insert")
    /\ UNCHANGED <<call, taskVars, committed, redisVars, cacheVars, replaced, office, boundVars>>

\* Mutation: a row that is not committed yet counts as a duplicate.
DuplicatePending(r) ==
    \E o \in Requests \ {r} : (o \in committed \/ pc[o] = "commit") /\ Key(o) = Key(r)

\* The UNIQUE constraint of idempotency_key: committed rows refuse the
\* insert, an uncommitted one makes it wait.
Duplicate(r) == \E o \in committed : Key(o) = Key(r)

\* Mutation: the insert does not wait for another's uncommitted row.
PendingIgnored(r) == FALSE

Pending(r) == \E o \in Requests \ {r} : pc[o] = "commit" /\ Key(o) = Key(r)

Insert(r) ==
    /\ pc[r] = "insert"
    /\ ~Duplicate(r) /\ ~Pending(r)
    /\ Goto(r, "commit")
    /\ UNCHANGED <<call, taskVars, committed, redisVars, cacheVars, replaced, office, boundVars>>

\* UniqueViolationError leaves the transaction.
InsertDuplicate(r) ==
    /\ pc[r] = "insert"
    /\ Duplicate(r)
    /\ Goto(r, "duplicate")
    /\ stats' = Orphan(stats, r)
    /\ travel' = Orphan(travel, r)
    /\ merchant' = [merchant EXCEPT ![r] = "none"]
    /\ UNCHANGED <<call, committed, redisVars, cacheVars, replaced, office, boundVars>>

Commit(r) ==
    /\ pc[r] = "commit"
    /\ committed' = committed \cup {r}
    /\ Goto(r, "store")
    /\ UNCHANGED <<call, taskVars, redisVars, cacheVars, replaced, office, boundVars>>

\* COMMIT raises; its effect may be there all the same.
CommitFails(r) ==
    /\ pc[r] = "commit"
    /\ committed' \in {committed, committed \cup {r}}
    /\ Fail(r)
    /\ UNCHANGED <<call, redisVars, cacheVars, replaced, office, boundVars>>

store_response(r) ==
    /\ pc[r] = "store"
    /\ responses' = [responses EXCEPT ![Key(r)] = r]
    /\ Respond(r, 200, r)
    /\ stats' = Orphan(stats, r)
    /\ travel' = Orphan(travel, r)
    /\ merchant' = [merchant EXCEPT ![r] = "none"]
    /\ UNCHANGED <<call, committed, merchants, cacheVars, replaced, office, boundVars>>

\* Serialisation or SETEX fails after the commit: the client sees 500.
StoreFails(r) ==
    /\ pc[r] = "store"
    /\ responses' \in {responses, [responses EXCEPT ![Key(r)] = r]}
    /\ Fail(r)
    /\ UNCHANGED <<call, committed, merchants, cacheVars, replaced, office, boundVars>>

\* The handler of UniqueViolationError.
AnswerDuplicate(r) ==
    /\ pc[r] = "duplicate"
    /\ \/ get_response(Key(r)) # NoRow /\ Respond(r, 200, get_response(Key(r)))
       \/ get_response(Key(r)) = NoRow /\ Respond(r, 409, NoRow)
       \/ Respond(r, 500, NoRow)
    /\ UNCHANGED <<call, taskVars, committed, redisVars, cacheVars, replaced, office, boundVars>>

-----------------------------------------------------------------------------
(* The other users of the pool and of the caches.                          *)

Event ==
    /\ events < MaxEvents
    /\ events' = events + 1

\* update_user_risk_score: a connection, the UPDATE, then the cache entry.
BeginUpdate(u) ==
    /\ office = Idle
    /\ Free > 0
    /\ Event
    /\ office' = [op |-> "update", user |-> u]
    /\ UNCHANGED <<call, requestVars, taskVars, committed, redisVars, cacheVars, replaced, clock>>

UpdateRisk ==
    /\ office.op = "update"
    /\ replaced' = [replaced EXCEPT ![office.user] = Append(@, clock)]
    /\ office' = [office EXCEPT !.op = "invalidate"]
    /\ UNCHANGED <<call, requestVars, taskVars, committed, redisVars, cacheVars, boundVars>>

Invalidate ==
    /\ office.op = "invalidate"
    /\ stats_cache' = [stats_cache EXCEPT ![office.user] = NoStatsCache]
    /\ office' = Idle
    /\ UNCHANGED <<call, requestVars, taskVars, committed, redisVars, location_cache, replaced, boundVars>>

\* health_check holds a connection for its SELECT 1.
BeginHealth ==
    /\ office = Idle
    /\ Free > 0
    /\ Event
    /\ office' = [op |-> "health"]
    /\ UNCHANGED <<call, requestVars, taskVars, committed, redisVars, cacheVars, replaced, clock>>

EndHealth ==
    /\ office.op = "health"
    /\ office' = Idle
    /\ UNCHANGED <<call, requestVars, taskVars, committed, redisVars, cacheVars, replaced, boundVars>>

Tick ==
    /\ clock < MaxClock
    /\ clock' = clock + 1
    /\ UNCHANGED <<call, requestVars, taskVars, committed, redisVars, cacheVars, replaced, office, events>>

\* A stored response expires or is evicted.
Forget(k) ==
    /\ Event
    /\ responses[k] # NoRow
    /\ responses' = [responses EXCEPT ![k] = NoRow]
    /\ UNCHANGED <<call, requestVars, taskVars, committed, merchants, cacheVars, replaced, office, clock>>

\* The server process stops and starts: requests, tasks and caches are gone,
\* and of the commits under way some took effect.
Restart ==
    /\ Event
    /\ \E done \in SUBSET {r \in Requests : pc[r] = "commit"} : committed' = committed \cup done
    /\ pc' = [r \in Requests |-> IF pc[r] \in {"idle", "done"} THEN pc[r] ELSE "lost"]
    /\ stats' = [r \in Requests |-> NoStats]
    /\ travel' = [r \in Requests |-> NoTravel]
    /\ merchant' = [r \in Requests |-> "none"]
    /\ stats_cache' = [u \in Users |-> NoStatsCache]
    /\ location_cache' = [u \in Users |-> NoPlace]
    /\ office' = Idle
    /\ UNCHANGED <<call, code, reply, redisVars, replaced, clock>>

\* Nothing is under way and every request has come.
Quiet ==
    /\ \A r \in Requests : /\ pc[r] \in {"done", "lost"}
                           /\ stats[r] = NoStats /\ travel[r] = NoTravel /\ merchant[r] = "none"
    /\ office = Idle
    /\ UNCHANGED vars

Step(r) ==
    \/ Connect(r) \/ Lock(r) \/ CommandFails(r) \/ Gather(r)
    \/ CachedRules(r) \/ ConnectRules(r) \/ LoadRules(r)
    \/ Insert(r) \/ InsertDuplicate(r) \/ Commit(r) \/ CommitFails(r)
    \/ store_response(r) \/ StoreFails(r) \/ AnswerDuplicate(r)

TaskStep(r) ==
    \/ StatsRead(r) \/ StatsDone(r) \/ StatsFails(r)
    \/ TravelRead(r) \/ TravelDone(r) \/ TravelFails(r)
    \/ add_unique_merchant(r) \/ MerchantFails(r)

\* What the event loop has to do.
Work ==
    \/ \E r \in Requests : Step(r) \/ TaskStep(r)
    \/ UpdateRisk \/ Invalidate \/ EndHealth

Next ==
    \/ \E r \in Requests : Receive(r)
    \/ Work
    \/ \E u \in KnownUsers : BeginUpdate(u)
    \/ BeginHealth
    \/ Tick
    \/ \E k \in Keys : Forget(k)
    \/ Restart
    \/ Quiet

Spec == Init /\ [][Next]_vars

\* The event loop does not stop while there is something it can do: Redis
\* and PostgreSQL answer, or the call fails.  Which task goes first, new
\* requests, the clock, expiry and restarts are free.
FairSpec == Spec /\ WF_vars(Work)

-----------------------------------------------------------------------------
(* Properties.                                                             *)

\* process_transaction with the UNIQUE key: whatever fails, expires or
\* restarts between the insert, the commit and store_response, a key is
\* charged once, and every 200 given for it or stored for it describes that
\* one committed row.
ReplayAgrees ==
    /\ \A r, o \in committed : Key(r) = Key(o) => r = o
    /\ \A r \in Requests : code[r] = 200 => reply[r] \in committed /\ Key(reply[r]) = Key(r)
    /\ \A k \in Keys : responses[k] # NoRow => responses[k] \in committed /\ Key(responses[k]) = k

\* The handler of UniqueViolationError says 409 only for a key that has been
\* charged, so a client may take 409 as "done before".
RefusedWasCharged ==
    \A r \in Requests : code[r] = 409 => \E o \in committed \ {r} : Key(o) = Key(r)

\* The advisory lock: the previous transaction that check_impossible_travel
\* fetched is still the user's latest earlier one when the row is inserted
\* and until it is committed.
FetchedStillLatest ==
    \A r \in Open :
        travel[r].at \in {"read", "ok"} /\ travel[r].from = "table" =>
            IF travel[r].row = NoRow THEN Latest(r) = {} ELSE travel[r].row \in Latest(r)

\* get_user_statistics: the risk score a request decides on was the user's
\* at some moment less than cache_ttl before it asked, through updates,
\* invalidations and loads that overtake each other.
RiskWasRecent ==
    \A r \in Requests : stats[r].at = "ok" =>
        \/ stats[r].risk = Risk(User(r))
        \/ replaced[User(r)][stats[r].risk + 1] > stats[r].asked - StatsTTL

\* Whatever fails, every request that came is answered (or lost in a
\* restart) and every connection comes back, those of the tasks that
\* asyncio.gather left behind too: no nested acquire, lock or blocked
\* insert waits for ever.
EverythingSettles ==
    []<>(/\ \A r \in Requests : pc[r] \in {"idle", "done", "lost"}
         /\ Free = PoolSize)

\* "Every transaction must be evaluated and responded to": the same of a
\* pool no larger than the number of requests.
EveryRequestAnswered ==
    \A r \in Requests : pc[r] # "idle" ~> pc[r] \in {"done", "lost"}
=============================================================================
