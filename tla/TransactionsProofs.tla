-------------------------- MODULE TransactionsProofs --------------------------
(***************************************************************************)
(* A key is charged once and every answer tells the truth about it, for    *)
(* any requests, keys, users, pool, time to live and number of restarts.   *)
(*                                                                         *)
(* Neither property is inductive.  What they rest on is that the UNIQUE    *)
(* index also covers the rows that are inserted and not yet committed      *)
(* (OneRowPerKey), that a request has no row before its insert             *)
(* (RowsAreFinished), that store_response runs after the commit (Stored),  *)
(* and that the handler of UniqueViolationError runs for another's row     *)
(* (Refused).                                                              *)
(***************************************************************************)
EXTENDS Transactions, TLAPS

Places == {"idle", "acquire", "lock", "gather", "rules", "load", "insert", "commit",
           "store", "duplicate", "done", "lost"}

\* The part of the state the properties speak of.
ledgerVars == <<call, pc, code, reply, committed, responses>>

Types ==
    /\ call \in Scenarios
    /\ pc \in [Requests -> Places]
    /\ code \in [Requests -> {0, 200, 409, 500}]
    /\ reply \in [Requests -> Requests \cup {NoRow}]
    /\ committed \subseteq Requests
    /\ responses \in [Keys -> Requests \cup {NoRow}]

\* The rows the UNIQUE index knows: committed ones and those of open transactions.
Rows == committed \cup {r \in Requests : pc[r] = "commit"}

OneRowPerKey == \A r, o \in Rows : Key(r) = Key(o) => r = o

RowsAreFinished == \A r \in committed : pc[r] \in {"store", "done", "lost"}

Stored == \A r \in Requests : pc[r] = "store" => r \in committed

Charged(r) == \E o \in committed \ {r} : Key(o) = Key(r)

Refused == \A r \in Requests : pc[r] = "duplicate" \/ code[r] = 409 => Charged(r)

Truthful ==
    /\ \A r \in Requests : code[r] = 200 => reply[r] \in committed /\ Key(reply[r]) = Key(r)
    /\ \A k \in Keys : responses[k] # NoRow => responses[k] \in committed /\ Key(responses[k]) = k

LedgerInv ==
    Types /\ OneRowPerKey /\ RowsAreFinished /\ Stored /\ Refused /\ Truthful

-----------------------------------------------------------------------------
(* The steps, as the ledger sees them.                                     *)

\* r moves on without touching a row.
Moves(r) ==
    /\ \E p \in {"acquire", "lock", "gather", "rules", "load", "insert"} : Goto(r, p)
    /\ pc[r] \in {"idle", "acquire", "lock", "gather", "rules", "load"}
    /\ UNCHANGED <<call, committed, responses>>

\* r is answered 500; a row and a stored response may have become visible.
Gives500(r) ==
    /\ Respond(r, 500, NoRow)
    /\ pc[r] # "done" /\ pc[r] # "lost"
    /\ \/ committed' = committed
       \/ pc[r] = "commit" /\ committed' = committed \cup {r}
    /\ \/ responses' = responses
       \/ pc[r] = "store" /\ responses' = [responses EXCEPT ![Key(r)] = r]
    /\ call' = call

\* r is answered with the stored response of its key.
Replays(r) ==
    /\ pc[r] \in {"idle", "duplicate"}
    /\ responses[Key(r)] # NoRow
    /\ Respond(r, 200, responses[Key(r)])
    /\ UNCHANGED <<call, committed, responses>>

\* The key of a request is one of Keys.
LEMMA KeyType ==
    ASSUME Types, NEW r \in Requests
    PROVE  Key(r) \in Keys
BY TransactionsAssumption DEF TransactionsAssumption, Types, Key

\* A request has no row in the index before its insert.
LEMMA NoRowYet ==
    ASSUME LedgerInv, NEW r \in Requests, pc[r] \notin {"commit", "store", "done", "lost"}
    PROVE  r \notin Rows
BY DEF LedgerInv, RowsAreFinished, Rows

\* The invariant survives what changes none of its variables.
LEMMA LedgerStutter ==
    ASSUME LedgerInv, UNCHANGED ledgerVars
    PROVE  LedgerInv'
BY DEF LedgerInv, ledgerVars, Types, OneRowPerKey, Rows, RowsAreFinished, Stored, Refused, Charged,
       Truthful, Key

\* Moving from await to await before the insert.
LEMMA MovesKeep ==
    ASSUME LedgerInv, NEW r \in Requests, Moves(r)
    PROVE  LedgerInv'
<1>1. PICK p \in {"acquire", "lock", "gather", "rules", "load", "insert"} :
        /\ pc' = [pc EXCEPT ![r] = p]
        /\ code' = code /\ reply' = reply
      BY DEF Moves, Goto
<1>2. call' = call /\ committed' = committed /\ responses' = responses
      BY DEF Moves
<1>3. pc[r] \in {"idle", "acquire", "lock", "gather", "rules", "load"}
      BY DEF Moves
<1>4. Types'
      BY <1>1, <1>2 DEF LedgerInv, Types, Places
<1>5. r \notin committed
      BY <1>3 DEF LedgerInv, RowsAreFinished
<1>6. Rows' = Rows
      BY <1>1, <1>2, <1>3 DEF LedgerInv, Types, Rows
<1>7. OneRowPerKey'
      BY <1>2, <1>6 DEF LedgerInv, OneRowPerKey, Key
<1>8. RowsAreFinished'
      BY <1>1, <1>2, <1>5 DEF LedgerInv, Types, RowsAreFinished
<1>9. Stored'
      BY <1>1, <1>2 DEF LedgerInv, Types, Stored
<1>10. Refused'
      BY <1>1, <1>2 DEF LedgerInv, Types, Refused, Charged, Key
<1>11. Truthful'
      BY <1>1, <1>2 DEF LedgerInv, Truthful, Key
<1> QED  BY <1>4, <1>7, <1>8, <1>9, <1>10, <1>11 DEF LedgerInv

\* Errors: also a commit or a SETEX that took effect before it raised keeps
\* the rows unique and the stored responses true.
LEMMA Gives500Keeps ==
    ASSUME LedgerInv, NEW r \in Requests, Gives500(r)
    PROVE  LedgerInv'
<1>1. /\ pc' = [pc EXCEPT ![r] = "done"]
      /\ code' = [code EXCEPT ![r] = 500]
      /\ reply' = [reply EXCEPT ![r] = NoRow]
      /\ call' = call
      BY DEF Gives500, Respond
<1>2. committed \subseteq committed' /\ committed' \subseteq committed \cup {r}
      BY DEF Gives500
<1>3. r \in committed' => r \in Rows
      BY DEF Gives500, Rows
<1>4. Key(r) \in Keys
      BY KeyType DEF LedgerInv
<1>5. \/ responses' = responses
      \/ r \in committed /\ responses' = [responses EXCEPT ![Key(r)] = r]
      BY DEF Gives500, LedgerInv, Stored
<1>6. Types'
      BY <1>1, <1>2, <1>4, <1>5 DEF LedgerInv, Types, Places
<1>7. Rows' \subseteq Rows
      BY <1>1, <1>2, <1>3 DEF LedgerInv, Types, Rows
<1>8. OneRowPerKey'
      BY <1>1, <1>7 DEF LedgerInv, OneRowPerKey, Key
<1>9. RowsAreFinished'
      BY <1>1, <1>2 DEF LedgerInv, Types, RowsAreFinished
<1>10. Stored'
      BY <1>1, <1>2 DEF LedgerInv, Types, Stored
<1>11. Refused'
      BY <1>1, <1>2 DEF LedgerInv, Types, Refused, Charged, Key
<1>12. Truthful'
  <2>1. ASSUME NEW q \in Requests, code'[q] = 200
        PROVE  reply'[q] \in committed' /\ Key(reply'[q]) = Key(q)
        BY <2>1, <1>1, <1>2 DEF LedgerInv, Types, Truthful, Key
  <2>2. ASSUME NEW k \in Keys, responses'[k] # NoRow
        PROVE  responses'[k] \in committed' /\ Key(responses'[k]) = k
        BY <2>2, <1>1, <1>2, <1>4, <1>5 DEF LedgerInv, Types, Truthful, Key
  <2> QED  BY <2>1, <2>2, <1>1 DEF Truthful, Key
<1> QED  BY <1>6, <1>8, <1>9, <1>10, <1>11, <1>12 DEF LedgerInv

\* The stored response of a key is the answer for its one row.
LEMMA ReplaysKeep ==
    ASSUME LedgerInv, NEW r \in Requests, Replays(r)
    PROVE  LedgerInv'
<1>1. /\ pc' = [pc EXCEPT ![r] = "done"]
      /\ code' = [code EXCEPT ![r] = 200]
      /\ reply' = [reply EXCEPT ![r] = responses[Key(r)]]
      /\ call' = call /\ committed' = committed /\ responses' = responses
      BY DEF Replays, Respond
<1>2. pc[r] \in {"idle", "duplicate"} /\ responses[Key(r)] # NoRow
      BY DEF Replays
<1>3. Key(r) \in Keys
      BY KeyType DEF LedgerInv
<1>4. responses[Key(r)] \in committed /\ Key(responses[Key(r)]) = Key(r)
      BY <1>2, <1>3 DEF LedgerInv, Truthful
<1>5. Types'
      BY <1>1, <1>3 DEF LedgerInv, Types, Places
<1>6. Rows' = Rows
      BY <1>1, <1>2 DEF LedgerInv, Types, Rows
<1>7. OneRowPerKey'
      BY <1>1, <1>6 DEF LedgerInv, OneRowPerKey, Key
<1>8. RowsAreFinished'
      BY <1>1 DEF LedgerInv, Types, RowsAreFinished
<1>9. Stored'
      BY <1>1 DEF LedgerInv, Types, Stored
<1>10. Refused'
      BY <1>1 DEF LedgerInv, Types, Refused, Charged, Key
<1>11. Truthful'
      BY <1>1, <1>4 DEF LedgerInv, Types, Truthful, Key
<1> QED  BY <1>5, <1>7, <1>8, <1>9, <1>10, <1>11 DEF LedgerInv

-----------------------------------------------------------------------------
(* The insert and what follows it.                                         *)

\* The insert: the index has no row of the key, or the insert would be refused
\* or wait.
LEMMA InsertKeeps ==
    ASSUME LedgerInv, NEW r \in Requests, Insert(r)
    PROVE  LedgerInv'
<1>1. /\ pc' = [pc EXCEPT ![r] = "commit"]
      /\ code' = code /\ reply' = reply
      /\ call' = call /\ committed' = committed /\ responses' = responses
      BY DEF Insert, Goto, redisVars
<1>2. pc[r] = "insert" /\ ~Duplicate(r) /\ ~Pending(r)
      BY DEF Insert
<1>3. r \notin Rows
      BY <1>2, NoRowYet
<1>4. Types'
      BY <1>1 DEF LedgerInv, Types, Places
<1>5. Rows' = Rows \cup {r}
      BY <1>1 DEF LedgerInv, Types, Rows
<1>6. \A o \in Rows : Key(o) # Key(r)
      BY <1>2, <1>3 DEF Rows, Duplicate, Pending
<1>7. OneRowPerKey'
      BY <1>1, <1>5, <1>6 DEF LedgerInv, OneRowPerKey, Key
<1>8. RowsAreFinished'
      BY <1>1, <1>3 DEF LedgerInv, Types, RowsAreFinished, Rows
<1>9. Stored'
      BY <1>1 DEF LedgerInv, Types, Stored
<1>10. Refused'
      BY <1>1 DEF LedgerInv, Types, Refused, Charged, Key
<1>11. Truthful'
      BY <1>1 DEF LedgerInv, Truthful, Key
<1> QED  BY <1>4, <1>7, <1>8, <1>9, <1>10, <1>11 DEF LedgerInv

\* UniqueViolationError: the row that is in the way is another's.
LEMMA InsertDuplicateKeeps ==
    ASSUME LedgerInv, NEW r \in Requests, InsertDuplicate(r)
    PROVE  LedgerInv'
<1>1. /\ pc' = [pc EXCEPT ![r] = "duplicate"]
      /\ code' = code /\ reply' = reply
      /\ call' = call /\ committed' = committed /\ responses' = responses
      BY DEF InsertDuplicate, Goto, redisVars
<1>2. pc[r] = "insert" /\ Duplicate(r)
      BY DEF InsertDuplicate
<1>3. r \notin committed
      BY <1>2 DEF LedgerInv, RowsAreFinished
<1>4. Charged(r)
      BY <1>2, <1>3 DEF Duplicate, Charged
<1>5. Types'
      BY <1>1 DEF LedgerInv, Types, Places
<1>6. Rows' = Rows
      BY <1>1, <1>2 DEF LedgerInv, Types, Rows
<1>7. OneRowPerKey'
      BY <1>1, <1>6 DEF LedgerInv, OneRowPerKey, Key
<1>8. RowsAreFinished'
      BY <1>1, <1>3 DEF LedgerInv, Types, RowsAreFinished
<1>9. Stored'
      BY <1>1 DEF LedgerInv, Types, Stored
<1>10. Refused'
      BY <1>1, <1>4 DEF LedgerInv, Types, Refused, Charged, Key
<1>11. Truthful'
      BY <1>1 DEF LedgerInv, Truthful, Key
<1> QED  BY <1>5, <1>7, <1>8, <1>9, <1>10, <1>11 DEF LedgerInv

\* The commit: the row was in the index already.
LEMMA CommitKeeps ==
    ASSUME LedgerInv, NEW r \in Requests, Commit(r)
    PROVE  LedgerInv'
<1>1. /\ pc' = [pc EXCEPT ![r] = "store"]
      /\ code' = code /\ reply' = reply
      /\ call' = call /\ committed' = committed \cup {r} /\ responses' = responses
      /\ pc[r] = "commit"
      BY DEF Commit, Goto, redisVars
<1>2. Types'
      BY <1>1 DEF LedgerInv, Types, Places
<1>3. Rows' = Rows
      BY <1>1 DEF LedgerInv, Types, Rows
<1>4. OneRowPerKey'
      BY <1>1, <1>3 DEF LedgerInv, OneRowPerKey, Key
<1>5. RowsAreFinished'
      BY <1>1 DEF LedgerInv, Types, RowsAreFinished
<1>6. Stored'
      BY <1>1 DEF LedgerInv, Types, Stored
<1>7. Refused'
      BY <1>1 DEF LedgerInv, Types, Refused, Charged, Key
<1>8. Truthful'
      BY <1>1 DEF LedgerInv, Truthful, Key
<1> QED  BY <1>2, <1>4, <1>5, <1>6, <1>7, <1>8 DEF LedgerInv

\* store_response stores the request's own committed row.
LEMMA StoreKeeps ==
    ASSUME LedgerInv, NEW r \in Requests, store_response(r)
    PROVE  LedgerInv'
<1>1. /\ pc' = [pc EXCEPT ![r] = "done"]
      /\ code' = [code EXCEPT ![r] = 200]
      /\ reply' = [reply EXCEPT ![r] = r]
      /\ call' = call /\ committed' = committed
      /\ responses' = [responses EXCEPT ![Key(r)] = r]
      /\ pc[r] = "store"
      BY DEF store_response, Respond
<1>2. r \in committed
      BY <1>1 DEF LedgerInv, Stored
<1>3. Key(r) \in Keys
      BY KeyType DEF LedgerInv
<1>4. Types'
      BY <1>1, <1>3 DEF LedgerInv, Types, Places
<1>5. Rows' = Rows
      BY <1>1 DEF LedgerInv, Types, Rows
<1>6. OneRowPerKey'
      BY <1>1, <1>5 DEF LedgerInv, OneRowPerKey, Key
<1>7. RowsAreFinished'
      BY <1>1 DEF LedgerInv, Types, RowsAreFinished
<1>8. Stored'
      BY <1>1 DEF LedgerInv, Types, Stored
<1>9. Refused'
      BY <1>1 DEF LedgerInv, Types, Refused, Charged, Key
<1>10. Truthful'
  <2>1. ASSUME NEW q \in Requests, code'[q] = 200
        PROVE  reply'[q] \in committed /\ Key(reply'[q]) = Key(q)
        BY <2>1, <1>1, <1>2 DEF LedgerInv, Types, Truthful
  <2>2. ASSUME NEW k \in Keys, responses'[k] # NoRow
        PROVE  responses'[k] \in committed /\ Key(responses'[k]) = k
        BY <2>2, <1>1, <1>2, <1>3 DEF LedgerInv, Types, Truthful
  <2> QED  BY <2>1, <2>2, <1>1 DEF Truthful, Key
<1> QED  BY <1>4, <1>6, <1>7, <1>8, <1>9, <1>10 DEF LedgerInv

\* The handler of UniqueViolationError replays, says 409 or fails.
LEMMA AnswerDuplicateKeeps ==
    ASSUME LedgerInv, NEW r \in Requests, AnswerDuplicate(r)
    PROVE  LedgerInv'
<1>1. pc[r] = "duplicate" /\ call' = call /\ committed' = committed /\ responses' = responses
      BY DEF AnswerDuplicate, redisVars
<1>2. CASE responses[Key(r)] # NoRow /\ Respond(r, 200, responses[Key(r)])
      BY <1>1, <1>2, ReplaysKeep DEF Replays
<1>3. CASE Respond(r, 500, NoRow)
      BY <1>1, <1>3, Gives500Keeps DEF Gives500
<1>4. CASE Respond(r, 409, NoRow)
  <2>1. /\ pc' = [pc EXCEPT ![r] = "done"]
        /\ code' = [code EXCEPT ![r] = 409]
        /\ reply' = [reply EXCEPT ![r] = NoRow]
        BY <1>4 DEF Respond
  <2>2. Types'
        BY <1>1, <2>1 DEF LedgerInv, Types, Places
  <2>3. Rows' = Rows
        BY <1>1, <2>1 DEF LedgerInv, Types, Rows
  <2>4. OneRowPerKey'
        BY <1>1, <2>3 DEF LedgerInv, OneRowPerKey, Key
  <2>5. RowsAreFinished'
        BY <1>1, <2>1 DEF LedgerInv, Types, RowsAreFinished
  <2>6. Stored'
        BY <1>1, <2>1 DEF LedgerInv, Types, Stored
  <2>7. Refused'
        BY <1>1, <2>1 DEF LedgerInv, Types, Refused, Charged, Key
  <2>8. Truthful'
        BY <1>1, <2>1 DEF LedgerInv, Types, Truthful, Key
  <2> QED  BY <2>2, <2>4, <2>5, <2>6, <2>7, <2>8 DEF LedgerInv
<1> QED  BY <1>2, <1>3, <1>4 DEF AnswerDuplicate, get_response

\* An expired response takes its row nowhere.
LEMMA ForgetKeeps ==
    ASSUME LedgerInv, NEW k \in Keys, Forget(k)
    PROVE  LedgerInv'
<1>1. /\ responses' = [responses EXCEPT ![k] = NoRow]
      /\ UNCHANGED <<call, pc, code, reply, committed>>
      BY DEF Forget, requestVars
<1>2. Types'
      BY <1>1 DEF LedgerInv, Types
<1>3. Truthful'
      BY <1>1 DEF LedgerInv, Types, Truthful, Key
<1> QED  BY <1>1, <1>2, <1>3 DEF LedgerInv, OneRowPerKey, Rows, RowsAreFinished, Stored,
                               Refused, Charged, Key

\* A restart commits or forgets the rows of open transactions.
LEMMA RestartKeeps ==
    ASSUME LedgerInv, Restart
    PROVE  LedgerInv'
<1>1. /\ pc' = [r \in Requests |-> IF pc[r] \in {"idle", "done"} THEN pc[r] ELSE "lost"]
      /\ UNCHANGED <<call, code, reply, responses>>
      BY DEF Restart, redisVars
<1>2. PICK done \in SUBSET {r \in Requests : pc[r] = "commit"} : committed' = committed \cup done
      BY DEF Restart
<1>3. Types'
      BY <1>1, <1>2 DEF LedgerInv, Types, Places
<1>4. Rows' \subseteq Rows
      BY <1>1, <1>2 DEF LedgerInv, Types, Rows
<1>5. OneRowPerKey'
      BY <1>1, <1>4 DEF LedgerInv, OneRowPerKey, Key
<1>6. RowsAreFinished'
      BY <1>1, <1>2 DEF LedgerInv, Types, RowsAreFinished
<1>7. Stored'
      BY <1>1 DEF LedgerInv, Types, Stored
<1>8. Refused'
      BY <1>1, <1>2 DEF LedgerInv, Types, Refused, Charged, Key
<1>9. Truthful'
      BY <1>1, <1>2 DEF LedgerInv, Types, Truthful, Key
<1> QED  BY <1>3, <1>5, <1>6, <1>7, <1>8, <1>9 DEF LedgerInv

-----------------------------------------------------------------------------
(* The invariant and the theorems.                                         *)

\* The requests answered before the behaviour begins have rows of their own.
LEMMA LedgerInit == Init => LedgerInv
<1> SUFFICES ASSUME Init PROVE LedgerInv
    OBVIOUS
<1>1. /\ call \in Scenarios /\ committed = Past /\ Past \subseteq Requests
      /\ pc = [r \in Requests |-> IF r \in Past THEN "done" ELSE "idle"]
      /\ code = [r \in Requests |-> IF r \in Past THEN 200 ELSE 0]
      /\ reply = [r \in Requests |-> IF r \in Past THEN r ELSE NoRow]
      BY TransactionsAssumption DEF Init, TransactionsAssumption
<1>2. \A k \in Keys : \/ responses[k] = NoRow
                      \/ responses[k] \in Past /\ Key(responses[k]) = k
  <2> SUFFICES ASSUME NEW k \in Keys, responses[k] # NoRow
               PROVE  responses[k] \in Past /\ Key(responses[k]) = k
      OBVIOUS
  <2>1. /\ \E r \in Past : Key(r) = k
        /\ responses[k] = CHOOSE r \in Past : Key(r) = k
        BY DEF Init
  <2> QED  BY <2>1
<1>3. responses \in [Keys -> Requests \cup {NoRow}]
  <2>1. responses = [k \in Keys |-> responses[k]]
        BY DEF Init
  <2> QED  BY <2>1, <1>1, <1>2
<1>4. Types
      BY <1>1, <1>3 DEF Types, Places
<1>5. Rows = Past
      BY <1>1 DEF Rows
<1>6. OneRowPerKey
      BY <1>1, <1>5, TransactionsAssumption DEF TransactionsAssumption, OneRowPerKey, Key
<1>7. RowsAreFinished /\ Stored /\ Refused
      BY <1>1 DEF RowsAreFinished, Stored, Refused
<1>8. Truthful
      BY <1>1, <1>2 DEF Truthful
<1> QED  BY <1>4, <1>6, <1>7, <1>8 DEF LedgerInv

\* What a request does on its own connection.
LEMMA StepKeeps ==
    ASSUME LedgerInv, NEW r \in Requests, Step(r)
    PROVE  LedgerInv'
<1>1. CASE Connect(r) \/ Lock(r) \/ Gather(r) \/ CachedRules(r) \/ ConnectRules(r) \/ LoadRules(r)
      BY <1>1, MovesKeep
      DEF Connect, Lock, Gather, CachedRules, ConnectRules, LoadRules, Moves, redisVars
<1>2. CASE CommandFails(r)
      BY <1>2, Gives500Keeps DEF CommandFails, Fail, Gives500, redisVars
<1>3. CASE CommitFails(r)
      BY <1>3, Gives500Keeps DEF CommitFails, Fail, Gives500, redisVars
<1>4. CASE StoreFails(r)
      BY <1>4, Gives500Keeps DEF StoreFails, Fail, Gives500
<1> QED  BY <1>1, <1>2, <1>3, <1>4, InsertKeeps, InsertDuplicateKeeps, CommitKeeps, StoreKeeps,
            AnswerDuplicateKeeps DEF Step

\* What the gathered tasks do, those that outlive their request too.
LEMMA TaskStepKeeps ==
    ASSUME LedgerInv, NEW r \in Requests, TaskStep(r)
    PROVE  LedgerInv'
<1>1. ASSUME NEW task, TaskFails(r, task), UNCHANGED <<call, committed, redisVars>>
      PROVE  LedgerInv'
  <2>1. CASE pc[r] = "gather"
        BY <1>1, <2>1, Gives500Keeps DEF TaskFails, Gives500, redisVars
  <2>2. CASE pc[r] # "gather"
        BY <1>1, <2>2, LedgerStutter DEF TaskFails, requestVars, redisVars, ledgerVars
  <2> QED  BY <2>1, <2>2
<1>2. CASE StatsFails(r) \/ TravelFails(r) \/ MerchantFails(r)
      BY <1>1, <1>2 DEF StatsFails, TravelFails, MerchantFails
<1>3. CASE \/ StatsRead(r) \/ StatsDone(r) \/ TravelRead(r) \/ TravelDone(r)
           \/ add_unique_merchant(r)
      BY <1>3, LedgerStutter
      DEF StatsRead, StatsDone, TravelRead, TravelDone, add_unique_merchant, requestVars,
          redisVars, ledgerVars
<1> QED  BY <1>2, <1>3 DEF TaskStep

\* The first look at the idempotency store.
LEMMA ReceiveKeeps ==
    ASSUME LedgerInv, NEW r \in Requests, Receive(r)
    PROVE  LedgerInv'
<1>1. pc[r] = "idle" /\ call' = call /\ committed' = committed /\ responses' = responses
      BY DEF Receive, redisVars
<1>2. CASE responses[Key(r)] # NoRow /\ Respond(r, 200, responses[Key(r)])
      BY <1>1, <1>2, ReplaysKeep DEF Replays
<1>3. CASE Goto(r, "acquire")
      BY <1>1, <1>3, MovesKeep DEF Moves
<1>4. CASE Respond(r, 500, NoRow)
      BY <1>1, <1>4, Gives500Keeps DEF Gives500
<1> QED  BY <1>2, <1>3, <1>4 DEF Receive, get_response

\* Every step keeps the invariant.
LEMMA LedgerNext == LedgerInv /\ [Next]_vars => LedgerInv'
<1> SUFFICES ASSUME LedgerInv, [Next]_vars PROVE LedgerInv'
    OBVIOUS
<1>1. CASE \/ UpdateRisk \/ Invalidate \/ EndHealth \/ BeginHealth \/ Tick \/ Quiet
           \/ \E u \in KnownUsers : BeginUpdate(u)
           \/ UNCHANGED vars
      BY <1>1, LedgerStutter
      DEF UpdateRisk, Invalidate, EndHealth, BeginHealth, Tick, Quiet, BeginUpdate, vars,
          requestVars, redisVars, ledgerVars
<1> QED  BY <1>1, ReceiveKeeps, StepKeeps, TaskStepKeeps, ForgetKeeps, RestartKeeps DEF Next, Work

\* The ledger invariant holds in every behaviour of process_transaction.
THEOREM LedgerInvariance == Spec => []LedgerInv
BY LedgerInit, LedgerNext, PTL DEF Spec

\* A key is charged once, and every 200 given or stored for it describes that one
\* committed row, whatever fails, expires or restarts on the way.
THEOREM ChargedOnce == Spec => []ReplayAgrees
<1>1. LedgerInv => ReplayAgrees
      BY DEF LedgerInv, OneRowPerKey, Rows, Truthful, ReplayAgrees
<1> QED  BY <1>1, LedgerInvariance, PTL

\* 409 is said only for a key that another request has charged.
THEOREM RefusedOnlyCharged == Spec => []RefusedWasCharged
<1>1. LedgerInv => RefusedWasCharged
      BY DEF LedgerInv, Refused, Charged, RefusedWasCharged
<1> QED  BY <1>1, LedgerInvariance, PTL

-----------------------------------------------------------------------------
(* The previous transaction that check_impossible_travel fetched.          *)

\* Requests that have not asked for it, and those that hold their user's lock.
NotYet == {r \in Requests : pc[r] \in {"idle", "acquire", "lock"}}
Locked == {r \in Requests : pc[r] \in {"gather", "rules", "load", "insert", "commit"}}

TravelResults == [at : {"wait", "read", "ok"}, since : Int, from : {"cache", "table"},
                  row : Requests \cup {NoRow}]

TravelTypes ==
    /\ clock \in Nat
    /\ travel \in [Requests -> TravelResults \cup {NoTravel}]
    /\ location_cache \in [Users -> [row : Requests, since : Int] \cup {NoPlace}]

NotAsked == \A r \in NotYet : travel[r].at = "none"

\* The row is filled in when the table is read.
NotFetched == \A r \in Requests : travel[r].at = "wait" /\ travel[r].from = "table" => travel[r].row = NoRow

\* The advisory lock has one holder per user.
OneHolder == \A r, o \in Locked : User(r) = User(o) => r = o

TravelInv == TravelTypes /\ NotAsked /\ NotFetched /\ OneHolder /\ FetchedStillLatest

\* A step that fetches nothing: tasks stay or end, nobody gets a lock, and a row
\* that becomes visible is that of a request that gives its lock back.
TravelKept ==
    /\ call' = call /\ TravelTypes'
    /\ \A r \in Requests : travel'[r] \in {travel[r], NoTravel}
    /\ NotYet' \subseteq NotYet /\ Locked' \subseteq Locked
    /\ committed \subseteq committed'
    /\ committed' \ committed \subseteq Locked \ Locked'

\* The user of a request is one of Users.
LEMMA UserType ==
    ASSUME Types, NEW r \in Requests
    PROVE  User(r) \in Users
BY TransactionsAssumption DEF TransactionsAssumption, Types, User

\* An open request waits for its lock or holds it.
LEMMA OpenLocked == \A r \in Requests : r \in Open <=> pc[r] = "lock" \/ r \in Locked
BY DEF Open, InTransaction, Locked

\* Rows of other users and a table that is not changed leave the latest one alone.
LEMMA LatestStays ==
    ASSUME call' = call, committed \subseteq committed', NEW r \in Requests,
           \A o \in committed' \ committed : User(o) # User(r)
    PROVE  Latest(r)' = Latest(r)
<1>1. Earlier(r)' = Earlier(r)
  BY DEF Earlier, User, Stamp
<1> QED  BY <1>1 DEF Latest, Stamp

\* A step that fetches nothing keeps what was fetched the latest.
LEMMA TravelQuiet ==
    ASSUME LedgerInv, TravelInv, TravelKept
    PROVE  TravelInv'
<1>1. NotAsked'
  BY DEF TravelKept, TravelInv, NotAsked, NotYet, NoTravel
<1>2. NotFetched'
  BY DEF TravelKept, TravelInv, NotFetched, NoTravel
<1>3. OneHolder'
  BY DEF TravelKept, TravelInv, OneHolder, User
<1>4. FetchedStillLatest'
  <2> SUFFICES ASSUME NEW r \in Open', travel'[r].at \in {"read", "ok"}, travel'[r].from = "table"
               PROVE  IF travel'[r].row = NoRow THEN Latest(r)' = {} ELSE travel'[r].row \in Latest(r)'
      BY DEF FetchedStillLatest
  <2>1. r \in Requests /\ travel'[r] = travel[r]
    BY DEF Open, TravelKept, NoTravel
  <2>2. r \in Locked'
    BY <2>1, <1>1 DEF Open, InTransaction, Locked, NotAsked, NotYet
  <2>3. r \in Locked /\ r \in Open
    BY <2>1, <2>2, OpenLocked DEF TravelKept
  <2>4. \A o \in committed' \ committed : User(o) # User(r)
    BY <2>2, <2>3 DEF TravelKept, TravelInv, OneHolder
  <2>5. Latest(r)' = Latest(r)
    BY <2>1, <2>4, LatestStays DEF TravelKept
  <2>6. IF travel[r].row = NoRow THEN Latest(r) = {} ELSE travel[r].row \in Latest(r)
    BY <2>1, <2>3 DEF TravelInv, FetchedStillLatest
  <2> QED  BY <2>1, <2>5, <2>6
<1> QED  BY <1>1, <1>2, <1>3, <1>4 DEF TravelInv, TravelKept

\* The tasks that end go, those that run stay.
LEMMA OrphanTravel ==
    ASSUME TravelTypes, NEW r \in Requests,
           travel' = Orphan(travel, r) \/ travel' = travel \/ travel' = [travel EXCEPT ![r] = NoTravel]
    PROVE  /\ travel' \in [Requests -> TravelResults \cup {NoTravel}]
           /\ \A q \in Requests : travel'[q] \in {travel[q], NoTravel}
BY DEF TravelTypes, Orphan, NoTravel

\* A request moves on, ends or fails.
LEMMA TravelOfStep ==
    ASSUME LedgerInv, TravelInv, NEW r \in Requests, Receive(r) \/ Step(r), ~Lock(r)
    PROVE  TravelKept
<1>t. TravelTypes /\ pc \in [Requests -> Places]
  BY DEF TravelInv, LedgerInv, Types
<1>1. call' = call /\ clock' = clock /\ location_cache' = location_cache
  BY DEF Receive, Step, Connect, CommandFails, Gather, CachedRules, ConnectRules, LoadRules, Insert,
         InsertDuplicate, Commit, CommitFails, store_response, StoreFails, AnswerDuplicate, cacheVars,
         boundVars
<1>2. travel' = Orphan(travel, r) \/ travel' = travel
  BY DEF Receive, Step, Connect, CommandFails, Gather, CachedRules, ConnectRules, LoadRules, Insert,
         InsertDuplicate, Commit, CommitFails, store_response, StoreFails, AnswerDuplicate, Fail,
         taskVars
<1>3. /\ TravelTypes'
      /\ \A q \in Requests : travel'[q] \in {travel[q], NoTravel}
  BY <1>t, <1>1, <1>2, OrphanTravel DEF TravelTypes
<1>4. PICK p \in Places : /\ pc' = [pc EXCEPT ![r] = p]
                          /\ p \in {"idle", "acquire", "lock"} => r \in NotYet
                          /\ p \in {"gather", "rules", "load", "insert", "commit"} => r \in Locked
  <2>1. CASE Receive(r)
    BY <2>1 DEF Receive, Respond, Goto, NotYet, Locked, Places
  <2>2. CASE Connect(r)
    BY <2>2 DEF Connect, Goto, NotYet, Locked, Places
  <2>3. CASE Gather(r) \/ CachedRules(r) \/ ConnectRules(r) \/ LoadRules(r) \/ Insert(r)
    BY <2>3 DEF Gather, CachedRules, ConnectRules, LoadRules, Insert, Goto, NotYet, Locked, Places
  <2>4. CASE InsertDuplicate(r) \/ Commit(r)
    BY <2>4 DEF InsertDuplicate, Commit, Goto, NotYet, Locked, Places
  <2>5. CASE CommandFails(r) \/ CommitFails(r) \/ store_response(r) \/ StoreFails(r) \/ AnswerDuplicate(r)
    BY <2>5 DEF CommandFails, CommitFails, store_response, StoreFails, AnswerDuplicate, Fail, Respond,
                NotYet, Locked, Places
  <2> QED  BY <2>1, <2>2, <2>3, <2>4, <2>5 DEF Step
<1>5. NotYet' \subseteq NotYet /\ Locked' \subseteq Locked
  BY <1>t, <1>4 DEF NotYet, Locked
<1>6. /\ committed \subseteq committed'
      /\ committed' \ committed \subseteq Locked \ Locked'
  <2>1. CASE committed' = committed
    BY <2>1
  <2>2. CASE Commit(r) \/ CommitFails(r)
    <3>1. r \in Locked /\ r \notin Locked'
      BY <1>t, <2>2 DEF Commit, CommitFails, Goto, Fail, Respond, Locked
    <3>2. committed \subseteq committed' /\ committed' \subseteq committed \cup {r}
      BY <2>2 DEF Commit, CommitFails
    <3> QED  BY <3>1, <3>2
  <2> QED
    BY <2>1, <2>2 DEF Receive, Step, Connect, CommandFails, Gather, CachedRules, ConnectRules, LoadRules,
       Insert, InsertDuplicate, store_response, StoreFails, AnswerDuplicate
<1> QED  BY <1>1, <1>3, <1>5, <1>6 DEF TravelKept

\* A task raises, and its request fails if it has not before.
LEMMA TravelOfFailure ==
    ASSUME LedgerInv, TravelInv, NEW r \in Requests, StatsFails(r) \/ TravelFails(r) \/ MerchantFails(r)
    PROVE  TravelKept
<1>t. TravelTypes /\ pc \in [Requests -> Places]
  BY DEF TravelInv, LedgerInv, Types
<1>1. UNCHANGED <<call, clock, location_cache, committed>>
  BY DEF StatsFails, TravelFails, MerchantFails, cacheVars, boundVars
<1>2. PICK task : TaskFails(r, task)
  BY DEF StatsFails, TravelFails, MerchantFails
<1>3. travel' = Orphan(travel, r) \/ travel' = travel \/ travel' = [travel EXCEPT ![r] = NoTravel]
  BY <1>2 DEF TaskFails
<1>4. pc' = pc \/ pc' = [pc EXCEPT ![r] = "done"]
  BY <1>2 DEF TaskFails, Respond, requestVars
<1>5. NotYet' \subseteq NotYet /\ Locked' \subseteq Locked
  BY <1>t, <1>4 DEF NotYet, Locked
<1>6. /\ TravelTypes'
      /\ \A q \in Requests : travel'[q] \in {travel[q], NoTravel}
  BY <1>t, <1>1, <1>3, OrphanTravel DEF TravelTypes
<1> QED  BY <1>1, <1>5, <1>6 DEF TravelKept

\* The tasks of HistoricalContext and RedisStore, the offices and the clock.
LEMMA TravelOfOthers ==
    ASSUME LedgerInv, TravelInv, UNCHANGED <<call, pc, travel, committed, location_cache>>,
           clock' \in Nat
    PROVE  TravelKept
BY DEF TravelInv, TravelTypes, TravelKept, NotYet, Locked

\* A restart drops every task and every lock.
LEMMA TravelOfRestart ==
    ASSUME LedgerInv, TravelInv, Restart
    PROVE  TravelKept
<1>1. /\ pc' = [r \in Requests |-> IF pc[r] \in {"idle", "done"} THEN pc[r] ELSE "lost"]
      /\ travel' = [r \in Requests |-> NoTravel]
      /\ location_cache' = [u \in Users |-> NoPlace]
      /\ call' = call /\ clock' = clock
  BY DEF Restart
<1>2. PICK done \in SUBSET {r \in Requests : pc[r] = "commit"} : committed' = committed \cup done
  BY DEF Restart
<1>3. TravelTypes'
  BY <1>1 DEF TravelInv, TravelTypes
<1>4. NotYet' \subseteq NotYet /\ Locked' = {}
  BY <1>1 DEF NotYet, Locked
<1>5. committed' \ committed \subseteq Locked
  BY <1>2 DEF Locked
<1> QED  BY <1>1, <1>2, <1>3, <1>4, <1>5 DEF TravelKept

\* The lock is granted to the only holder, whose task has fetched nothing yet.
LEMMA LockTravel ==
    ASSUME LedgerInv, TravelInv, NEW r \in Requests, Lock(r)
    PROVE  TravelInv'
<1>1. /\ pc[r] = "lock" /\ pc' = [pc EXCEPT ![r] = "gather"]
      /\ LockHolders(User(r)) = {}
      /\ travel' = [travel EXCEPT ![r] = StartTravel(r)]
      /\ UNCHANGED <<call, committed, location_cache, clock>>
  BY DEF Lock, LockFree, Goto, cacheVars, boundVars
<1>2. /\ pc \in [Requests -> Places] /\ TravelTypes /\ User(r) \in Users
  BY UserType DEF TravelInv, LedgerInv, Types
<1>3. /\ StartTravel(r) \in TravelResults
      /\ StartTravel(r).from = "table" => StartTravel(r).at = "wait" /\ StartTravel(r).row = NoRow
  <2>1. CASE PlaceFresh(User(r))
    <3>1. location_cache[User(r)] \in [row : Requests, since : Int]
      BY <1>2, <2>1 DEF TravelTypes, PlaceFresh
    <3> QED  BY <2>1, <3>1 DEF StartTravel, TravelResults
  <2>2. CASE ~PlaceFresh(User(r))
    BY <1>2, <2>2 DEF StartTravel, TravelResults, TravelTypes
  <2> QED  BY <2>1, <2>2
<1>4. TravelTypes'
  BY <1>1, <1>2, <1>3 DEF TravelTypes
<1>5. Locked' = Locked \cup {r} /\ NotYet' \subseteq NotYet /\ r \notin NotYet'
  BY <1>1, <1>2 DEF Locked, NotYet
<1>6. NotAsked'
  BY <1>1, <1>2, <1>5 DEF TravelInv, TravelTypes, NotAsked, NotYet
<1>7. NotFetched'
  BY <1>1, <1>2, <1>3 DEF TravelInv, TravelTypes, NotFetched
<1>8. \A o \in Locked : User(o) # User(r)
  BY <1>1, OpenLocked DEF LockHolders, Locked
<1>9. OneHolder'
  BY <1>1, <1>5, <1>8 DEF TravelInv, OneHolder, User
<1>10. FetchedStillLatest'
  <2> SUFFICES ASSUME NEW o \in Open', travel'[o].at \in {"read", "ok"}, travel'[o].from = "table"
               PROVE  IF travel'[o].row = NoRow THEN Latest(o)' = {} ELSE travel'[o].row \in Latest(o)'
    BY DEF FetchedStillLatest
  <2>1. o # r /\ o \in Requests
    BY <1>1, <1>2, <1>3 DEF TravelTypes, Open
  <2>2. travel'[o] = travel[o] /\ o \in Open
    BY <1>1, <1>2, <2>1 DEF TravelTypes, Open, InTransaction
  <2>3. Latest(o)' = Latest(o)
    BY <1>1, <2>1, LatestStays
  <2> QED  BY <2>2, <2>3 DEF TravelInv, FetchedStillLatest
<1> QED  BY <1>4, <1>6, <1>7, <1>9, <1>10 DEF TravelInv

\* The table is read: the row found is the latest, and there is none if none is found.
LEMMA ReadTravel ==
    ASSUME LedgerInv, TravelInv, NEW r \in Requests, TravelRead(r)
    PROVE  TravelInv'
<1>1. /\ travel[r].at = "wait"
      /\ UNCHANGED <<call, pc, committed, clock>>
  BY DEF TravelRead, requestVars, boundVars
<1>2. /\ pc \in [Requests -> Places] /\ TravelTypes /\ User(r) \in Users /\ committed \subseteq Requests
  BY UserType DEF TravelInv, LedgerInv, Types
<1>3. travel[r] \in TravelResults
  BY <1>1, <1>2 DEF TravelTypes, NoTravel
<1>4. PICK row \in Requests \cup {NoRow} :
        /\ travel' = [travel EXCEPT ![r] = [travel[r] EXCEPT !.at = "read", !.row = row]]
        /\ travel[r].from = "table" => IF row = NoRow THEN Latest(r) = {} ELSE row \in Latest(r)
        /\ \/ location_cache' = location_cache
           \/ location_cache' = [location_cache EXCEPT ![User(r)] = [row |-> row, since |-> travel[r].since]]
              /\ row \in Requests
  <2>1. CASE travel[r].from = "cache" \/ Latest(r) = {}
    <3>1. travel' = [travel EXCEPT ![r] = [travel[r] EXCEPT !.at = "read"]] /\ location_cache' = location_cache
      BY <2>1 DEF TravelRead
    <3>2. [travel[r] EXCEPT !.at = "read"] = [travel[r] EXCEPT !.at = "read", !.row = travel[r].row]
      BY <1>3 DEF TravelResults
    <3>3. travel[r].row \in Requests \cup {NoRow}
      BY <1>3 DEF TravelResults
    <3>4. travel[r].from = "table" => Latest(r) = {} /\ travel[r].row = NoRow
      BY <1>1, <2>1 DEF TravelInv, NotFetched
    <3> QED  BY <3>1, <3>2, <3>3, <3>4
  <2>2. CASE ~(travel[r].from = "cache" \/ Latest(r) = {})
    <3>1. PICK o \in Latest(r) :
            /\ travel' = [travel EXCEPT ![r] = [travel[r] EXCEPT !.at = "read", !.row = o]]
            /\ location_cache' = [location_cache EXCEPT ![User(r)] = [row |-> o, since |-> travel[r].since]]
      BY <2>2, <1>2 DEF TravelRead, TravelTypes
    <3>2. o \in Requests /\ o # NoRow
      BY <1>2, TransactionsAssumption DEF TransactionsAssumption, Latest, Earlier
    <3> QED  BY <3>1, <3>2
  <2> QED  BY <2>1, <2>2
<1> DEFINE new == [travel[r] EXCEPT !.at = "read", !.row = row]
<1>5. new \in TravelResults /\ new.at = "read" /\ new.from = travel[r].from /\ new.row = row
  BY <1>3 DEF TravelResults
<1>6. \A q \in Requests : travel'[q] = IF q = r THEN new ELSE travel[q]
  BY <1>2, <1>4 DEF TravelTypes
<1>7. TravelTypes'
  <2>1. travel' \in [Requests -> TravelResults \cup {NoTravel}]
    BY <1>2, <1>4, <1>5 DEF TravelTypes
  <2>2. travel[r].since \in Int
    BY <1>3 DEF TravelResults
  <2>3. location_cache' \in [Users -> [row : Requests, since : Int] \cup {NoPlace}]
    BY <1>2, <1>4, <2>2 DEF TravelTypes
  <2> QED  BY <1>1, <1>2, <2>1, <2>3 DEF TravelTypes
<1> HIDE DEF new
<1>8. NotYet' = NotYet /\ Locked' = Locked /\ Open' = Open
  BY <1>1 DEF NotYet, Locked, Open
<1>9. r \notin NotYet
  BY <1>1 DEF TravelInv, NotAsked
<1>10. NotAsked'
  BY <1>6, <1>8, <1>9 DEF TravelInv, NotAsked, NotYet
<1>11. NotFetched'
  BY <1>5, <1>6 DEF TravelInv, NotFetched
<1>12. OneHolder'
  BY <1>1, <1>8 DEF TravelInv, OneHolder, User
<1>13. FetchedStillLatest'
  <2> SUFFICES ASSUME NEW o \in Open, travel'[o].at \in {"read", "ok"}, travel'[o].from = "table"
               PROVE  IF travel'[o].row = NoRow THEN Latest(o)' = {} ELSE travel'[o].row \in Latest(o)'
    BY <1>8 DEF FetchedStillLatest
  <2>1. o \in Requests
    BY DEF Open
  <2>2. Latest(o)' = Latest(o)
    BY <1>1, <2>1, LatestStays
  <2>3. CASE o = r
    BY <1>4, <1>5, <1>6, <2>1, <2>2, <2>3
  <2>4. CASE o # r
    BY <1>6, <2>1, <2>2, <2>4 DEF TravelInv, FetchedStillLatest
  <2> QED  BY <2>3, <2>4
<1> QED  BY <1>7, <1>10, <1>11, <1>12, <1>13 DEF TravelInv

\* The task ends with the row it has.
LEMMA DoneTravel ==
    ASSUME LedgerInv, TravelInv, NEW r \in Requests, TravelDone(r)
    PROVE  TravelInv'
<1>1. /\ travel[r].at = "read"
      /\ travel' = [travel EXCEPT ![r] = Ended(r, [travel[r] EXCEPT !.at = "ok"])]
      /\ UNCHANGED <<call, pc, committed, clock, location_cache>>
  BY DEF TravelDone, requestVars, boundVars, cacheVars
<1>2. /\ TravelTypes /\ travel[r] \in TravelResults
  BY <1>1 DEF TravelInv, TravelTypes, NoTravel
<1> DEFINE new == [travel[r] EXCEPT !.at = "ok"]
<1>3. new \in TravelResults /\ new.at = "ok" /\ new.from = travel[r].from /\ new.row = travel[r].row
  BY <1>2 DEF TravelResults
<1> HIDE DEF new
<1>4. \A q \in Requests : travel'[q] = travel[q] \/ travel'[q] = NoTravel \/ (q = r /\ travel'[q] = new)
  BY <1>1, <1>2 DEF TravelTypes, Ended, new, NoTravel
<1>5. travel' \in [Requests -> TravelResults \cup {NoTravel}]
  BY <1>1, <1>2, <1>3 DEF TravelTypes, Ended, new, NoTravel
<1>6. NotYet' = NotYet /\ Locked' = Locked /\ Open' = Open
  BY <1>1 DEF NotYet, Locked, Open
<1>7. r \notin NotYet
  BY <1>1 DEF TravelInv, NotAsked
<1>8. NotAsked'
  BY <1>4, <1>6, <1>7 DEF TravelInv, NotAsked, NotYet, NoTravel
<1>9. NotFetched'
  BY <1>3, <1>4 DEF TravelInv, NotFetched, NoTravel
<1>10. OneHolder'
  BY <1>1, <1>6 DEF TravelInv, OneHolder, User
<1>11. FetchedStillLatest'
  <2> SUFFICES ASSUME NEW o \in Open, travel'[o].at \in {"read", "ok"}, travel'[o].from = "table"
               PROVE  IF travel'[o].row = NoRow THEN Latest(o)' = {} ELSE travel'[o].row \in Latest(o)'
    BY <1>6 DEF FetchedStillLatest
  <2>1. o \in Requests
    BY DEF Open
  <2>2. Latest(o)' = Latest(o)
    BY <1>1, <2>1, LatestStays
  <2>3. travel'[o].row = travel[o].row /\ travel[o].from = "table" /\ travel[o].at \in {"read", "ok"}
    BY <1>1, <1>3, <1>4, <2>1 DEF NoTravel
  <2> QED  BY <2>2, <2>3 DEF TravelInv, FetchedStillLatest
<1> QED  BY <1>1, <1>2, <1>5, <1>8, <1>9, <1>10, <1>11 DEF TravelInv, TravelTypes

\* Nobody has asked at the start.
LEMMA TravelInit == Init => TravelInv
<1> SUFFICES ASSUME Init PROVE TravelInv
    OBVIOUS
<1>1. /\ travel = [r \in Requests |-> NoTravel]
      /\ location_cache = [u \in Users |-> NoPlace] /\ clock = 0
      /\ pc = [r \in Requests |-> IF r \in Past THEN "done" ELSE "idle"]
  BY DEF Init
<1>2. Locked = {} /\ Open = {}
  BY <1>1 DEF Locked, Open, InTransaction
<1>3. \A r \in Requests : travel[r].at = "none"
  BY <1>1 DEF NoTravel
<1>4. TravelTypes
  BY <1>1 DEF TravelTypes
<1> QED  BY <1>2, <1>3, <1>4 DEF TravelInv, NotAsked, NotYet, NotFetched, OneHolder, FetchedStillLatest

\* Every step keeps the invariant of the travel check.
LEMMA TravelNext == LedgerInv /\ TravelInv /\ [Next]_vars => TravelInv'
<1> SUFFICES ASSUME LedgerInv, TravelInv, [Next]_vars PROVE TravelInv'
    OBVIOUS
<1>1. ASSUME NEW r \in Requests, Receive(r) \/ Step(r) PROVE TravelInv'
  BY <1>1, TravelOfStep, TravelQuiet, LockTravel
<1>2. clock \in Nat
  BY DEF TravelInv, TravelTypes
<1>3. ASSUME NEW r \in Requests, StatsRead(r) \/ StatsDone(r) \/ add_unique_merchant(r) PROVE TravelInv'
  <2>1. UNCHANGED <<call, pc, travel, committed, location_cache, clock>>
    BY <1>3 DEF StatsRead, StatsDone, add_unique_merchant, requestVars, cacheVars, boundVars
  <2> QED  BY <1>2, <2>1, TravelOfOthers, TravelQuiet
<1>4. ASSUME NEW r \in Requests, TaskStep(r) PROVE TravelInv'
  BY <1>3, <1>4, TravelOfFailure, TravelQuiet, ReadTravel, DoneTravel DEF TaskStep
<1>5. CASE \/ UpdateRisk \/ Invalidate \/ EndHealth \/ BeginHealth \/ Tick \/ Quiet
           \/ \E u \in KnownUsers : BeginUpdate(u)
           \/ \E k \in Keys : Forget(k)
           \/ UNCHANGED vars
  <2>1. /\ UNCHANGED <<call, pc, travel, committed, location_cache>>
        /\ clock' = clock \/ clock' = clock + 1
    BY <1>5
    DEF UpdateRisk, Invalidate, EndHealth, BeginHealth, Tick, Quiet, BeginUpdate, Forget, vars,
        requestVars, taskVars, cacheVars, boundVars
  <2> QED  BY <1>2, <2>1, TravelOfOthers, TravelQuiet
<1> QED  BY <1>1, <1>4, <1>5, TravelOfRestart, TravelQuiet DEF Next, Work

\* The previous transaction that a request decides on is still its user's latest
\* earlier one when its own row is inserted and until that is committed.
THEOREM FetchedStays == Spec => []FetchedStillLatest
<1>1. TravelInv => FetchedStillLatest
      BY DEF TravelInv
<1> QED  BY <1>1, TravelInit, TravelNext, LedgerInvariance, PTL DEF Spec

-----------------------------------------------------------------------------
(* The risk score of get_user_statistics.                                  *)

StatsResults == [at : {"wait", "read", "ok"}, asked : Nat, since : Nat, risk : Nat]

StatsTypes ==
    /\ clock \in Nat
    /\ replaced \in [Users -> Seq(Nat)]
    /\ stats \in [Requests -> StatsResults \cup {NoStats}]
    /\ stats_cache \in [Users -> [since : Nat, risk : Nat] \cup {NoStatsCache}]
    /\ office \in [op : {"idle", "health"}] \cup [op : {"update", "invalidate"}, user : Users]

\* Version v of u's risk score was current at some moment from t on.
CurrentSince(u, v, t) ==
    /\ v <= Len(replaced[u])
    /\ v = Len(replaced[u]) \/ replaced[u][v + 1] >= t

CacheRecent ==
    \A u \in Users : stats_cache[u] # NoStatsCache =>
        /\ stats_cache[u].since <= clock
        /\ CurrentSince(u, stats_cache[u].risk, stats_cache[u].since)

\* A task asked before now; what it has read was current since, and what it
\* answers with was read, by itself or for the cache, less than the time to live
\* before it asked.
TaskRecent ==
    \A r \in Requests : stats[r] # NoStats =>
        /\ stats[r].since <= clock
        /\ stats[r].at # "wait" => CurrentSince(User(r), stats[r].risk, stats[r].since)
        /\ stats[r].asked - stats[r].since < StatsTTL

RiskInv == StatsTypes /\ CacheRecent /\ TaskRecent

\* A step that reads and replaces no score.
RiskKept ==
    /\ call' = call /\ replaced' = replaced /\ clock' >= clock /\ StatsTypes'
    /\ \A r \in Requests : stats'[r] \in {stats[r], NoStats}
    /\ \A u \in Users : stats_cache'[u] \in {stats_cache[u], NoStatsCache}

\* It keeps the scores recent.
LEMMA RiskQuiet ==
    ASSUME LedgerInv, RiskInv, RiskKept
    PROVE  RiskInv'
<1>1. clock \in Nat /\ clock' \in Nat /\ clock <= clock'
  BY DEF RiskInv, RiskKept, StatsTypes
<1>2. CacheRecent'
  <2> SUFFICES ASSUME NEW u \in Users, stats_cache'[u] # NoStatsCache
               PROVE  /\ stats_cache'[u].since <= clock'
                      /\ CurrentSince(u, stats_cache[u].risk, stats_cache[u].since)'
    BY DEF CacheRecent
  <2>1. stats_cache'[u] = stats_cache[u] /\ stats_cache[u] \in [since : Nat, risk : Nat]
    BY DEF RiskKept, RiskInv, StatsTypes
  <2> QED  BY <1>1, <2>1 DEF RiskInv, RiskKept, CacheRecent, CurrentSince
<1>3. TaskRecent'
  <2> SUFFICES ASSUME NEW r \in Requests, stats'[r] # NoStats
               PROVE  /\ stats'[r].since <= clock'
                      /\ stats'[r].at # "wait" => CurrentSince(User(r), stats[r].risk, stats[r].since)'
                      /\ stats'[r].asked - stats'[r].since < StatsTTL
    BY DEF TaskRecent
  <2>1. stats'[r] = stats[r] /\ stats[r] \in StatsResults
    BY DEF RiskKept, RiskInv, StatsTypes
  <2>2. stats[r].since \in Nat
    BY <2>1 DEF StatsResults
  <2> QED  BY <1>1, <2>1, <2>2 DEF RiskInv, RiskKept, TaskRecent, CurrentSince, User
<1> QED  BY <1>2, <1>3 DEF RiskInv, RiskKept

\* The tasks that end go, those that run stay.
LEMMA OrphanStats ==
    ASSUME StatsTypes, NEW r \in Requests,
           stats' = Orphan(stats, r) \/ stats' = stats \/ stats' = [stats EXCEPT ![r] = NoStats]
    PROVE  /\ stats' \in [Requests -> StatsResults \cup {NoStats}]
           /\ \A q \in Requests : stats'[q] \in {stats[q], NoStats}
BY DEF StatsTypes, Orphan, NoStats

\* Steps of a request other than the lock, and failures of its tasks.
LEMMA RiskOfStep ==
    ASSUME LedgerInv, RiskInv, NEW r \in Requests,
           \/ Receive(r) \/ Step(r)
           \/ StatsFails(r) \/ TravelFails(r) \/ MerchantFails(r)
           \/ TravelRead(r) \/ TravelDone(r) \/ add_unique_merchant(r),
           ~Lock(r)
    PROVE  RiskKept
<1>1. UNCHANGED <<call, replaced, clock, stats_cache, office>>
  BY DEF Receive, Step, Connect, CommandFails, Gather, CachedRules, ConnectRules, LoadRules, Insert,
         InsertDuplicate, Commit, CommitFails, store_response, StoreFails, AnswerDuplicate,
         StatsFails, TravelFails, MerchantFails, TravelRead, TravelDone, add_unique_merchant,
         cacheVars, boundVars
<1>2. stats' = Orphan(stats, r) \/ stats' = stats \/ stats' = [stats EXCEPT ![r] = NoStats]
  <2>1. CASE Receive(r) \/ Step(r)
    BY <2>1 DEF Receive, Step, Connect, CommandFails, Gather, CachedRules, ConnectRules, LoadRules,
         Insert, InsertDuplicate, Commit, CommitFails, store_response, StoreFails, AnswerDuplicate,
         Fail, taskVars
  <2>2. CASE StatsFails(r) \/ TravelFails(r) \/ MerchantFails(r)
    <3>1. PICK task : TaskFails(r, task)
      BY <2>2 DEF StatsFails, TravelFails, MerchantFails
    <3> QED  BY <3>1 DEF TaskFails
  <2>3. CASE TravelRead(r) \/ TravelDone(r) \/ add_unique_merchant(r)
    BY <2>3 DEF TravelRead, TravelDone, add_unique_merchant
  <2> QED  BY <2>1, <2>2, <2>3
<1>3. StatsTypes /\ clock \in Nat
  BY DEF RiskInv, StatsTypes
<1>4. StatsTypes' /\ \A q \in Requests : stats'[q] \in {stats[q], NoStats}
  BY <1>1, <1>2, <1>3, OrphanStats DEF StatsTypes
<1> QED  BY <1>1, <1>3, <1>4 DEF RiskKept

\* The offices, the clock, expiry and restarts.
LEMMA RiskOfOthers ==
    ASSUME LedgerInv, RiskInv,
           \/ Invalidate \/ EndHealth \/ BeginHealth \/ Tick \/ Quiet \/ Restart
           \/ \E u \in KnownUsers : BeginUpdate(u)
           \/ \E k \in Keys : Forget(k)
           \/ UNCHANGED vars
    PROVE  RiskKept
<1>1. /\ call' = call /\ replaced' = replaced
      /\ clock' = clock \/ clock' = clock + 1
  BY DEF Invalidate, EndHealth, BeginHealth, Tick, Quiet, Restart, BeginUpdate, Forget, vars, boundVars
<1>2. stats' = stats \/ stats' = [r \in Requests |-> NoStats]
  BY DEF Invalidate, EndHealth, BeginHealth, Tick, Quiet, Restart, BeginUpdate, Forget, vars, taskVars
<1>3. StatsTypes /\ clock \in Nat
  BY DEF RiskInv, StatsTypes
<1>4. /\ office' \in [op : {"idle", "health"}] \cup [op : {"update", "invalidate"}, user : Users]
      /\ stats_cache' \in [Users -> [since : Nat, risk : Nat] \cup {NoStatsCache}]
      /\ \A u \in Users : stats_cache'[u] \in {stats_cache[u], NoStatsCache}
  <2>0. Idle \in [op : {"idle", "health"}] /\ [op |-> "health"] \in [op : {"idle", "health"}]
    BY DEF Idle
  <2>1. CASE Invalidate
    BY <2>0, <2>1, <1>3 DEF Invalidate, StatsTypes
  <2>2. CASE EndHealth \/ BeginHealth
    BY <2>0, <2>2, <1>3 DEF EndHealth, BeginHealth, StatsTypes, cacheVars
  <2>3. CASE Tick \/ Quiet \/ (\E k \in Keys : Forget(k)) \/ UNCHANGED vars
    BY <2>3, <1>3 DEF Tick, Quiet, Forget, vars, StatsTypes, cacheVars
  <2>4. CASE Restart
    BY <2>0, <2>4, <1>3 DEF Restart, StatsTypes
  <2>5. ASSUME NEW u \in KnownUsers, BeginUpdate(u)
        PROVE  office' \in [op : {"update", "invalidate"}, user : Users] /\ stats_cache' = stats_cache
    <3>1. u \in Users
      BY TransactionsAssumption DEF TransactionsAssumption
    <3> QED  BY <2>5, <3>1 DEF BeginUpdate, cacheVars
  <2> QED  BY <2>1, <2>2, <2>3, <2>4, <2>5, <1>3 DEF StatsTypes
<1>5. StatsTypes'
  BY <1>1, <1>2, <1>3, <1>4 DEF StatsTypes
<1> QED  BY <1>1, <1>2, <1>3, <1>4, <1>5 DEF RiskKept

\* The task asks: it takes what the cache has, if that is fresh.
LEMMA LockRisk ==
    ASSUME LedgerInv, RiskInv, NEW r \in Requests, Lock(r)
    PROVE  RiskInv'
<1>1. /\ stats' = [stats EXCEPT ![r] = StartStats(r)]
      /\ UNCHANGED <<call, replaced, clock, stats_cache, office>>
  BY DEF Lock, cacheVars, boundVars
<1>2. StatsTypes /\ clock \in Nat /\ User(r) \in Users /\ StatsTTL \in Nat /\ StatsTTL > 0
  BY UserType, TransactionsAssumption DEF TransactionsAssumption, RiskInv, StatsTypes, LedgerInv
<1>3. /\ StartStats(r) \in StatsResults
      /\ StartStats(r).since <= clock
      /\ StartStats(r).at # "wait" => CurrentSince(User(r), StartStats(r).risk, StartStats(r).since)
      /\ StartStats(r).asked - StartStats(r).since < StatsTTL
  <2>1. CASE StatsFresh(User(r))
    <3>1. /\ stats_cache[User(r)] # NoStatsCache
          /\ clock - stats_cache[User(r)].since < StatsTTL
      BY <2>1 DEF StatsFresh
    <3>2. stats_cache[User(r)] \in [since : Nat, risk : Nat]
      BY <1>2, <3>1 DEF StatsTypes
    <3>3. /\ stats_cache[User(r)].since <= clock
          /\ CurrentSince(User(r), stats_cache[User(r)].risk, stats_cache[User(r)].since)
      BY <1>2, <3>1 DEF RiskInv, CacheRecent
    <3> QED  BY <2>1, <1>2, <3>1, <3>2, <3>3 DEF StartStats, StatsResults
  <2>2. CASE ~StatsFresh(User(r))
    BY <2>2, <1>2 DEF StartStats, StatsResults
  <2> QED  BY <2>1, <2>2
<1>4. StatsTypes'
  BY <1>1, <1>2, <1>3 DEF StatsTypes
<1>5. CacheRecent'
  BY <1>1 DEF RiskInv, CacheRecent, CurrentSince
<1>6. TaskRecent'
  <2> SUFFICES ASSUME NEW q \in Requests, stats'[q] # NoStats
               PROVE  /\ stats'[q].since <= clock
                      /\ stats'[q].at # "wait" => CurrentSince(User(q), stats'[q].risk, stats'[q].since)
                      /\ stats'[q].asked - stats'[q].since < StatsTTL
    BY <1>1 DEF TaskRecent, CurrentSince, User
  <2>1. stats'[q] = IF q = r THEN StartStats(r) ELSE stats[q]
    BY <1>1, <1>2 DEF StatsTypes
  <2> QED  BY <1>3, <2>1 DEF RiskInv, TaskRecent
<1> QED  BY <1>4, <1>5, <1>6 DEF RiskInv

\* The score is read: it is current now.
LEMMA ReadRisk ==
    ASSUME LedgerInv, RiskInv, NEW r \in Requests, StatsRead(r)
    PROVE  RiskInv'
<1>1. /\ stats[r].at = "wait"
      /\ stats' = [stats EXCEPT ![r] = [stats[r] EXCEPT !.at = "read", !.risk = Risk(User(r))]]
      /\ UNCHANGED <<call, replaced, clock, stats_cache, office>>
  BY DEF StatsRead, cacheVars, boundVars
<1>2. StatsTypes /\ User(r) \in Users
  BY UserType DEF RiskInv, LedgerInv
<1>3. stats[r] # NoStats /\ stats[r] \in StatsResults
  BY <1>1, <1>2 DEF StatsTypes, NoStats
<1> DEFINE new == [stats[r] EXCEPT !.at = "read", !.risk = Risk(User(r))]
<1>4. Risk(User(r)) = Len(replaced[User(r)]) /\ Risk(User(r)) \in Nat
  BY <1>2 DEF Risk, StatsTypes
<1>5. /\ new \in StatsResults /\ new.since = stats[r].since /\ new.asked = stats[r].asked
      /\ new.risk = Risk(User(r))
  BY <1>3, <1>4 DEF StatsResults
<1> HIDE DEF new
<1>6. CurrentSince(User(r), new.risk, new.since)
  BY <1>4, <1>5 DEF CurrentSince
<1>7. StatsTypes'
  BY <1>1, <1>2, <1>5 DEF StatsTypes, new
<1>8. CacheRecent'
  BY <1>1 DEF RiskInv, CacheRecent, CurrentSince
<1>9. TaskRecent'
  <2> SUFFICES ASSUME NEW q \in Requests, stats'[q] # NoStats
               PROVE  /\ stats'[q].since <= clock
                      /\ stats'[q].at # "wait" => CurrentSince(User(q), stats'[q].risk, stats'[q].since)
                      /\ stats'[q].asked - stats'[q].since < StatsTTL
    BY <1>1 DEF TaskRecent, CurrentSince, User
  <2>1. stats'[q] = IF q = r THEN new ELSE stats[q]
    BY <1>1, <1>2 DEF StatsTypes, new
  <2> QED  BY <1>3, <1>5, <1>6, <2>1 DEF RiskInv, TaskRecent
<1> QED  BY <1>7, <1>8, <1>9 DEF RiskInv

\* The cache gets what was read, stamped with the moment before it was.
LEMMA DoneRisk ==
    ASSUME LedgerInv, RiskInv, NEW r \in Requests, StatsDone(r)
    PROVE  RiskInv'
<1>1. /\ stats[r].at = "read"
      /\ stats_cache' = [stats_cache EXCEPT ![User(r)] = StatsEntry(r)]
      /\ stats' = [stats EXCEPT ![r] = Ended(r, [stats[r] EXCEPT !.at = "ok"])]
      /\ UNCHANGED <<call, replaced, clock, office>>
  BY DEF StatsDone, boundVars
<1>2. StatsTypes /\ User(r) \in Users
  BY UserType DEF RiskInv, LedgerInv
<1>3. stats[r] # NoStats /\ stats[r] \in StatsResults
  BY <1>1, <1>2 DEF StatsTypes, NoStats
<1> DEFINE new == [stats[r] EXCEPT !.at = "ok"]
<1>4. /\ new \in StatsResults /\ new.since = stats[r].since /\ new.asked = stats[r].asked
      /\ new.risk = stats[r].risk
  BY <1>3 DEF StatsResults
<1>5. /\ StatsEntry(r) \in [since : Nat, risk : Nat]
      /\ StatsEntry(r).since = stats[r].since /\ StatsEntry(r).risk = stats[r].risk
  BY <1>3 DEF StatsEntry, StatsResults
<1>6. /\ stats[r].since <= clock
      /\ CurrentSince(User(r), stats[r].risk, stats[r].since)
      /\ stats[r].asked - stats[r].since < StatsTTL
  BY <1>1, <1>3 DEF RiskInv, TaskRecent
<1>7. stats' \in [Requests -> StatsResults \cup {NoStats}]
  BY <1>1, <1>2, <1>4 DEF StatsTypes, Ended, NoStats
<1>8. StatsTypes'
  BY <1>1, <1>2, <1>5, <1>7 DEF StatsTypes
<1>9. CacheRecent'
  <2> SUFFICES ASSUME NEW u \in Users, stats_cache'[u] # NoStatsCache
               PROVE  /\ stats_cache'[u].since <= clock
                      /\ CurrentSince(u, stats_cache'[u].risk, stats_cache'[u].since)
    BY <1>1 DEF CacheRecent, CurrentSince
  <2>1. stats_cache'[u] = IF u = User(r) THEN StatsEntry(r) ELSE stats_cache[u]
    BY <1>1, <1>2 DEF StatsTypes
  <2> QED  BY <1>5, <1>6, <2>1 DEF RiskInv, CacheRecent
<1>10. \A q \in Requests : stats'[q] = stats[q] \/ stats'[q] = NoStats \/ (q = r /\ stats'[q] = new)
  BY <1>1, <1>2 DEF StatsTypes, Ended, NoStats
<1> HIDE DEF new
<1>11. TaskRecent'
  <2> SUFFICES ASSUME NEW q \in Requests, stats'[q] # NoStats
               PROVE  /\ stats'[q].since <= clock
                      /\ stats'[q].at # "wait" => CurrentSince(User(q), stats'[q].risk, stats'[q].since)
                      /\ stats'[q].asked - stats'[q].since < StatsTTL
    BY <1>1 DEF TaskRecent, CurrentSince, User
  <2> QED  BY <1>4, <1>6, <1>10 DEF RiskInv, TaskRecent
<1> QED  BY <1>8, <1>9, <1>11 DEF RiskInv

\* A score is replaced now, after every stamp: what was current is so until now.
LEMMA UpdateKeepsRisk ==
    ASSUME LedgerInv, RiskInv, UpdateRisk
    PROVE  RiskInv'
<1> DEFINE w == office.user
<1>1. /\ office.op = "update"
      /\ replaced' = [replaced EXCEPT ![w] = Append(replaced[w], clock)]
      /\ office' = [office EXCEPT !.op = "invalidate"]
      /\ UNCHANGED <<call, clock, stats, stats_cache>>
  BY DEF UpdateRisk, taskVars, cacheVars, boundVars
<1>2. StatsTypes /\ clock \in Nat
  BY DEF RiskInv, StatsTypes
<1>3. office \in [op : {"update", "invalidate"}, user : Users] /\ w \in Users
  BY <1>1, <1>2 DEF StatsTypes
<1>4. office' \in [op : {"update", "invalidate"}, user : Users]
  BY <1>1, <1>3
<1> HIDE DEF w
<1>5. StatsTypes'
  BY <1>1, <1>2, <1>3, <1>4 DEF StatsTypes
<1>6. ASSUME NEW u \in Users, NEW v \in Nat, NEW t \in Nat, t <= clock, CurrentSince(u, v, t)
      PROVE  CurrentSince(u, v, t)'
  <2>1. CASE u # w
    BY <1>1, <1>2, <1>6, <2>1 DEF CurrentSince, StatsTypes
  <2>2. CASE u = w
    <3>1. replaced[u] \in Seq(Nat) /\ replaced'[u] = Append(replaced[u], clock)
      BY <1>1, <1>2, <2>2 DEF StatsTypes
    <3>2. /\ Len(replaced'[u]) = Len(replaced[u]) + 1 /\ Len(replaced[u]) \in Nat
          /\ replaced'[u][Len(replaced[u]) + 1] = clock
          /\ \A i \in 1 .. Len(replaced[u]) : replaced'[u][i] = replaced[u][i]
      BY <1>2, <3>1
    <3>3. CASE v = Len(replaced[u])
      BY <1>6, <3>2, <3>3 DEF CurrentSince
    <3>4. CASE v # Len(replaced[u])
      <4>1. v + 1 \in 1 .. Len(replaced[u]) /\ replaced[u][v + 1] >= t
        BY <1>6, <3>2, <3>4 DEF CurrentSince
      <4> QED  BY <3>2, <4>1 DEF CurrentSince
    <3> QED  BY <3>3, <3>4
  <2> QED  BY <2>1, <2>2
<1>7. CacheRecent'
  <2> SUFFICES ASSUME NEW u \in Users, stats_cache[u] # NoStatsCache
               PROVE  /\ stats_cache[u].since <= clock
                      /\ CurrentSince(u, stats_cache[u].risk, stats_cache[u].since)'
    BY <1>1 DEF CacheRecent
  <2>1. stats_cache[u].since \in Nat /\ stats_cache[u].risk \in Nat
    BY <1>2 DEF StatsTypes
  <2>2. /\ stats_cache[u].since <= clock
        /\ CurrentSince(u, stats_cache[u].risk, stats_cache[u].since)
    BY DEF RiskInv, CacheRecent
  <2>3. CurrentSince(u, stats_cache[u].risk, stats_cache[u].since)'
    BY <1>1, <1>6, <2>1, <2>2 DEF CurrentSince
  <2> QED  BY <2>2, <2>3
<1>8. TaskRecent'
  <2> SUFFICES ASSUME NEW r \in Requests, stats[r] # NoStats
               PROVE  /\ stats[r].since <= clock
                      /\ stats[r].at # "wait" => CurrentSince(User(r), stats[r].risk, stats[r].since)'
                      /\ stats[r].asked - stats[r].since < StatsTTL
    BY <1>1 DEF TaskRecent
  <2>1. stats[r].since \in Nat /\ stats[r].risk \in Nat /\ User(r) \in Users
    BY <1>2, UserType DEF StatsTypes, StatsResults, LedgerInv
  <2>2. /\ stats[r].since <= clock
        /\ stats[r].at # "wait" => CurrentSince(User(r), stats[r].risk, stats[r].since)
        /\ stats[r].asked - stats[r].since < StatsTTL
    BY DEF RiskInv, TaskRecent
  <2>3. stats[r].at # "wait" => CurrentSince(User(r), stats[r].risk, stats[r].since)'
    BY <1>1, <1>6, <2>1, <2>2 DEF CurrentSince, User
  <2> QED  BY <2>2, <2>3
<1> QED  BY <1>5, <1>7, <1>8 DEF RiskInv

\* Nothing is cached or asked at the start.
LEMMA RiskInit == Init => RiskInv
<1> SUFFICES ASSUME Init PROVE RiskInv
    OBVIOUS
<1>1. /\ stats = [r \in Requests |-> NoStats] /\ stats_cache = [u \in Users |-> NoStatsCache]
      /\ replaced = [u \in Users |-> <<>>] /\ office = Idle /\ clock = 0
  BY DEF Init
<1>2. StatsTypes
  BY <1>1 DEF StatsTypes, Idle
<1> QED  BY <1>1, <1>2 DEF RiskInv, CacheRecent, TaskRecent

\* Every step keeps the scores recent.
LEMMA RiskNext == LedgerInv /\ RiskInv /\ [Next]_vars => RiskInv'
<1> SUFFICES ASSUME LedgerInv, RiskInv, [Next]_vars PROVE RiskInv'
    OBVIOUS
<1>1. ASSUME NEW r \in Requests, Receive(r) \/ Step(r) PROVE RiskInv'
  BY <1>1, RiskOfStep, RiskQuiet, LockRisk
<1>2. ASSUME NEW r \in Requests, TaskStep(r), ~StatsRead(r), ~StatsDone(r) PROVE RiskInv'
  BY <1>2, RiskOfStep, RiskQuiet, LockRisk DEF TaskStep
<1>3. ASSUME NEW r \in Requests, TaskStep(r) PROVE RiskInv'
  BY <1>2, <1>3, ReadRisk, DoneRisk
<1>4. CASE \/ Invalidate \/ EndHealth \/ BeginHealth \/ Tick \/ Quiet \/ Restart
           \/ \E u \in KnownUsers : BeginUpdate(u)
           \/ \E k \in Keys : Forget(k)
           \/ UNCHANGED vars
  BY <1>4, RiskOfOthers, RiskQuiet
<1> QED  BY <1>1, <1>3, <1>4, UpdateKeepsRisk DEF Next, Work

\* The risk score a request decides on was its user's at some moment less than
\* cache_ttl before it asked, whatever updates and loads overtake each other.
THEOREM RiskStaysRecent == Spec => []RiskWasRecent
<1>1. LedgerInv /\ RiskInv => RiskWasRecent
  <2> SUFFICES ASSUME LedgerInv, RiskInv, NEW r \in Requests, stats[r].at = "ok"
               PROVE  \/ stats[r].risk = Risk(User(r))
                      \/ replaced[User(r)][stats[r].risk + 1] > stats[r].asked - StatsTTL
      BY DEF RiskWasRecent
  <2>1. stats[r] # NoStats /\ User(r) \in Users /\ StatsTypes
    BY UserType DEF NoStats, LedgerInv, RiskInv
  <2>2. /\ stats[r].asked \in Nat /\ stats[r].since \in Nat /\ stats[r].risk \in Nat
        /\ replaced[User(r)] \in Seq(Nat) /\ StatsTTL \in Nat
    BY <2>1, TransactionsAssumption DEF TransactionsAssumption, StatsTypes, StatsResults
  <2>3. /\ CurrentSince(User(r), stats[r].risk, stats[r].since)
        /\ stats[r].asked - stats[r].since < StatsTTL
    BY <2>1 DEF RiskInv, TaskRecent
  <2>4. CASE stats[r].risk = Len(replaced[User(r)])
    BY <2>4 DEF Risk
  <2>5. CASE stats[r].risk # Len(replaced[User(r)])
    <3>1. /\ replaced[User(r)][stats[r].risk + 1] >= stats[r].since
          /\ stats[r].risk + 1 \in 1 .. Len(replaced[User(r)])
      BY <2>2, <2>3, <2>5 DEF CurrentSince
    <3>2. replaced[User(r)][stats[r].risk + 1] \in Nat
      BY <2>2, <3>1
    <3>3. ASSUME NEW x \in Nat, NEW a \in Nat, NEW b \in Nat, NEW k \in Nat, x >= b, a - b < k
          PROVE  x > a - k
      BY <3>3
    <3> QED  BY <2>2, <2>3, <3>1, <3>2, <3>3
  <2> QED  BY <2>4, <2>5
<1> QED  BY <1>1, RiskInit, RiskNext, LedgerInvariance, PTL DEF Spec
=============================================================================
