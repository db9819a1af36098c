----------------------------- MODULE RuleCache -----------------------------
(***************************************************************************)
(* The rule cache of PANOPTICON's RuleEvaluator (prog6): the table         *)
(* fraud_rules, shared by the uvicorn workers, the rule cache of every     *)
(* worker, evaluations that load it and administrative calls that change   *)
(* the table and then reset the cache of their own worker.  Every await is *)
(* a place where others run.  The time starts late enough for              *)
(* cache_timestamp = 0 to be expired.  What an expression evaluates to is  *)
(* a parameter: RuleParser models it.                                      *)
(***************************************************************************)
EXTENDS Integers, Sequences, FiniteSets

CONSTANTS
    Workers,
    Evaluations,        \* calls of evaluate_all
    Names,              \* rule names, UNIQUE in the table
    Expressions,        \* the expressions the administrators offer
    Contexts,           \* the contexts process_transaction can build
    test_context,       \* the context add_rule tries a rule with
    parser_safe_eval(_, _),  \* self.parser.safe_eval: RuleParser's safe_eval
    cache_ttl,
    MaxTime,           \* bound: seconds explored
    MaxChanges          \* bound: administrative calls

ASSUME RuleAssumption ==
    /\ cache_ttl \in Nat \ {0} /\ MaxTime \in Nat /\ MaxChanges \in Nat
    /\ \A c \in Contexts : DOMAIN c = DOMAIN test_context

VARIABLES
    table,              \* the rows of fraud_rules
    past,               \* history: the earlier contents and when they were replaced
    rule_cache, cache_timestamp,  \* per worker
    source,             \* history, per worker: the version cached, whether the
                        \* table changed while it was on its way, and the last
                        \* version this worker wrote
    evaluation,         \* per call of evaluate_all
    admin,              \* the administrative call under way
    time, changes

cacheVars == <<table, past, rule_cache, cache_timestamp, source, evaluation, admin, time, changes>>

Rule == [name : Names, expression : Expressions, enabled : BOOLEAN, shadow_mode : BOOLEAN]

Version == Len(past)
NoEvaluation == [at |-> "none"]
NoCall == [at |-> "none"]

CacheInit ==
    /\ table = {}
    /\ past = <<>>
    /\ rule_cache = [w \in Workers |-> {}]
    /\ cache_timestamp = [w \in Workers |-> 0]
    /\ source = [w \in Workers |-> [version |-> 0, raced |-> FALSE, wrote |-> 0]]
    /\ evaluation = [e \in Evaluations |-> NoEvaluation]
    /\ admin = NoCall
    /\ time = cache_ttl
    /\ changes = 0

-----------------------------------------------------------------------------
(* Evaluations.                                                            *)

Fresh(w) == time - cache_timestamp[w] < cache_ttl /\ rule_cache[w] # {}

\* A rule that raises does not match.
evaluate_rule(expression, context) ==
    LET x == parser_safe_eval(expression, context) IN x.ok /\ x.v[1] # 0

Matched(rules, context) == {x \in rules : evaluate_rule(x.expression, context)}

\* process_transaction: shadow rules count for the score, not as reasons.
\* ml is the model's score in tenths, 0 without a model.
Status(rules, matched, ml) ==
    IF 10 * Cardinality(matched) > 6 * Cardinality(rules) \/ ml > 6 THEN "blocked" ELSE "approved"

Reasons(matched) == {x \in matched : ~x.shadow_mode}

Result(rules, asked, context, ml) ==
    LET matched == Matched(rules, context) IN
    [at |-> "done", rules |-> rules, asked |-> asked,
     blocked_reasons |-> IF Status(rules, matched, ml) = "approved" THEN {}
                         ELSE {x.name : x \in Reasons(matched)}]

\* evaluate_all with a fresh cache runs without an await.
EvaluateCached(e, w, context, ml) ==
    /\ evaluation[e] = NoEvaluation
    /\ Fresh(w)
    /\ evaluation' = [evaluation EXCEPT ![e] = Result(rule_cache[w], time, context, ml)]
    /\ UNCHANGED <<table, past, rule_cache, cache_timestamp, source, admin, time, changes>>

Load(e, w) ==
    /\ evaluation[e] = NoEvaluation
    /\ ~Fresh(w)
    /\ evaluation' = [evaluation EXCEPT ![e] = [at |-> "load", worker |-> w, asked |-> time]]
    /\ UNCHANGED <<table, past, rule_cache, cache_timestamp, source, admin, time, changes>>

\* WHERE enabled = true
SelectEnabled == {x \in table : x.enabled}

Fetch(e) ==
    /\ evaluation[e].at = "load"
    /\ evaluation' = [evaluation EXCEPT ![e] =
                        [at |-> "fetched", worker |-> @.worker, asked |-> @.asked,
                         rules |-> SelectEnabled, version |-> Version, raced |-> FALSE]]
    /\ UNCHANGED <<table, past, rule_cache, cache_timestamp, source, admin, time, changes>>

\* The query raises, and evaluate_all with it.
FetchFails(e) ==
    /\ evaluation[e].at = "load"
    /\ evaluation' = [evaluation EXCEPT ![e] = [at |-> "failed"]]
    /\ UNCHANGED <<table, past, rule_cache, cache_timestamp, source, admin, time, changes>>

\* Mutation: the cache is stamped with the time it is written.
StampLate(e) == time

\* current_time, read before the query.
Stamp(e) == evaluation[e].asked

\* The connection is back: the cache is replaced and the rules evaluated.
Fill(e, context, ml) ==
    LET w == evaluation[e].worker IN
    /\ evaluation[e].at = "fetched"
    /\ rule_cache' = [rule_cache EXCEPT ![w] = evaluation[e].rules]
    /\ cache_timestamp' = [cache_timestamp EXCEPT ![w] = Stamp(e)]
    /\ source' = [source EXCEPT ![w].version = evaluation[e].version, ![w].raced = evaluation[e].raced]
    /\ evaluation' = [evaluation EXCEPT ![e] =
                        Result(evaluation[e].rules, evaluation[e].asked, context, ml)]
    /\ UNCHANGED <<table, past, admin, time, changes>>

-----------------------------------------------------------------------------
(* Administrative calls.                                                   *)

\* The table changes: the loads under way have what was there before.
Write(rows, w) ==
    /\ table' = rows
    /\ past' = Append(past, [rows |-> table, until |-> time])
    /\ source' = [source EXCEPT ![w].wrote = Version + 1]
    /\ evaluation' = [e \in Evaluations |->
            IF evaluation[e].at = "fetched" THEN [evaluation[e] EXCEPT !.raced = TRUE] ELSE evaluation[e]]
    /\ admin' = [at |-> "reset", worker |-> w]
    /\ changes' = changes + 1
    /\ UNCHANGED <<rule_cache, cache_timestamp, time>>

\* A rule is tried before it is inserted; a taken name is refused.
add_rule(w, rule) ==
    /\ admin = NoCall /\ changes < MaxChanges
    /\ parser_safe_eval(rule.expression, test_context).ok
    /\ \A x \in table : x.name # rule.name
    /\ Write(table \cup {rule}, w)

update_rule_status(w, old, enabled, shadow_mode) ==
    /\ admin = NoCall /\ changes < MaxChanges
    /\ old \in table
    /\ Write((table \ {old}) \cup {[old EXCEPT !.enabled = enabled, !.shadow_mode = shadow_mode]}, w)

\* Mutation: the cache is left alone.
ResetNothing(w) == cache_timestamp

\* self.cache_timestamp = 0
ResetStamp(w) == [cache_timestamp EXCEPT ![w] = 0]

Reset ==
    /\ admin.at = "reset"
    /\ cache_timestamp' = ResetStamp(admin.worker)
    /\ admin' = NoCall
    /\ UNCHANGED <<table, past, rule_cache, source, evaluation, time, changes>>

TimePasses ==
    /\ time < cache_ttl + MaxTime
    /\ time' = time + 1
    /\ UNCHANGED <<table, past, rule_cache, cache_timestamp, source, evaluation, admin, changes>>

\* Every call has come to its end.
AllAnswered ==
    /\ \A e \in Evaluations : evaluation[e].at \in {"done", "failed"}
    /\ admin = NoCall
    /\ UNCHANGED cacheVars

CacheNext ==
    \/ \E e \in Evaluations :
         \/ \E w \in Workers : Load(e, w)
         \/ Fetch(e) \/ FetchFails(e)
         \/ \E c \in Contexts, ml \in {0, 7} :
              Fill(e, c, ml) \/ \E w \in Workers : EvaluateCached(e, w, c, ml)
    \/ \E w \in Workers : \E rule \in Rule : add_rule(w, rule)
    \/ \E w \in Workers : \E old \in table : \E enabled, shadow \in BOOLEAN :
         update_rule_status(w, old, enabled, shadow)
    \/ Reset
    \/ TimePasses
    \/ AllAnswered

CacheSpec == CacheInit /\ [][CacheNext]_cacheVars

-----------------------------------------------------------------------------
(* Properties.                                                             *)

\* The contents the table had at some moment less than cache_ttl before t.
RecentTables(t) ==
    {table} \cup {past[i].rows : i \in {j \in DOMAIN past : past[j].until > t - cache_ttl}}

\* load_rules: the rules a decision was made with were the table's enabled
\* rules at some moment less than cache_ttl before the decision was asked
\* for, on every worker, whatever overtook the load.
RulesWereRecent ==
    \A e \in Evaluations : evaluation[e].at = "done" =>
        \E rows \in RecentTables(evaluation[e].asked) :
            evaluation[e].rules = {x \in rows : x.enabled}

\* add_rule and update_rule_status reset the cache of their worker after
\* the table: a cache that is still fresh has the worker's own last change,
\* unless the reset is yet to come or the change overtook the load.
FreshUnlessRaced ==
    \A w \in Workers :
        Fresh(w) /\ source[w].version < source[w].wrote =>
            source[w].raced \/ (admin.at = "reset" /\ admin.worker = w)
=============================================================================
