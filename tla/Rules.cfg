SPECIFICATION CacheSpec
CONSTANTS
    Workers = {w1, w2}
    Evaluations = {e1, e2}
    Names = {n1}
    Expressions <- MCExpressions
    Contexts <- MCContexts
    test_context <- MCTestContext
    parser_safe_eval <- safe_eval
    Chains <- MCChains
    Junctions <- MCJunctions
    cache_ttl = 2
    MaxTime = 2
    MaxChanges = 2
SYMMETRY Symmetry
INVARIANTS
    RulesWereRecent
    
    
    
