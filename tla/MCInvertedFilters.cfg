CONSTANTS
    Policies <- MCPolicies
    Traces <- MCTraces
    RegexMatches <- MCRegexMatches
    MaxHash = 4
    MaxSecond = 2
    MaxEvaluations = 3
SPECIFICATION PolSpec
INVARIANT FiltersMatchAsDocumented
CHECK_DEADLOCK FALSE
