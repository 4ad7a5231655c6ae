--------------------------- MODULE MCRuleExecution ---------------------------
\* One run, whose rules may pass or raise in any mix, and three workers: one for the
\* engine, two for the requests that measure or cancel it meanwhile.
EXTENDS RuleExecution
===============================================================================
