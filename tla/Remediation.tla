----------------------------- MODULE Remediation -----------------------------
(***************************************************************************)
(* Running rules and working off the issues they find, in one browser tab.  *)
(* Executions fill the issues table; the issues page and the execution      *)
(* pages share it through the server, and one of them is mounted at a time. *)
(***************************************************************************)
EXTENDS Integers, Sequences, FiniteSets

CONSTANTS Issues, Rules, Filters, MaxRuns, MaxJobs, MaxLost,
          MaxClicks    \* bound on what this user clicks and other members change

ASSUME IssueAssumption ==
    /\ Issues # {} /\ IsFiniteSet(Issues) /\ "no issue" \notin Issues
    /\ "all" \in Filters /\ Filters \subseteq {"all", "open", "resolved"}
ASSUME BoundAssumption ==
    /\ MaxRuns \in Nat \ {0}
    /\ MaxJobs \in Nat /\ MaxLost \in Nat /\ MaxClicks \in Nat

VARIABLES page, clicks,
          issues, fixes, asked, desk, list, jobs,
          runs, submits, form, posts, table, viewed, seen, reading, cancelling,
          lost

deskVars == <<fixes, asked, desk, list, jobs>>
executionVars == <<runs, submits, form, posts, table, viewed, seen, reading, cancelling>>
vars == <<page, clicks, issues, deskVars, executionVars, lost>>

I == INSTANCE IssueDesk
E == INSTANCE ExecutionDesk

Init ==
    /\ page \in {"issues", "executions"} /\ clicks = 0 /\ lost = 0
    /\ I!IssuesInit(IF page = "issues" THEN 1 ELSE 0)
    /\ E!ExecutionsInit

Click == clicks < MaxClicks /\ clicks' = clicks + 1

\* The links of the sidebar.
Visit(p) == page # p /\ page' = p /\ Click

Leaving == IF page = "issues" THEN I!LeaveIssues ELSE UNCHANGED deskVars

OpenIssues == Visit("issues") /\ I!OpenIssues /\ E!LeaveExecutions

OpenExecutions == Visit("executions") /\ Leaving /\ E!OpenExecutions

OpenCreate == page = "executions" /\ Visit("create") /\ E!OpenCreate /\ UNCHANGED deskVars

\* What moves the page on by itself is not a click.
Working ==
    /\ \/ I!IssueAnswers /\ UNCHANGED clicks
       \/ page = "issues" /\ I!IssueMoves /\ UNCHANGED clicks
       \/ page = "issues" /\ I!IssueClicks /\ Click
       \/ I!OthersResolve /\ Click
    /\ UNCHANGED <<page, executionVars>>

Running ==
    /\ \/ E!ExecutionAnswers /\ UNCHANGED clicks
       \/ E!ExecutionMoves /\ UNCHANGED clicks
       \/ (\E s \in 1..MaxJobs : E!handleSubmit(s)) /\ Click
       \/ (\E e \in DOMAIN runs : E!LinkToExecution(e)) /\ Click
    /\ UNCHANGED deskVars

\* The page that is left may be any.
Created ==
    /\ \E s \in 1..MaxJobs : E!Created(s)
    /\ Leaving
    /\ UNCHANGED clicks

Next == OpenIssues \/ OpenExecutions \/ OpenCreate \/ Working \/ Running \/ Created

Spec == Init /\ [][Next]_vars

-----------------------------------------------------------------------------
\* Both desks, their dialogs, queries and requests keep to their values.
TypeOK ==
    /\ page \in {"issues", "executions", "create", "execution"}
    /\ clicks \in 0..MaxClicks
    /\ I!IssuesTypeOK /\ E!ExecutionsTypeOK

\* Nothing is made that nobody asked for: a fix row or an execution beyond what was
\* submitted comes from a request that was sent again after its answer was lost,
\* however jobs overlap and whether or not their page is still open.
OnlyAskedFor ==
    fixes + Len(runs) <= 1 + asked + submits + lost

\* What a job counts as fixed or resolved, the server resolved; one that it could
\* not reach is counted as failed (issues/page.tsx: successCount, errorCount).
SuccessesAreResolved ==
    \A s \in 1..MaxJobs : \A i \in jobs[s].good :
        jobs[s].request # "unresolve" => issues[i].status # "open"
=============================================================================
