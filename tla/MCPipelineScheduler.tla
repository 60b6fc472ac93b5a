------------------------ MODULE MCPipelineScheduler ------------------------
EXTENDS PipelineScheduler

Policy(n, workers, staging, batch, adapter, priority) ==
  [n |-> n, workers |-> workers, staging |-> staging, batch |-> batch, adapter |-> adapter,
   priority |-> priority]

\* Portfolios on two workers, three prompts for one worker with the smallest lookahead,
\* the draining evaluation policy, and native trials, whose requests have no on_expired.
MCPolicies == {Policy(2, 2, 8, 8, TRUE, FALSE), Policy(3, 1, 2, 1, TRUE, FALSE),
               Policy(3, 1, 2, 1, TRUE, TRUE), Policy(2, 2, 8, 8, FALSE, FALSE)}
============================================================================
