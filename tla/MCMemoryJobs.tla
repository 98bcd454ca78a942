---------------------------- MODULE MCMemoryJobs ----------------------------
(* MemoryJobs for TLC.                                                      *)
EXTENDS MemoryJobs

\* What is never read again is left out when states are compared: the token of
\* a job that is not running, the claim of a worker that has reported, the inputs
\* of a run that has given up or is over, the writer of an output that is gone,
\* and, once two runs have overlapped, what only SuccessMeansConsolidated, which
\* then claims nothing, looks at.
Live ==
    <<threadVars, status, lease, backoff, retries, input, success, outVars,
      [t \in Threads |-> IF status[t] = "running" THEN token[t] ELSE 0],
      claims, working,
      [k \in Claims |-> IF working[k] THEN <<claimOf[k], claimed[k]>> ELSE <<>>],
      gStatus, IF gStatus = "running" THEN gToken ELSE 0,
      gLease, gBackoff, gCooldown,
      runs, pc,
      [w \in Runs |-> IF pc[w] \in Active \ {"zombie"} THEN inputs[w] ELSE {}],
      files, art, base, upsetVars, epoch,
      [t \in Threads |-> IF out[t] # 0 THEN writer[t] ELSE 0],
      okInputs, overlap, IF overlap THEN <<>> ELSE <<okArt, stuck>>>>

=============================================================================
