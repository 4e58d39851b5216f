---------------------------- MODULE MCBackupJobs ----------------------------
(* Small instances, for TLC, of what the two pollers outside must bring to an *)
(* end: the box agent's jobs, and Mollie's deliveries.  They meet in no       *)
(* variable, so each behaviour runs one of them, and asks the fairness of it: *)
(* the agent, whose next push is always due, is asked nothing where it does   *)
(* not run; of Mollie nothing is due there.                                   *)
EXTENDS BackupJobs, MollieWebhook, TLC

VARIABLE part

MCInit == part \in {"backup", "webhook"} /\ BackupInit /\ Init

MCNext ==
  \/ part = "backup" /\ BackupNext /\ UNCHANGED <<part, vars>>
  \/ part = "webhook" /\ Next /\ UNCHANGED <<part, backupVars>>

AgentDoes(A) == part = "backup" /\ A

\* BackupFairness, where the agent runs.
AgentFairness ==
  /\ \A j \in Jobs : /\ WF_backupVars(AgentDoes(LeaseEnds(j)))
                     /\ SF_backupVars(AgentDoes(\E r \in Runs : ClaimJob(r, j)))
  /\ \A r \in Runs : /\ WF_backupVars(AgentDoes(Work(r)))
                     /\ WF_backupVars(AgentDoes(Report(r) /\ rpc'[r] = "idle"))
  /\ \A p \in Pushes : /\ WF_backupVars(AgentDoes(SendList(p)))
                       /\ WF_backupVars(AgentDoes(Stamp(p)))
                       /\ WF_backupVars(AgentDoes(Ingest(p)))

MCSpec == MCInit /\ [][MCNext]_<<part, backupVars, vars>> /\ AgentFairness /\ Fairness
=============================================================================
