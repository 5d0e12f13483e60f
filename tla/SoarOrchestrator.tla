-------------------------- MODULE SoarOrchestrator --------------------------
(***************************************************************************)
(* SOAROrchestrator: control-plane/src/soar/orchestrator.py, with the      *)
(* three playbooks of soar/playbooks.                                      *)
(*                                                                         *)
(* A playbook is a sequence of stages; the actions of a stage are gathered *)
(* and run together.  gather() starts them back to back, so a stage starts *)
(* in one step.  The actions of the built-in playbooks catch what their    *)
(* calls to a service raise and return it as output: such an action ends   *)
(* as "success" whatever the service did.  What they raise, they raise as  *)
(* soon as they are started, and so does run() itself (see Faults); an     *)
(* action of a playbook added by register() may raise at any time.         *)
(*                                                                         *)
(* An execution is a task.  Shutdown cancels the tasks; CancelledError is  *)
(* no Exception, so the status and the running actions stay as they were.  *)
(***************************************************************************)
EXTENDS Naturals, Sequences, FiniteSets, SequencesExt, Ordering

CONSTANTS
  Executions,  \* PlaybookExecution ids
  Alerts,      \* what run() reads of an alert: a record, see AlertType
  CustomPlan,  \* the stages of a playbook added by register()
  Raising,     \* actions of it whose coroutine may raise
  Critical,    \* those of them recorded with critical=True
  Broken,      \* actions whose connector cannot be imported
  NoRow        \* nothing is persisted

AlertType ==
  [host : BOOLEAN, ip : BOOLEAN, user : BOOLEAN, pid : BOOLEAN,
   labels : BOOLEAN,                          \* "labels" is absent or a mapping
   risk : {"low", "high", "critical", "text"}] \* "text": not a number

VARIABLES
  plan,      \* plan[e]: the stages that run() goes through for its alert
  phase,     \* where the task of e is
  at,        \* at[e]: the stage the task is in
  faults,    \* faults[e]: what will raise as soon as it is started
  acts,      \* acts[e][a]: the ActionResult of a, "none" before it is recorded
  aborted,   \* executions whose run() raised: "playbook_runner" is recorded
  status,    \* PlaybookExecution.status
  row,       \* row[e]: the status in thor.soar_executions, or NoRow
  announced, \* executions published on thor:soar:executions
  serving    \* FALSE once the event loop is shut down

orchVars == <<plan, phase, at, faults, acts, aborted, status, row, announced, serving>>

-----------------------------------------------------------------------------
Only(c, S) == IF c THEN S ELSE {}
Staged(s) == AtPositions(s, {i \in DOMAIN s : s[i] # {}})

AptPlan(a) == Staged(
  << {"notify_security_team"},
     Only(a.host, {"isolate_host"}) \cup Only(a.ip, {"block_ip"}),
     Only(a.user, {"force_logout"}),
     Only(a.ip, {"ti_enrich_ip"}),
     {"create_incident_ticket"},
     {"schedule_forensics"} >>)

RansomwarePlan(a) == Staged(
  << {"EMERGENCY_isolate", "snapshot_volumes", "alert_critical_channel"},
     Only(a.pid, {"kill_pid"}) \cup
       {"disable_vss_deletion", "disable_scheduled_tasks", "revoke_smb_shares"},
     {"pagerduty_p1", "create_jira_p1", "notify_executives"},
     {"assess_recovery_options"} >>)

InsiderPlan(a) == Staged(
  << Only(a.risk = "critical", {"revoke_access", "preserve_evidence", "notify_hr_legal"}) \cup
       Only(a.risk = "high", {"increase_monitoring", "notify_manager"}),
     {"collect_dlp_evidence", "create_hr_ticket"} >>)

(* Actions whose coroutine awaits an external service, and catches what it *)
(* raises; the others run to their end as soon as they are started.        *)
AptRemote == {"ti_enrich_ip", "create_incident_ticket"}
RansomwareRemote == {"pagerduty_p1", "create_jira_p1"}
InsiderRemote == {"create_hr_ticket"}
Remote == AptRemote \cup RansomwareRemote \cup InsiderRemote \cup UNION ToSet(CustomPlan)

(* What raises at once: notify_security_team imports a SlackNotifier that  *)
(* does not exist; alert_critical_channel formats the risk as a number; a  *)
(* connector may not be importable, and its import is outside the try; and *)
(* run() itself, before its first stage, for labels that are no mapping or *)
(* a risk that cannot be compared.                                         *)
Runner == "playbook_runner"

Faults(p, a) ==
  CASE p = "apt_lateral_movement" -> {"notify_security_team"} \cup (Broken \cap AptRemote)
    [] p = "ransomware_detected"  -> Only(a.risk = "text", {"alert_critical_channel"})
                                       \cup (Broken \cap RansomwareRemote) \cup Only(~a.labels, {Runner})
    [] p = "insider_threat"       -> (Broken \cap InsiderRemote)
                                       \cup Only(~a.labels \/ a.risk = "text", {Runner})
    [] p = "custom"               -> {}

Playbooks == {"apt_lateral_movement", "ransomware_detected", "insider_threat", "custom"}

Plan(p, a) ==
  CASE p = "apt_lateral_movement" -> AptPlan(a)
    [] p = "ransomware_detected"  -> RansomwarePlan(a)
    [] p = "insider_threat"       -> InsiderPlan(a)
    [] p = "custom"               -> CustomPlan

ActionsOf(s) == UNION ToSet(s)

(* A registered playbook awaits its actions one by one; their names tell   *)
(* them apart, from each other and from those of the built-in playbooks.   *)
ASSUME OrchAssumption ==
  /\ Alerts \subseteq AlertType
  /\ Critical \subseteq Raising
  /\ CustomPlan \in Seq(ToSet(CustomPlan)) /\ CustomPlan # <<>>
  /\ \A i \in 1..Len(CustomPlan) : \E a \in CustomPlan[i] : CustomPlan[i] = {a}
  /\ \A i, j \in 1..Len(CustomPlan) : i # j => CustomPlan[i] # CustomPlan[j]
  /\ "lookup_playbook" \notin ActionsOf(CustomPlan)
  /\ \A p \in Playbooks \ {"custom"} : \A a \in Alerts : Raising \cap ActionsOf(Plan(p, a)) = {}

Recorded(e, r) == {a \in DOMAIN acts[e] : acts[e][a] = r}

-----------------------------------------------------------------------------
OrchInit ==
  /\ plan = [e \in Executions |-> <<>>]
  /\ phase = [e \in Executions |-> "none"]
  /\ at = [e \in Executions |-> 0]
  /\ faults = [e \in Executions |-> {}]
  /\ acts = [e \in Executions |-> <<>>]
  /\ aborted = {}
  /\ status = [e \in Executions |-> "pending"]
  /\ row = [e \in Executions |-> NoRow]
  /\ announced = {}
  /\ serving = TRUE

(* trigger(): a handler was found, by name or by part of the name.         *)
TriggerPlaybook(e, p, a) ==
  /\ serving
  /\ phase[e] = "none"
  /\ plan' = [plan EXCEPT ![e] = Plan(p, a)]
  /\ faults' = [faults EXCEPT ![e] = Faults(p, a)]
  /\ acts' = [acts EXCEPT ![e] = [x \in ActionsOf(Plan(p, a)) |-> "none"]]
  /\ phase' = [phase EXCEPT ![e] = "created"]
  /\ UNCHANGED <<at, aborted, status, row, announced, serving>>

(* trigger(): no handler; the execution fails at once and no task runs.    *)
TriggerUnknown(e) ==
  /\ serving
  /\ phase[e] = "none"
  /\ status' = [status EXCEPT ![e] = "failed"]
  /\ acts' = [acts EXCEPT ![e] = [x \in {"lookup_playbook"} |-> "failed"]]
  /\ phase' = [phase EXCEPT ![e] = "over"]
  /\ UNCHANGED <<plan, at, faults, aborted, row, announced, serving>>

(* The results after stage n starts: local actions end at once.            *)
StartedStage(e, n) ==
  [x \in DOMAIN acts[e] |->
     CASE x \in plan[e][n] \cap faults[e]            -> "failed"
       [] x \in (plan[e][n] \cap Remote) \ faults[e] -> "running"
       [] x \in plan[e][n] \ (Remote \cup faults[e])  -> "success"
       [] OTHER                                      -> acts[e][x]]

EnterStage(e, n) ==
  /\ at' = [at EXCEPT ![e] = n]
  /\ acts' = [acts EXCEPT ![e] = StartedStage(e, n)]

Begin(e) ==
  /\ serving
  /\ phase[e] = "created" /\ Runner \notin faults[e]
  /\ EnterStage(e, 1)
  /\ phase' = [phase EXCEPT ![e] = "running"]
  /\ status' = [status EXCEPT ![e] = "running"]
  /\ UNCHANGED <<plan, faults, aborted, row, announced, serving>>

(* Mutant: run() does not wait for what it has started.                    *)
StageStarted(e) == \A x \in plan[e][at[e]] : acts[e][x] # "none"

(* Mutant: an action that failed is waited for.                            *)
StageSucceeded(e) == \A x \in plan[e][at[e]] : acts[e][x] = "success"

(* The await on the stage returns.                                         *)
StageOver(e) == \A x \in plan[e][at[e]] : acts[e][x] \in {"success", "failed"}

NextStage(e) ==
  /\ serving
  /\ phase[e] = "running"
  /\ StageOver(e)
  /\ at[e] < Len(plan[e])
  /\ EnterStage(e, at[e] + 1)
  /\ UNCHANGED <<plan, faults, phase, aborted, status, row, announced, serving>>

ActionReturns(e, a) ==
  /\ serving
  /\ phase[e] = "running"
  /\ acts[e][a] = "running"
  /\ acts' = [acts EXCEPT ![e][a] = "success"]
  /\ UNCHANGED <<plan, faults, phase, at, aborted, status, row, announced, serving>>

OutcomeOf(e) == IF Recorded(e, "failed") # {} THEN "partial" ELSE "success"

(* _execute(): what leaves run() makes the execution FAILED, and is one    *)
(* more failed action of it.                                               *)
RunnerFails(e) ==
  /\ status' = [status EXCEPT ![e] = "failed"]
  /\ aborted' = aborted \cup {e}
  /\ phase' = [phase EXCEPT ![e] = "persisting"]

(* record_action(): a critical action's exception leaves run() as well.    *)
ActionRaises(e, a) ==
  /\ serving
  /\ phase[e] = "running"
  /\ a \in Raising
  /\ acts[e][a] = "running"
  /\ acts' = [acts EXCEPT ![e][a] = "failed"]
  /\ IF a \in Critical THEN RunnerFails(e) ELSE UNCHANGED <<status, aborted, phase>>
  /\ UNCHANGED <<plan, faults, at, row, announced, serving>>

(* run() raises before its first stage, or, in a playbook added by         *)
(* register(), between two of its actions or after the last.               *)
RunRaises(e) ==
  /\ serving
  /\ \/ phase[e] = "created" /\ (Runner \in faults[e] \/ plan[e] = CustomPlan)
     \/ phase[e] = "running" /\ StageOver(e) /\ plan[e] = CustomPlan
  /\ RunnerFails(e)
  /\ UNCHANGED <<plan, faults, at, acts, row, announced, serving>>

Finish(e) ==
  /\ serving
  /\ phase[e] = "running"
  /\ StageOver(e)
  /\ at[e] = Len(plan[e])
  /\ status' = [status EXCEPT ![e] = OutcomeOf(e)]
  /\ phase' = [phase EXCEPT ![e] = "persisting"]
  /\ UNCHANGED <<plan, faults, at, acts, aborted, row, announced, serving>>

(* _persist(): the insert runs in a thread, and its failure is swallowed.  *)
Persist(e) ==
  /\ serving
  /\ phase[e] = "persisting"
  /\ row' = [row EXCEPT ![e] = status[e]]
  /\ phase' = [phase EXCEPT ![e] = "announcing"]
  /\ UNCHANGED <<plan, faults, at, acts, aborted, status, announced, serving>>

PersistRaises(e) ==
  /\ serving
  /\ phase[e] = "persisting"
  /\ phase' = [phase EXCEPT ![e] = "announcing"]
  /\ UNCHANGED <<plan, faults, at, acts, aborted, status, row, announced, serving>>

(* redis.publish() returns, or raises, which ends the task.                *)
Announce(e) ==
  /\ serving
  /\ phase[e] = "announcing"
  /\ phase' = [phase EXCEPT ![e] = "over"]
  /\ announced' \in {announced, announced \cup {e}}
  /\ UNCHANGED <<plan, faults, at, acts, aborted, status, row, serving>>

(* The loop is shut down: tasks are cancelled, but an insert that is in    *)
(* its thread still runs to its end.                                       *)
Shutdown ==
  /\ serving
  /\ serving' = FALSE
  /\ phase' = [e \in Executions |-> IF phase[e] = "none" THEN "none" ELSE "over"]
  /\ \E done \in SUBSET {e \in Executions : phase[e] = "persisting"} :
       row' = [e \in Executions |-> IF e \in done THEN status[e] ELSE row[e]]
  /\ UNCHANGED <<plan, faults, at, acts, aborted, status, announced>>

OrchStep(e) ==
  \/ Begin(e) \/ RunRaises(e) \/ NextStage(e) \/ Finish(e)
  \/ \E a \in DOMAIN acts[e] : ActionReturns(e, a) \/ ActionRaises(e, a)
  \/ Persist(e) \/ PersistRaises(e) \/ Announce(e)

OrchNext ==
  \/ \E e \in Executions :
       \/ \E p \in Playbooks, a \in Alerts : TriggerPlaybook(e, p, a)
       \/ TriggerUnknown(e)
       \/ OrchStep(e)
  \/ Shutdown

OrchFairness == \A e \in Executions : WF_orchVars(OrchStep(e))
OrchSpec == OrchInit /\ [][OrchNext]_orchVars /\ OrchFairness

-----------------------------------------------------------------------------
(* The variables keep their types.                                         *)
OrchTypeOK ==
  /\ phase \in [Executions -> {"none", "created", "running", "persisting", "announcing", "over"}]
  /\ status \in [Executions -> {"pending", "running", "success", "partial", "failed"}]
  /\ row \in [Executions -> {"success", "partial", "failed", NoRow}]
  /\ announced \subseteq Executions
  /\ aborted \subseteq Executions
  /\ serving \in BOOLEAN
  /\ \A e \in Executions :
       /\ at[e] \in 0..Len(plan[e])
       /\ \A x \in DOMAIN acts[e] : acts[e][x] \in {"none", "running", "success", "failed"}

(* Stages are ordered: nothing of a stage starts before every action of    *)
(* the stages in front of it has ended, and nothing starts beyond at[e].   *)
StagesInOrder(e) ==
  \A i \in 1..Len(plan[e]) : \A x \in plan[e][i] :
    /\ i < at[e] => acts[e][x] \in {"success", "failed"}
    /\ i > at[e] => acts[e][x] = "none"

(* The reported outcome is the one of the actions: "success" means that    *)
(* all of the plan succeeded, "partial" that all of it ended and some of   *)
(* it failed, "failed" that run() raised or no playbook was found; a       *)
(* built-in playbook that has started its first action never fails as a    *)
(* whole; the persisted row says what the execution says, and is written   *)
(* only when no action is running any more.                                *)
OutcomeIsReal ==
  /\ OrchTypeOK
  /\ \A e \in Executions :
    /\ StagesInOrder(e)
    /\ status[e] = "success" => Recorded(e, "success") = ActionsOf(plan[e])
    /\ status[e] = "partial" =>
         /\ Recorded(e, "failed") # {}
         /\ Recorded(e, "failed") \cup Recorded(e, "success") = ActionsOf(plan[e])
    /\ status[e] = "failed" <=> e \in aborted \/ "lookup_playbook" \in Recorded(e, "failed")
    /\ status[e] = "failed" /\ at[e] > 0 => plan[e] = CustomPlan
    /\ row[e] # NoRow => row[e] = status[e] /\ Recorded(e, "running") = {}

(* Every playbook that is triggered comes to its end, whatever its actions *)
(* do: no action's failure, and no failed insert, leaves it hanging.       *)
PlaybooksEnd == \A e \in Executions : phase[e] = "created" ~> phase[e] = "over"
=============================================================================
