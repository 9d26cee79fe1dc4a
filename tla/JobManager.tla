------------------------------ MODULE JobManager ------------------------------
(***************************************************************************)
(* The Craned job manager (src/src/Craned/Craned/JobManager.cpp).         *)
(* RPC threads enqueue requests on lock-free queues and send() the        *)
(* matching uv async handle; the single libuv thread's EvClean*Cb_        *)
(* callbacks drain those queues.  Since every enqueue is followed by its *)
(* send(), a non-empty queue is a pending callback, and the model lets    *)
(* the loop thread process one queued element per step.  The ExecuteTask *)
(* callback                                                               *)
(* puts the TaskInstance in m_task_map_, arms its time-limit timer and    *)
(* hands a raw pointer to LaunchTaskInstanceMt_ on the thread pool, which *)
(* runs concurrently with the loop and may report a Failed status.  The   *)
(* status callback erases the instance (freeing it) and passes the status *)
(* to g_ctld_client, whose queue CheckTaskStatus may withdraw from.       *)
(***************************************************************************)
EXTENDS Naturals, Sequences, FiniteSets, SequencesExt

CONSTANTS
  JobIds,     \* the jobs CTLD sends to this node
  JobType,    \* job id -> "Batch", "Crun" or "Calloc"
  MaxChecks,  \* bound on CheckTaskStatus requests per job
  Rpcs,       \* the request kinds CTLD sends besides ExecuteTask
  QueriedJobs, \* the jobs whose env or pid a gRPC caller queries
  ExitingJobs  \* the jobs whose forked process may exit

ASSUME JobType \in [JobIds -> {"Batch", "Crun", "Calloc"}]
ASSUME MaxChecks \in Nat
ASSUME Rpcs \subseteq {"Terminate", "Check", "Limit", "Query"}
ASSUME QueriedJobs \subseteq JobIds /\ ExitingJobs \subseteq JobIds

(* The steps of LaunchTaskInstanceMt_ that dereference the instance:     *)
(* "prepare" (cgroup check, password entry, cgroup allocation, script     *)
(* file; each may fail, and a Calloc job returns after its cgroup),       *)
(* "spawn" (may fail, else forks) and "index" (the pid maps, m_mtx_).     *)
LaunchPcs == {"none", "prepare", "spawn", "index", "done"}
FailingSteps == {"prepare", "spawn"}
AfterStep == [s \in LaunchPcs |->
                CASE s = "prepare" -> "spawn" [] s = "spawn" -> "index" [] OTHER -> "done"]

VARIABLES
  execQ,        \* m_grpc_execute_task_queue_ (job ids)
  statusQ,      \* m_task_status_change_queue_
  termQ,        \* the number of elements in m_task_terminate_queue_
  checkQ,       \* m_check_task_status_queue_
  limitQ,       \* m_task_time_limit_change_queue_
  ending,       \* m_is_ending_now_
  loopRunning,  \* the loop of m_uvw_thread_ runs
  taskMap,      \* jobs in m_task_map_
  freed,        \* jobs whose TaskInstance has been destroyed
  timer,        \* jobs with an armed termination timer
  launch,       \* the step each LaunchTaskInstanceMt_ thread is at
  spawned,      \* jobs whose process has been forked
  pidIndex,     \* jobs referenced from m_pid_task_map_
  uaf,          \* a launcher dereferenced a destroyed TaskInstance
  submitted,    \* jobs ExecuteTaskAsync was called for
  termReq,      \* jobs a terminate (user or orphan) was requested for
  limitReq,     \* jobs a time-limit change was requested for
  checkCnt,     \* CheckTaskStatus requests per job
  checkAns,     \* the answer of the job's last CheckTaskStatus
  ctldQ,        \* g_ctld_client's status-change queue
  learned,      \* terminal statuses CTLD has learned, per job
  timedOut,     \* jobs whose timer fired while they were in the map
  failedLaunch, \* jobs whose launcher reported Failed
  envQ,         \* m_query_task_environment_variables_queue (job ids)
  pidQ,         \* m_query_task_id_from_pid_queue_ (the pid, as its job)
  envSent,      \* the env async handle was sent and its callback not yet run
  envAns,       \* the future of the job's QueryTaskEnvMapAsync
  pidAns,       \* the future of QueryTaskIdFromPidAsync for the job's pid
  exited,       \* jobs whose process exited and was not yet waited for
  reaped,       \* jobs whose process waitpid() has collected
  sigchld       \* a SIGCHLD is pending for m_sigchld_handle_

queueVars == <<execQ, statusQ, termQ, checkQ, limitQ>>
loopVars  == <<ending, loopRunning>>
jobVars   == <<taskMap, freed, timer, launch, spawned, pidIndex, uaf>>
envVars   == <<submitted, termReq, limitReq, checkCnt, checkAns, ctldQ, learned,
               timedOut, failedLaunch>>
queryVars == <<envQ, pidQ, envSent, envAns, pidAns>>
childVars == <<exited, reaped, sigchld>>
vars == <<queueVars, loopVars, jobVars, envVars, queryVars, childVars>>

Status(j, st) == [job |-> j, st |-> st]

-----------------------------------------------------------------------------
(* Requests from the RPC threads: enqueue, then send() the async handle. *)

(* ExecuteTaskAsync, once the cgroup of the job exists. *)
ExecuteTaskAsync(j) ==
  /\ j \notin submitted
  /\ submitted' = submitted \cup {j}
  /\ execQ' = Append(execQ, j)
  /\ UNCHANGED <<statusQ, termQ, checkQ, limitQ, ending, loopRunning, jobVars,
                 termReq, limitReq, checkCnt, checkAns, ctldQ, learned, timedOut,
                 failedLaunch>>
  /\ UNCHANGED <<queryVars, childVars>>

(* TerminateTaskAsync and MarkTaskAsOrphanedAndTerminateAsync. *)
TerminateTaskAsync(j) ==
  /\ j \in submitted /\ j \notin termReq
  /\ termReq' = termReq \cup {j}
  /\ termQ' = termQ + 1
  /\ UNCHANGED <<execQ, statusQ, checkQ, limitQ, ending, loopRunning, jobVars,
                 submitted, limitReq, checkCnt, checkAns, ctldQ, learned, timedOut,
                 failedLaunch>>
  /\ UNCHANGED <<queryVars, childVars>>

(* CheckTaskStatusAsync blocks its caller until the callback answers. *)
CheckTaskStatusAsync(j) ==
  /\ j \in submitted /\ checkCnt[j] < MaxChecks /\ checkAns[j] # "asked"
  /\ checkCnt' = [checkCnt EXCEPT ![j] = @ + 1]
  /\ checkAns' = [checkAns EXCEPT ![j] = "asked"]
  /\ checkQ' = Append(checkQ, j)
  /\ UNCHANGED <<execQ, statusQ, termQ, limitQ, ending, loopRunning, jobVars,
                 submitted, termReq, limitReq, ctldQ, learned, timedOut, failedLaunch>>
  /\ UNCHANGED <<queryVars, childVars>>

(* ChangeTaskTimeLimitAsync; whether the new limit has already passed     *)
(* when the callback compares it with now - start_time is an input.       *)
ChangeTaskTimeLimitAsync(j) ==
  /\ j \in submitted /\ j \notin limitReq
  /\ limitReq' = limitReq \cup {j}
  /\ \E exceeded \in BOOLEAN : limitQ' = Append(limitQ, [job |-> j, exceeded |-> exceeded])
  /\ UNCHANGED <<execQ, statusQ, termQ, checkQ, ending, loopRunning, jobVars,
                 submitted, termReq, checkCnt, checkAns, ctldQ, learned, timedOut,
                 failedLaunch>>
  /\ UNCHANGED <<queryVars, childVars>>

(* Fault variant: the query is enqueued without send()ing its handle. *)
QueryTaskEnvMapAsyncNoSend(j) ==
  /\ envAns[j] = "none"
  /\ envAns' = [envAns EXCEPT ![j] = "asked"]
  /\ envQ' = Append(envQ, j)
  /\ UNCHANGED <<queueVars, loopVars, jobVars, envVars, envSent, pidQ, pidAns, childVars>>

(* QueryTaskEnvMapAsync, for any job id, blocks its caller on the future; *)
(* the model asks once per job.                                          *)
QueryTaskEnvMapAsync(j) ==
  /\ envAns[j] = "none"
  /\ envAns' = [envAns EXCEPT ![j] = "asked"]
  /\ envQ' = Append(envQ, j)
  /\ envSent' = TRUE
  /\ UNCHANGED <<queueVars, loopVars, jobVars, envVars, pidQ, pidAns, childVars>>

(* QueryTaskIdFromPidAsync enqueues on the pid queue but send()s the env *)
(* handle, so only EvCleanGrpcQueryTaskEnvQueueCb_ is scheduled.          *)
QueryTaskIdFromPidAsync(j) ==
  /\ pidAns[j] = "none"
  /\ pidAns' = [pidAns EXCEPT ![j] = "asked"]
  /\ pidQ' = Append(pidQ, j)
  /\ envSent' = TRUE
  /\ UNCHANGED <<queueVars, loopVars, jobVars, envVars, envQ, envAns, childVars>>

(* EvSigintCb_ *)
EvSigintCb_ ==
  /\ loopRunning /\ ~ending
  /\ ending' = TRUE
  /\ UNCHANGED <<queueVars, loopRunning, jobVars, envVars>>
  /\ UNCHANGED <<queryVars, childVars>>

-----------------------------------------------------------------------------
(* The loop thread.  Each step takes one element off a queue whose      *)
(* handle was sent; other threads run between its steps.                 *)

(* A duplicate ExecuteTask is ignored; otherwise the instance enters     *)
(* m_task_map_, its timer is armed and LaunchTaskInstanceMt_ detached.    *)
EvCleanGrpcExecuteTaskQueueCb_ ==
  /\ loopRunning /\ execQ # <<>>
  /\ LET j == Head(execQ) IN
       IF j \in taskMap THEN UNCHANGED <<taskMap, timer, launch>>
       ELSE /\ taskMap' = taskMap \cup {j}
            /\ timer' = timer \cup {j}
            /\ launch' = [launch EXCEPT ![j] = "prepare"]
  /\ execQ' = Tail(execQ)
  /\ UNCHANGED <<statusQ, termQ, checkQ, limitQ, loopVars, freed, spawned, pidIndex,
                 uaf, envVars>>
  /\ UNCHANGED <<queryVars, childVars>>

(* Fault variants of the status callback: forwarding a status without   *)
(* the m_task_map_ lookup, and forwarding it without the erase.          *)
EvCleanTaskStatusChangeQueueCb_NoLookup ==
  /\ loopRunning /\ statusQ # <<>>
  /\ taskMap' = taskMap \ {Head(statusQ).job}
  /\ freed' = freed \cup ({Head(statusQ).job} \cap taskMap)
  /\ ctldQ' = Append(ctldQ, Head(statusQ))
  /\ statusQ' = Tail(statusQ)
  /\ UNCHANGED <<execQ, termQ, checkQ, limitQ, loopVars, timer, launch, spawned,
                 pidIndex, uaf, submitted, termReq, limitReq, checkCnt, checkAns,
                 learned, timedOut, failedLaunch>>
  /\ UNCHANGED <<queryVars, childVars>>

EvCleanTaskStatusChangeQueueCb_NoErase ==
  /\ loopRunning /\ statusQ # <<>>
  /\ LET e == Head(statusQ) IN
       IF e.job \notin taskMap THEN UNCHANGED ctldQ
       ELSE ctldQ' = Append(ctldQ, e)
  /\ statusQ' = Tail(statusQ)
  /\ UNCHANGED <<execQ, termQ, checkQ, limitQ, loopVars, taskMap, freed, timer, launch,
                 spawned, pidIndex, uaf, submitted, termReq, limitReq, checkCnt,
                 checkAns, learned, timedOut, failedLaunch>>
  /\ UNCHANGED <<queryVars, childVars>>

(* A status of a job no longer in the map is dropped; otherwise the      *)
(* instance is erased (destroyed) and, unless orphaned -- which no code  *)
(* sets -- the status goes to g_ctld_client.  The timer stays armed.     *)
EvCleanTaskStatusChangeQueueCb_ ==
  /\ loopRunning /\ statusQ # <<>>
  /\ LET e == Head(statusQ) IN
       IF e.job \notin taskMap THEN UNCHANGED <<taskMap, freed, ctldQ>>
       ELSE /\ taskMap' = taskMap \ {e.job}
            /\ freed' = freed \cup {e.job}
            /\ ctldQ' = Append(ctldQ, e)
  /\ statusQ' = Tail(statusQ)
  /\ UNCHANGED <<execQ, termQ, checkQ, limitQ, loopVars, timer, launch, spawned,
                 pidIndex, uaf, submitted, termReq, limitReq, checkCnt, checkAns,
                 learned, timedOut, failedLaunch>>
  /\ UNCHANGED <<queryVars, childVars>>

(* Fault variant: the loop of try_dequeue without its emptiness check. *)
EvCleanTerminateTaskQueueCb_Unchecked ==
  /\ loopRunning
  /\ termQ' = termQ - 1
  /\ UNCHANGED <<execQ, statusQ, checkQ, limitQ, loopVars, jobVars, envVars>>
  /\ UNCHANGED <<queryVars, childVars>>

(* "todo: Just forward to Supervisor": the element is dropped. *)
EvCleanTerminateTaskQueueCb_ ==
  /\ loopRunning /\ termQ > 0
  /\ termQ' = termQ - 1
  /\ UNCHANGED <<execQ, statusQ, checkQ, limitQ, loopVars, jobVars, envVars>>
  /\ UNCHANGED <<queryVars, childVars>>

(* CancelTaskStatusChangeByTaskId: withdraw the job's queued statuses. *)
HasQueuedStatus(j) == \E i \in 1..Len(ctldQ) : ctldQ[i].job = j
CancelTaskStatusChangeByTaskId(j) == SelectSeq(ctldQ, LAMBDA e : e.job # j)

(* In the map: Running.  Else a status still queued in g_ctld_client is   *)
(* withdrawn and returned instead.  Else not found.                       *)
EvCleanCheckTaskStatusQueueCb_ ==
  /\ loopRunning /\ checkQ # <<>>
  /\ LET j == Head(checkQ) IN
       CASE j \in taskMap ->
              checkAns' = [checkAns EXCEPT ![j] = "Running"] /\ UNCHANGED <<ctldQ, learned>>
         [] j \notin taskMap /\ HasQueuedStatus(j) ->
              /\ checkAns' = [checkAns EXCEPT ![j] = "Ended"]
              /\ ctldQ' = CancelTaskStatusChangeByTaskId(j)
              /\ learned' = [learned EXCEPT ![j] = @ + 1]
         [] OTHER ->
              checkAns' = [checkAns EXCEPT ![j] = "NotFound"] /\ UNCHANGED <<ctldQ, learned>>
  /\ checkQ' = Tail(checkQ)
  /\ UNCHANGED <<execQ, statusQ, termQ, limitQ, loopVars, jobVars, submitted, termReq,
                 limitReq, checkCnt, timedOut, failedLaunch>>
  /\ UNCHANGED <<queryVars, childVars>>

(* The answer to an env query: the instance's env map, or kSystemErr.  *)
EnvAnswer(j) == IF j \in taskMap THEN "Found" ELSE "Err"

(* libuv clears the handle's pending flag and runs the callback, which   *)
(* try_dequeues until the queue is empty: sends coalesce, so one run     *)
(* answers every query enqueued before it.                               *)
EvCleanGrpcQueryTaskEnvQueueCb_ ==
  /\ loopRunning /\ envSent
  /\ envSent' = FALSE
  /\ envAns' = [j \in JobIds |-> IF j \in Range(envQ) THEN EnvAnswer(j) ELSE envAns[j]]
  /\ envQ' = <<>>
  /\ UNCHANGED <<queueVars, loopVars, jobVars, envVars, pidQ, pidAns, childVars>>

(* The timer is deleted; an exceeded limit enqueues a terminate by        *)
(* timeout, otherwise a new timer is armed.  A missing job answers false. *)
EvCleanChangeTaskTimeLimitQueueCb_ ==
  /\ loopRunning /\ limitQ # <<>>
  /\ LET e == Head(limitQ) IN
       IF e.job \notin taskMap THEN UNCHANGED <<timer, termQ>>
       ELSE IF e.exceeded
            THEN /\ timer' = timer \ {e.job}
                 /\ termQ' = termQ + 1
            ELSE /\ timer' = timer \cup {e.job}
                 /\ UNCHANGED termQ
  /\ limitQ' = Tail(limitQ)
  /\ UNCHANGED <<execQ, statusQ, checkQ, ending, loopRunning, taskMap, freed,
                 launch, spawned, pidIndex, uaf, envVars>>
  /\ UNCHANGED <<queryVars, childVars>>

(* The time-limit timer of job j fires.  A job already removed is left   *)
(* alone; otherwise the timer is deleted and a Batch job gets a terminate *)
(* by timeout, any other job the status ExceedTimeLimit.                  *)
EvTaskTimerCb_(j) ==
  /\ loopRunning /\ j \in timer
  /\ timer' = timer \ {j}
  /\ IF j \notin taskMap THEN UNCHANGED <<termQ, statusQ, timedOut>>
     ELSE /\ timedOut' = timedOut \cup {j}
          /\ IF JobType[j] = "Batch"
             THEN termQ' = termQ + 1 /\ UNCHANGED statusQ
             ELSE /\ statusQ' = Append(statusQ, Status(j, "ExceedTimeLimit"))
                  /\ UNCHANGED termQ
  /\ UNCHANGED <<execQ, checkQ, limitQ, ending, loopRunning, taskMap, freed,
                 launch, spawned, pidIndex, uaf, submitted, termReq, limitReq, checkCnt,
                 checkAns, ctldQ, learned, failedLaunch>>
  /\ UNCHANGED <<queryVars, childVars>>

(* EvSigchldCb_: waitpid(-1, WNOHANG) until no child is left to reap.    *)
(* A collected child is dropped ("We do nothing now"): no status is      *)
(* enqueued for its job.  Standard signals do not queue, so one callback *)
(* may stand for the exits of several children.                          *)
EvSigchldCb_ ==
  /\ loopRunning /\ sigchld
  /\ sigchld' = FALSE
  /\ reaped' = reaped \cup exited
  /\ exited' = {}
  /\ UNCHANGED <<queueVars, loopVars, jobVars, envVars, queryVars>>

(* The idle handler: once m_is_ending_now_ is set, close and stop. *)
LoopIdleStop ==
  /\ loopRunning /\ ending
  /\ loopRunning' = FALSE
  /\ UNCHANGED <<queueVars, ending, jobVars, envVars>>
  /\ UNCHANGED <<queryVars, childVars>>

-----------------------------------------------------------------------------
(* LaunchTaskInstanceMt_ on the thread pool, one thread per job.  Each   *)
(* step reads or writes *instance through the raw pointer it was given.   *)

Touch(j) == uaf' = (uaf \/ j \in freed)

(* ActivateTaskStatusChangeAsync_: enqueue, then send() the handle. *)
ActivateTaskStatusChangeAsync_(j, st) ==
  /\ statusQ' = Append(statusQ, Status(j, st))

(* The step succeeds.  A Calloc job returns after its cgroup is set;      *)
(* spawning forks the process, whose pid then enters the index maps.      *)
LaunchStep(j) ==
  /\ launch[j] \notin {"none", "done"}
  /\ Touch(j)
  /\ launch' = [launch EXCEPT ![j] =
                  IF @ = "prepare" /\ JobType[j] = "Calloc" THEN "done" ELSE AfterStep[@]]
  /\ spawned' = IF launch[j] = "spawn" THEN spawned \cup {j} ELSE spawned
  /\ pidIndex' = IF launch[j] = "index" THEN pidIndex \cup {j} ELSE pidIndex
  /\ UNCHANGED <<queueVars, loopVars, taskMap, freed, timer, envVars>>
  /\ UNCHANGED <<queryVars, childVars>>

(* Fault variant: an error path that returns without reporting Failed. *)
LaunchFailSilently(j) ==
  /\ launch[j] \in FailingSteps
  /\ Touch(j)
  /\ launch' = [launch EXCEPT ![j] = "done"]
  /\ failedLaunch' = failedLaunch \cup {j}
  /\ UNCHANGED <<queueVars, loopVars, taskMap, freed, timer, spawned, pidIndex,
                 submitted, termReq, limitReq, checkCnt, checkAns, ctldQ, learned,
                 timedOut>>
  /\ UNCHANGED <<queryVars, childVars>>

(* The step fails before fork: the thread reports Failed and returns. *)
LaunchFail(j) ==
  /\ launch[j] \in FailingSteps
  /\ Touch(j)
  /\ launch' = [launch EXCEPT ![j] = "done"]
  /\ ActivateTaskStatusChangeAsync_(j, "Failed")
  /\ failedLaunch' = failedLaunch \cup {j}
  /\ UNCHANGED <<execQ, termQ, checkQ, limitQ, ending, loopRunning, taskMap,
                 freed, timer, spawned, pidIndex, submitted, termReq, limitReq, checkCnt,
                 checkAns, ctldQ, learned, timedOut>>
  /\ UNCHANGED <<queryVars, childVars>>

(* The forked job process exits (by itself, or killed by SIGKILL on a   *)
(* protocol error after fork): the kernel raises SIGCHLD.                *)
ChildExit(j) ==
  /\ j \in spawned \cap ExitingJobs /\ j \notin exited \cup reaped
  /\ exited' = exited \cup {j}
  /\ sigchld' = TRUE
  /\ UNCHANGED <<queueVars, loopVars, jobVars, envVars, queryVars, reaped>>

-----------------------------------------------------------------------------
(* g_ctld_client sends the head of its queue to CTLD. *)
CtldSend ==
  /\ ctldQ # <<>>
  /\ learned' = [learned EXCEPT ![Head(ctldQ).job] = @ + 1]
  /\ ctldQ' = Tail(ctldQ)
  /\ UNCHANGED <<queueVars, loopVars, jobVars, submitted, termReq, limitReq, checkCnt,
                 checkAns, timedOut, failedLaunch>>
  /\ UNCHANGED <<queryVars, childVars>>

-----------------------------------------------------------------------------
Init ==
  /\ execQ = <<>> /\ statusQ = <<>> /\ termQ = 0 /\ checkQ = <<>> /\ limitQ = <<>>
  /\ ending = FALSE /\ loopRunning = TRUE
  /\ taskMap = {} /\ freed = {} /\ timer = {}
  /\ launch = [j \in JobIds |-> "none"] /\ spawned = {} /\ pidIndex = {} /\ uaf = FALSE
  /\ submitted = {} /\ termReq = {} /\ limitReq = {}
  /\ checkCnt = [j \in JobIds |-> 0] /\ checkAns = [j \in JobIds |-> "none"]
  /\ ctldQ = <<>> /\ learned = [j \in JobIds |-> 0]
  /\ timedOut = {} /\ failedLaunch = {}
  /\ envQ = <<>> /\ pidQ = <<>> /\ envSent = FALSE
  /\ envAns = [j \in JobIds |-> "none"] /\ pidAns = [j \in JobIds |-> "none"]
  /\ exited = {} /\ reaped = {} /\ sigchld = FALSE

Requests ==
  \E j \in JobIds :
    \/ ExecuteTaskAsync(j)
    \/ "Terminate" \in Rpcs /\ TerminateTaskAsync(j)
    \/ "Check" \in Rpcs /\ CheckTaskStatusAsync(j)
    \/ "Limit" \in Rpcs /\ ChangeTaskTimeLimitAsync(j)
    \/ "Query" \in Rpcs /\ j \in QueriedJobs
       /\ (QueryTaskEnvMapAsync(j) \/ QueryTaskIdFromPidAsync(j))

LoopStep ==
  \/ EvCleanGrpcExecuteTaskQueueCb_ \/ EvCleanTaskStatusChangeQueueCb_
  \/ EvCleanTerminateTaskQueueCb_ \/ EvCleanCheckTaskStatusQueueCb_
  \/ EvCleanChangeTaskTimeLimitQueueCb_ \/ EvCleanGrpcQueryTaskEnvQueueCb_
  \/ \E j \in JobIds : EvTaskTimerCb_(j)
  \/ EvSigchldCb_ \/ EvSigintCb_ \/ LoopIdleStop

Next ==
  \/ Requests \/ LoopStep
  \/ \E j \in JobIds : LaunchStep(j) \/ LaunchFail(j) \/ ChildExit(j)
  \/ CtldSend

(* Every iteration of uv_run runs the callback of each handle with work  *)
(* pending, so each callback is weakly fair on its own, and armed timers  *)
(* fire; each pool thread runs its launcher to the end; g_ctld_client     *)
(* keeps sending.  Requests, SIGINT and launch failures are not forced.   *)
Fairness ==
  /\ WF_vars(EvCleanGrpcExecuteTaskQueueCb_) /\ WF_vars(EvCleanTaskStatusChangeQueueCb_)
  /\ WF_vars(EvCleanTerminateTaskQueueCb_) /\ WF_vars(EvCleanCheckTaskStatusQueueCb_)
  /\ WF_vars(EvCleanChangeTaskTimeLimitQueueCb_)
  /\ WF_vars(EvCleanGrpcQueryTaskEnvQueueCb_) /\ WF_vars(EvSigchldCb_)
  /\ WF_vars(LoopIdleStop)
  /\ \A j \in JobIds : WF_vars(LaunchStep(j) \/ LaunchFail(j))
  /\ \A j \in JobIds : WF_vars(EvTaskTimerCb_(j))
  /\ WF_vars(CtldSend)

Spec == Init /\ [][Next]_vars /\ Fairness

-----------------------------------------------------------------------------
(* Properties. *)

TypeOK ==
  /\ execQ \in Seq(JobIds) /\ termQ \in Nat /\ checkQ \in Seq(JobIds)
  /\ statusQ \in Seq([job : JobIds, st : {"Failed", "ExceedTimeLimit"}])
  /\ ctldQ \in Seq([job : JobIds, st : {"Failed", "ExceedTimeLimit"}])
  /\ limitQ \in Seq([job : JobIds, exceeded : BOOLEAN])
  /\ ending \in BOOLEAN /\ loopRunning \in BOOLEAN
  /\ taskMap \subseteq JobIds /\ freed \subseteq JobIds /\ timer \subseteq JobIds
  /\ launch \in [JobIds -> LaunchPcs] /\ spawned \subseteq JobIds
  /\ pidIndex \subseteq JobIds /\ uaf \in BOOLEAN
  /\ submitted \subseteq JobIds /\ termReq \subseteq JobIds /\ limitReq \subseteq JobIds
  /\ checkCnt \in [JobIds -> 0..MaxChecks]
  /\ checkAns \in [JobIds -> {"none", "asked", "Running", "Ended", "NotFound"}]
  /\ learned \in [JobIds -> Nat]
  /\ timedOut \subseteq JobIds /\ failedLaunch \subseteq JobIds
  /\ envQ \in Seq(JobIds) /\ pidQ \in Seq(JobIds) /\ envSent \in BOOLEAN
  /\ envAns \in [JobIds -> {"none", "asked", "Found", "Err"}]
  /\ pidAns \in [JobIds -> {"none", "asked", "Found", "Err"}]
  /\ exited \subseteq JobIds /\ reaped \subseteq JobIds /\ sigchld \in BOOLEAN

(* CTLD learns at most one terminal status per job, counting both the    *)
(* TaskStatusChange sent by g_ctld_client and a CheckTaskStatus answer   *)
(* that withdrew the queued status: a launcher failure racing the Crun   *)
(* time-limit timer must not produce two.                                *)
TerminalStatusAtMostOnce ==
  \A j \in JobIds : learned[j] <= 1

(* CheckTaskStatus never answers Running for a job whose terminal status *)
(* CTLD has already learned.                                             *)
NoRunningAfterReported ==
  [][\A j \in JobIds :
       (checkAns[j] = "asked" /\ checkAns'[j] = "Running") => learned[j] = 0]_vars

(* A job whose launch failed has its Failed status reach CTLD, unless    *)
(* the node is shutting down.                                            *)
FailedLaunchReported ==
  \A j \in JobIds : (j \in failedLaunch) ~> (learned[j] > 0 \/ ending)

(* A QueryTaskEnvMapAsync caller blocked on its future is answered while *)
(* the loop runs, however many queries' send()s coalesced into one run   *)
(* of EvCleanGrpcQueryTaskEnvQueueCb_.                                  *)
EnvQueryAnswered ==
  \A j \in JobIds : envAns[j] = "asked" ~> (envAns[j] # "asked" \/ ~loopRunning)

(* A QueryTaskIdFromPidAsync caller is answered while the loop runs.  It *)
(* is violated: the pid queue's callback is never scheduled.             *)
PidQueryAnswered ==
  \A j \in JobIds : pidAns[j] = "asked" ~> (pidAns[j] # "asked" \/ ~loopRunning)

(* A job whose process exited reaches CTLD with a terminal status, as   *)
(* the comments of SpawnProcessInInstance_ expect of the SIGCHLD handler *)
(* ("only ONE TaskStatusChange will be triggered"), unless the node is   *)
(* shutting down.  It is violated: the handler drops every child.        *)
ExitedJobReported ==
  \A j \in JobIds : j \in reaped ~> (learned[j] > 0 \/ ending)

(* LaunchTaskInstanceMt_ never dereferences a TaskInstance that the loop *)
(* thread has already erased from m_task_map_ (EvTaskTimerCb_'s comment  *)
(* warns of exactly this segmentation fault).                            *)
NoUseAfterFree ==
  ~uaf

(* A job whose time limit expired is terminated: it leaves m_task_map_   *)
(* with a terminal status, unless the node is shutting down.             *)
TimeLimitEnforced ==
  \A j \in JobIds : (j \in timedOut) ~> (j \notin taskMap \/ ending)

====
