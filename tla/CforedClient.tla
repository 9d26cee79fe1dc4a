---------------------------- MODULE CforedClient ----------------------------
(***************************************************************************)
(* The Supervisor's I/O forwarding client to cfored                        *)
(* (src/src/Craned/Supervisor/CforedClient.cpp).  Four threads share it:   *)
(*   - the libuv event-loop thread, whose poll callback reads the task's   *)
(*     output fd and pushes chunks on m_output_queue_, and whose idle      *)
(*     handler stops the loop once m_stopped_ is set;                      *)
(*   - the state-machine thread AsyncSendRecvThread_, driving the gRPC     *)
(*     bidirectional stream through the completion queue m_cq_;           *)
(*   - the drain thread CleanOutputQueueAndWriteToStreamThread_, writing   *)
(*     queued output to the stream under the write_pending token;         *)
(*   - the Supervisor's task manager, which reports the process exit      *)
(*     (TaskProcessStop) and destroys the client after TaskEnd.           *)
(* Output is abstracted to numbered chunks (one read() of at most 4096    *)
(* bytes each); a stream frame is a record carrying its kind and chunk.    *)
(***************************************************************************)
EXTENDS Naturals, Sequences, FiniteSets, SequencesExt

CONSTANTS
  MaxChunks,          \* bound on the output chunks the task writes
  MaxInput,           \* bound on the messages cfored sends during forwarding
  StreamMayFail,      \* whether the stream to cfored may break
  FanoutMaySendOther  \* whether cfored may send a reply type other than TASK_INPUT

ASSUME MaxChunks \in Nat /\ MaxInput \in Nat
ASSUME StreamMayFail \in BOOLEAN /\ FanoutMaySendOther \in BOOLEAN

VARIABLES
  childOut,     \* chunks the task has written to its output fd
  childExited,  \* the task process has exited (its output fd reaches EOF)
  procReported, \* the task manager has called TaskProcessStop
  fwdSetUp,     \* progress of SetUpTaskFwd: "no", "polling", "done"
  pollActive,   \* the poll handle on the output fd is started and open
  readCnt,      \* chunks the poll callback has read
  loopRunning,  \* the libuv loop of m_ev_thread_ runs
  outQ,         \* m_output_queue_
  meta,         \* m_fwd_meta_map[pid]
  taskEndCalls, \* number of TaskEnd calls
  stopped,      \* m_stopped_
  smState,      \* the State of AsyncSendRecvThread_
  smPc,         \* "run", "joinT" (join in TIMEOUT), "joinE" (join in End), "exited"
  drainPc,      \* output_clean_thread: "none", "run", "exited"
  held,         \* the chunk the drain thread has dequeued (0: ok == false)
  writePending, \* write_pending
  writesOut,    \* stream writes issued and not yet completed
  readOut,      \* a stream Read is issued and not yet completed
  prepareOut,   \* the Prepare tag of AsyncTaskIOStream is not yet completed
  cq,           \* completed events not yet returned by m_cq_.AsyncNext
  toClient,     \* replies cfored has sent and the client has not read
  fanoutGot,    \* frames cfored has received, in order
  fanoutPhase,  \* cfored's view: "wait", "fwd" (acked), "done" (unregistered)
  inputsSent,   \* messages cfored has sent during forwarding
  childIn,      \* input messages written to the task's input fd
  broken,       \* the stream has failed
  assertFailed  \* a CRANE_ASSERT of AsyncSendRecvThread_ did not hold

taskVars   == <<childOut, childExited, procReported, childIn>>
loopVars   == <<fwdSetUp, pollActive, readCnt, loopRunning, outQ, meta, taskEndCalls>>
threadVars == <<stopped, smState, smPc, drainPc, held, writePending, assertFailed>>
netVars    == <<writesOut, readOut, prepareOut, cq, toClient, fanoutGot,
               fanoutPhase, inputsSent, broken>>
vars == <<taskVars, loopVars, threadVars, netVars>>

States == {"Registering", "WaitRegisterAck", "Forwarding", "Unregistering", "End"}
Chunks == 1..MaxChunks
Frame(k, c) == [kind |-> k, c |-> c]
Register   == Frame("reg", 0)
Unregister == Frame("unreg", 0)
Frames == {Register, Unregister} \cup {Frame("out", c) : c \in Chunks}
Replies == {"ack", "input", "unregReply", "other", "none"}
Event(t, ok, m, f) == [tag |-> t, ok |-> ok, msg |-> m, w |-> f]
NoFrame == Frame("none", 0)
(* TaskFwdMeta as operator[] default-constructs it. *)
NoMeta == [present |-> FALSE, output_stopped |-> FALSE,
           proc_stopped |-> FALSE, input_stopped |-> FALSE]

-----------------------------------------------------------------------------
(* The task and the task manager (their code is outside this file). *)

ChildWrite ==
  /\ ~childExited /\ childOut < MaxChunks
  /\ childOut' = childOut + 1
  /\ UNCHANGED <<childExited, procReported, childIn, loopVars, threadVars, netVars>>

ChildExit ==
  /\ ~childExited
  /\ childExited' = TRUE
  /\ UNCHANGED <<childOut, procReported, childIn, loopVars, threadVars, netVars>>

(* Fault variant: TaskProcessStop returns its own flag. *)
TaskProcessStopOwnFlag ==
  /\ childExited /\ ~procReported
  /\ procReported' = TRUE
  /\ meta' = [meta EXCEPT !.present = TRUE, !.proc_stopped = TRUE]
  /\ taskEndCalls' = taskEndCalls + 1
  /\ UNCHANGED <<childOut, childExited, childIn, fwdSetUp, pollActive, readCnt,
                 loopRunning, outQ, threadVars, netVars>>

(* TaskProcessStop: set proc_stopped under m_mtx_, return output_stopped; *)
(* the caller calls TaskEnd when it is true.                              *)
TaskProcessStop ==
  /\ childExited /\ ~procReported
  /\ procReported' = TRUE
  /\ meta' = [meta EXCEPT !.present = TRUE, !.proc_stopped = TRUE]
  /\ taskEndCalls' = IF meta.output_stopped THEN taskEndCalls + 1 ELSE taskEndCalls
  /\ UNCHANGED <<childOut, childExited, childIn, fwdSetUp, pollActive, readCnt,
                 loopRunning, outQ, threadVars, netVars>>

(* ~CforedClient, run by the task manager once TaskEnd has reported the  *)
(* task: it sets m_stopped_ and then joins the two threads.              *)
Destruct ==
  /\ taskEndCalls > 0 /\ ~stopped
  /\ stopped' = TRUE
  /\ UNCHANGED <<taskVars, loopVars, smState, smPc, drainPc, held,
                 writePending, assertFailed, netVars>>

-----------------------------------------------------------------------------
(* SetUpTaskFwd and the event-loop thread. *)

(* The poll handle is started before the meta is stored in the map. *)
StartPoll ==
  /\ fwdSetUp = "no"
  /\ fwdSetUp' = "polling" /\ pollActive' = TRUE
  /\ UNCHANGED <<taskVars, readCnt, loopRunning, outQ, meta, taskEndCalls,
                 threadVars, netVars>>

(* m_fwd_meta_map[pid] = meta: a fresh TaskFwdMeta with all flags false. *)
InsertMeta ==
  /\ fwdSetUp = "polling"
  /\ fwdSetUp' = "done"
  /\ meta' = [NoMeta EXCEPT !.present = TRUE]
  /\ UNCHANGED <<taskVars, pollActive, readCnt, loopRunning, outQ, taskEndCalls,
                 threadVars, netVars>>

(* Fault variant: the byte count is off by one and a read passes the end. *)
PollReadOutputPastEnd ==
  /\ pollActive /\ loopRunning /\ readCnt <= childOut
  /\ readCnt' = readCnt + 1
  /\ outQ' = Append(outQ, readCnt + 1)
  /\ UNCHANGED <<taskVars, fwdSetUp, pollActive, loopRunning, meta, taskEndCalls,
                 threadVars, netVars>>

(* The poll callback reads a chunk and forwards it (TaskOutPutForward). *)
PollReadOutput ==
  /\ pollActive /\ loopRunning /\ readCnt < childOut
  /\ readCnt' = readCnt + 1
  /\ outQ' = Append(outQ, readCnt + 1)
  /\ UNCHANGED <<taskVars, fwdSetUp, pollActive, loopRunning, meta, taskEndCalls,
                 threadVars, netVars>>

(* The poll callback reads EOF (EIO on a pty): it closes the handle and  *)
(* calls TaskOutputFinish, then TaskEnd if proc_stopped was already set. *)
PollReadEof ==
  /\ pollActive /\ loopRunning /\ readCnt = childOut /\ childExited
  /\ pollActive' = FALSE
  /\ meta' = [meta EXCEPT !.present = TRUE, !.output_stopped = TRUE]
  /\ taskEndCalls' = IF meta.proc_stopped THEN taskEndCalls + 1 ELSE taskEndCalls
  /\ UNCHANGED <<taskVars, fwdSetUp, readCnt, loopRunning, outQ, threadVars, netVars>>

(* The idle handler: once m_stopped_ is set, close every handle and stop. *)
LoopIdle ==
  /\ loopRunning /\ stopped
  /\ loopRunning' = FALSE /\ pollActive' = FALSE
  /\ UNCHANGED <<taskVars, fwdSetUp, readCnt, outQ, meta, taskEndCalls,
                 threadVars, netVars>>

-----------------------------------------------------------------------------
(* The stream: gRPC completes issued operations into m_cq_ in any order; *)
(* cfored answers REGISTER with an ack and UNREGISTER with a reply.       *)

CfOredReceive(f) ==
  CASE f.kind = "reg"   -> toClient' = Append(toClient, "ack") /\ fanoutPhase' = "fwd"
    [] f.kind = "unreg" -> toClient' = Append(toClient, "unregReply") /\ fanoutPhase' = "done"
    [] OTHER            -> UNCHANGED <<toClient, fanoutPhase>>

CompletePrepare ==
  /\ prepareOut
  /\ prepareOut' = FALSE
  /\ cq' = cq \cup {Event("Prepare", ~broken, "none", NoFrame)}
  /\ UNCHANGED <<taskVars, loopVars, threadVars, writesOut, readOut, toClient,
                 fanoutGot, fanoutPhase, inputsSent, broken>>

CompleteWrite ==
  \E f \in writesOut :
    /\ writesOut' = writesOut \ {f}
    /\ cq' = cq \cup {Event("Write", ~broken, "none", f)}
    /\ IF broken THEN UNCHANGED <<fanoutGot, toClient, fanoutPhase>>
                 ELSE fanoutGot' = Append(fanoutGot, f) /\ CfOredReceive(f)
    /\ UNCHANGED <<taskVars, loopVars, threadVars, readOut, prepareOut, inputsSent, broken>>

CompleteRead ==
  /\ readOut /\ (broken \/ toClient # <<>>)
  /\ readOut' = FALSE
  /\ IF broken THEN cq' = cq \cup {Event("Read", FALSE, "none", NoFrame)} /\ UNCHANGED toClient
               ELSE cq' = cq \cup {Event("Read", TRUE, Head(toClient), NoFrame)}
                    /\ toClient' = Tail(toClient)
  /\ UNCHANGED <<taskVars, loopVars, threadVars, writesOut, prepareOut, fanoutGot,
                 fanoutPhase, inputsSent, broken>>

SendableMsgs == {"input"} \cup (IF FanoutMaySendOther THEN {"other"} ELSE {})

CfOredSend ==
  /\ fanoutPhase = "fwd" /\ ~broken /\ inputsSent < MaxInput
  /\ \E m \in SendableMsgs : toClient' = Append(toClient, m)
  /\ inputsSent' = inputsSent + 1
  /\ UNCHANGED <<taskVars, loopVars, threadVars, writesOut, readOut, prepareOut, cq,
                 fanoutGot, fanoutPhase, broken>>

StreamBreak ==
  /\ StreamMayFail /\ ~broken
  /\ broken' = TRUE
  /\ UNCHANGED <<taskVars, loopVars, threadVars, writesOut, readOut, prepareOut, cq,
                 toClient, fanoutGot, fanoutPhase, inputsSent>>

-----------------------------------------------------------------------------
(* AsyncSendRecvThread_.  SMEvent is one GOT_EVENT iteration of the loop. *)
(* Each branch primes the variables below and leaves the rest alone.      *)

smOwned == <<stopped, smState, smPc, writePending, writesOut, readOut, drainPc,
             held, outQ, assertFailed, meta, childIn>>

(* bool ok = m_output_queue_.try_dequeue(output) *)
TryDequeue ==
  IF outQ = <<>> THEN held' = 0 /\ UNCHANGED outQ
                 ELSE held' = Head(outQ) /\ outQ' = Tail(outQ)

(* case State::End: m_stopped_ = true, then join the drain thread. *)
EndStep ==
  /\ stopped' = TRUE /\ smState' = "End" /\ smPc' = "joinE"
  /\ UNCHANGED <<writePending, writesOut, readOut, drainPc, held, outQ,
                 assertFailed, meta, childIn>>

OnRegistering(e) ==
  /\ assertFailed' = (assertFailed \/ e.tag # "Prepare")
  /\ writePending' = TRUE /\ writesOut' = writesOut \cup {Register}
  /\ smState' = "WaitRegisterAck"
  /\ UNCHANGED <<stopped, smPc, readOut, drainPc, held, outQ, meta, childIn>>

OnWaitRegisterAck(e) ==
  \/ /\ e.tag = "Write"
     /\ writePending' = FALSE /\ readOut' = TRUE
     /\ UNCHANGED <<stopped, smState, smPc, writesOut, drainPc, held, outQ,
                    assertFailed, meta, childIn>>
  \/ /\ e.tag = "Read"
     /\ smState' = "Forwarding" /\ readOut' = TRUE
     /\ drainPc' = "run" /\ TryDequeue
     /\ UNCHANGED <<stopped, smPc, writePending, writesOut, assertFailed, meta, childIn>>

(* The TASK_INPUT payload is written to the task's input fd unless input *)
(* stopped; TaskInputNoLock_ fails once the task's end of the pipe is gone. *)
ForwardInput ==
  IF meta.present /\ ~meta.input_stopped
  THEN IF childExited THEN meta' = [meta EXCEPT !.input_stopped = TRUE] /\ UNCHANGED childIn
                      ELSE childIn' = childIn + 1 /\ UNCHANGED meta
  ELSE UNCHANGED <<meta, childIn>>

OnForwarding(e) ==
  \/ /\ e.tag = "Write"
     /\ writePending' = FALSE
     /\ UNCHANGED <<stopped, smState, smPc, writesOut, readOut, drainPc, held, outQ,
                    assertFailed, meta, childIn>>
  \/ /\ e.tag # "Write" /\ e.msg # "input"
     /\ assertFailed' = (assertFailed \/ e.tag # "Read")
     /\ UNCHANGED <<stopped, smState, smPc, writePending, writesOut, readOut, drainPc,
                    held, outQ, meta, childIn>>
  \/ /\ e.tag # "Write" /\ e.msg = "input"
     /\ assertFailed' = (assertFailed \/ e.tag # "Read")
     /\ ForwardInput /\ readOut' = TRUE
     /\ UNCHANGED <<stopped, smState, smPc, writePending, writesOut, drainPc, held, outQ>>

OnUnregistering(e) ==
  \/ /\ e.tag = "Write"
     /\ UNCHANGED smOwned
  \/ /\ e.tag # "Write" /\ e.msg # "unregReply"
     /\ assertFailed' = (assertFailed \/ e.tag # "Read")
     /\ readOut' = TRUE
     /\ UNCHANGED <<stopped, smState, smPc, writePending, writesOut, drainPc, held,
                    outQ, meta, childIn>>
  \/ /\ e.tag # "Write" /\ e.msg = "unregReply"
     /\ EndStep

SMEvent ==
  \E e \in cq :
    /\ smPc = "run"
    /\ cq' = cq \ {e}
    /\ IF ~e.ok /\ e.tag # "Prepare" THEN EndStep
       ELSE CASE smState = "Registering"     -> OnRegistering(e)
              [] smState = "WaitRegisterAck" -> OnWaitRegisterAck(e)
              [] smState = "Forwarding"      -> OnForwarding(e)
              [] smState = "Unregistering"   -> OnUnregistering(e)
    /\ UNCHANGED <<childOut, childExited, procReported, fwdSetUp, pollActive, readCnt,
                   loopRunning, taskEndCalls, prepareOut, toClient, fanoutGot,
                   fanoutPhase, inputsSent, broken>>

(* TIMEOUT with m_stopped_ set, outside Unregistering: join the drain  *)
(* thread, which is then the blocked step SMJoinT.                       *)
SMTimeout ==
  /\ smPc = "run" /\ cq = {} /\ stopped /\ smState # "Unregistering"
  /\ smPc' = "joinT"
  /\ UNCHANGED <<taskVars, loopVars, stopped, smState, drainPc, held, writePending,
                 assertFailed, netVars>>

(* Fault variant: the join is not waited for. *)
SMJoinTNoJoin ==
  /\ smPc = "joinT"
  /\ smPc' = "run"
  /\ IF writePending THEN UNCHANGED <<writesOut, smState>>
     ELSE writesOut' = writesOut \cup {Unregister} /\ smState' = "Unregistering"
  /\ UNCHANGED <<taskVars, loopVars, stopped, drainPc, held, writePending, assertFailed,
                 readOut, prepareOut, cq, toClient, fanoutGot, fanoutPhase, inputsSent, broken>>

(* Fault variant: WriteLast without checking write_pending. *)
SMJoinTIgnorePending ==
  /\ smPc = "joinT" /\ drainPc # "run"
  /\ smPc' = "run"
  /\ writesOut' = writesOut \cup {Unregister} /\ smState' = "Unregistering"
  /\ UNCHANGED <<taskVars, loopVars, stopped, drainPc, held, writePending, assertFailed,
                 readOut, prepareOut, cq, toClient, fanoutGot, fanoutPhase, inputsSent, broken>>

(* The join returns once the drain thread has exited (or never ran); then *)
(* "if (write_pending) continue", else WriteLast(UNREGISTER).             *)
SMJoinT ==
  /\ smPc = "joinT" /\ drainPc # "run"
  /\ smPc' = "run"
  /\ IF writePending THEN UNCHANGED <<writesOut, smState>>
     ELSE writesOut' = writesOut \cup {Unregister} /\ smState' = "Unregistering"
  /\ UNCHANGED <<taskVars, loopVars, stopped, drainPc, held, writePending, assertFailed,
                 readOut, prepareOut, cq, toClient, fanoutGot, fanoutPhase, inputsSent, broken>>

(* State::End joins the drain thread, then the loop breaks. *)
SMJoinE ==
  /\ smPc = "joinE" /\ drainPc # "run"
  /\ smPc' = "exited"
  /\ UNCHANGED <<taskVars, loopVars, stopped, smState, drainPc, held, writePending,
                 assertFailed, netVars>>

-----------------------------------------------------------------------------
(* CleanOutputQueueAndWriteToStreamThread_: "while (!m_stopped_ || ok)". *)

drainOwned == <<drainPc, held, outQ, writePending, writesOut>>

(* !ok and not stopped: sleep, then try_dequeue. *)
DrainIdle ==
  /\ drainPc = "run" /\ held = 0 /\ ~stopped /\ outQ # <<>>
  /\ held' = Head(outQ) /\ outQ' = Tail(outQ)
  /\ UNCHANGED <<taskVars, fwdSetUp, pollActive, readCnt, loopRunning, meta, taskEndCalls,
                 stopped, smState, smPc, drainPc, writePending, assertFailed, netVars>>

(* Fault variant: the write_pending spin is left out. *)
DrainWriteNoWait ==
  /\ drainPc = "run" /\ held # 0
  /\ writePending' = TRUE
  /\ writesOut' = writesOut \cup {Frame("out", held)}
  /\ TryDequeue
  /\ UNCHANGED <<taskVars, fwdSetUp, pollActive, readCnt, loopRunning, meta, taskEndCalls,
                 stopped, smState, smPc, drainPc, assertFailed,
                 readOut, prepareOut, cq, toClient, fanoutGot, fanoutPhase, inputsSent, broken>>

(* ok: wait until write_pending is clear, take it, Write, try_dequeue. *)
DrainWrite ==
  /\ drainPc = "run" /\ held # 0 /\ ~writePending
  /\ writePending' = TRUE
  /\ writesOut' = writesOut \cup {Frame("out", held)}
  /\ TryDequeue
  /\ UNCHANGED <<taskVars, fwdSetUp, pollActive, readCnt, loopRunning, meta, taskEndCalls,
                 stopped, smState, smPc, drainPc, assertFailed,
                 readOut, prepareOut, cq, toClient, fanoutGot, fanoutPhase, inputsSent, broken>>

(* !ok and m_stopped_: the loop condition fails and the thread exits. *)
DrainExit ==
  /\ drainPc = "run" /\ held = 0 /\ stopped
  /\ drainPc' = "exited"
  /\ UNCHANGED <<taskVars, loopVars, stopped, smState, smPc, held, writePending,
                 assertFailed, netVars>>

-----------------------------------------------------------------------------
(* The constructor has started the loop; InitChannelAndStub has started  *)
(* AsyncSendRecvThread_, whose AsyncTaskIOStream awaits the Prepare tag.  *)
Init ==
  /\ childOut = 0 /\ childExited = FALSE /\ procReported = FALSE /\ childIn = 0
  /\ fwdSetUp = "no" /\ pollActive = FALSE /\ readCnt = 0 /\ loopRunning = TRUE
  /\ outQ = <<>> /\ meta = NoMeta /\ taskEndCalls = 0
  /\ stopped = FALSE /\ smState = "Registering" /\ smPc = "run"
  /\ drainPc = "none" /\ held = 0 /\ writePending = FALSE /\ assertFailed = FALSE
  /\ writesOut = {} /\ readOut = FALSE /\ prepareOut = TRUE /\ cq = {}
  /\ toClient = <<>> /\ fanoutGot = <<>> /\ fanoutPhase = "wait"
  /\ inputsSent = 0 /\ broken = FALSE

TaskStep   == ChildWrite \/ ChildExit \/ TaskProcessStop \/ Destruct
LoopStep   == StartPoll \/ InsertMeta \/ PollReadOutput \/ PollReadEof \/ LoopIdle
SMStep     == SMEvent \/ SMTimeout \/ SMJoinT \/ SMJoinE
DrainStep  == DrainIdle \/ DrainWrite \/ DrainExit
StreamStep == CompletePrepare \/ CompleteWrite \/ CompleteRead \/ CfOredSend \/ StreamBreak

Next == TaskStep \/ LoopStep \/ SMStep \/ DrainStep \/ StreamStep

(* Every thread that is runnable runs: the libuv loop dispatches its      *)
(* handlers, the two client threads are scheduled, the task manager reaps *)
(* the task and destroys the client, and gRPC completes issued operations *)
(* on a live stream.  The task, cfored's inputs and failures are not fair. *)
Fairness ==
  /\ WF_vars(SMStep) /\ WF_vars(DrainStep)
  /\ WF_vars(StartPoll) /\ WF_vars(InsertMeta)
  /\ WF_vars(PollReadOutput) /\ WF_vars(PollReadEof) /\ WF_vars(LoopIdle)
  /\ WF_vars(TaskProcessStop) /\ WF_vars(Destruct)
  /\ WF_vars(CompletePrepare) /\ WF_vars(CompleteWrite) /\ WF_vars(CompleteRead)

Spec == Init /\ [][Next]_vars /\ Fairness

-----------------------------------------------------------------------------
(* Properties. *)

TypeOK ==
  /\ childOut \in 0..MaxChunks /\ readCnt \in 0..childOut
  /\ childExited \in BOOLEAN /\ procReported \in BOOLEAN /\ childIn \in 0..MaxInput
  /\ fwdSetUp \in {"no", "polling", "done"} /\ pollActive \in BOOLEAN
  /\ loopRunning \in BOOLEAN /\ outQ \in Seq(Chunks)
  /\ meta \in [present : BOOLEAN, output_stopped : BOOLEAN,
               proc_stopped : BOOLEAN, input_stopped : BOOLEAN]
  /\ taskEndCalls \in Nat /\ stopped \in BOOLEAN
  /\ smState \in States /\ smPc \in {"run", "joinT", "joinE", "exited"}
  /\ drainPc \in {"none", "run", "exited"} /\ held \in 0..MaxChunks
  /\ writePending \in BOOLEAN /\ writesOut \subseteq Frames
  /\ readOut \in BOOLEAN /\ prepareOut \in BOOLEAN
  /\ cq \subseteq [tag : {"Prepare", "Write", "Read"}, ok : BOOLEAN,
                   msg : Replies, w : Frames \cup {NoFrame}]
  /\ toClient \in Seq(Replies) /\ fanoutGot \in Seq(Frames)
  /\ fanoutPhase \in {"wait", "fwd", "done"} /\ inputsSent \in 0..MaxInput
  /\ broken \in BOOLEAN /\ assertFailed \in BOOLEAN

OutputFrames == SelectSeq(fanoutGot, LAMBDA f : f.kind = "out")

(* cfored receives the task's output chunks in the order the poll        *)
(* callback read them, each once and without gaps: the drain thread,     *)
(* the write_pending token shared with the state machine, and gRPC's     *)
(* completion order together must keep one write in flight at a time.   *)
OutputInOrder ==
  \A i \in 1..Len(OutputFrames) : OutputFrames[i].c = i

(* gRPC allows one outstanding Write per stream: REGISTER from the state *)
(* machine, TASK_OUTPUT from the drain thread and the final UNREGISTER   *)
(* from the TIMEOUT branch never overlap.                                *)
SingleOutstandingWrite ==
  Cardinality(writesOut) <= 1

UnregisterIssued ==
  Unregister \in writesOut \/ \E i \in 1..Len(fanoutGot) : fanoutGot[i] = Unregister

(* Nothing is written after WriteLast(UNREGISTER): once it is issued, no *)
(* other write is in flight and cfored receives it as the last frame.   *)
NoWriteAfterWriteLast ==
  UnregisterIssued =>
    /\ writesOut \subseteq {Unregister}
    /\ \A i \in 1..Len(fanoutGot) : fanoutGot[i] = Unregister => i = Len(fanoutGot)

(* TaskEnd, which reports the task's end to the task manager, runs at    *)
(* most once although both TaskOutputFinish (poll callback) and          *)
(* TaskProcessStop (task manager) may trigger it.                        *)
TaskEndAtMostOnce ==
  taskEndCalls <= 1

(* The CRANE_ASSERTs on the tag in AsyncSendRecvThread_ hold: Registering *)
(* only ever sees Prepare, Forwarding and Unregistering only Write/Read. *)
NoAssertionFailure ==
  ~assertFailed

(* The comment of the drain thread: "Make sure before exit all output    *)
(* has been drained" -- when it exits, the output queue is empty.        *)
OutputDrainedAtExit ==
  drainPc = "exited" => outQ = <<>>

(* Once the client is told to stop, both of its threads and its event    *)
(* loop finish, so that ~CforedClient's joins return.                   *)
Termination ==
  stopped ~> (smPc = "exited" /\ drainPc # "run" /\ ~loopRunning)

(* Once the task has exited, TaskEnd reports it (both the output EOF and *)
(* the process exit are seen).                                           *)
TaskEventuallyEnds ==
  childExited ~> (taskEndCalls > 0)

====
