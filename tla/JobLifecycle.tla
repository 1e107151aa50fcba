---------------------------- MODULE JobLifecycle ----------------------------
(***************************************************************************)
(* The life of a job: the control plane's run and job routers, the Redis   *)
(* list gb:jobs:queue, the two polling workers and the HTTP events they    *)
(* post back.                                                              *)
(*                                                                         *)
(* The control plane is one asyncio loop.  A handler runs without          *)
(* interruption up to an await and other handlers run in between, so every *)
(* handler is cut at its awaits: what remains to be done after one is a    *)
(* record of calls.  The awaits that matter are the Redis push and the     *)
(* WebSocket broadcast that follows each lifecycle event.                  *)
(*                                                                         *)
(* A job type says which worker takes the job; a run id and a run type,    *)
(* which are chosen apart from it, say which row its events write.         *)
(***************************************************************************)
EXTENDS Integers, Sequences, FiniteSets

CONSTANTS
    Jobs,         \* job ids (uuid4 in the code: never used twice)
    Runs,         \* run ids
    NoRun,        \* the run_id of a job that belongs to no run
    NoJob,        \* what an idle worker holds
    Workers,      \* worker processes
    WorkerType,   \* the JOB_TYPE each worker consumes
    MaxStage,     \* RUNNING events a pipeline posts before its terminal one
    MaxRequests,  \* bound on client requests
    MaxFaults,    \* bound on faults
    Requests,     \* kinds of client request that occur
    JobRequests,  \* what clients ask of POST /jobs: job type, run and run type
    Overrides,    \* the runs and run types other clients' events may name
    Faults        \* kinds of fault that occur

JobTypes == {"training", "backtest", "parameter_sweep", "testing"}
RunTypes == {"training", "parameter_sweep", "backtest"}
RowTypes == {"training", "parameter_sweep", "testing"}
MirroredTypes == {"training", "parameter_sweep", "backtest"}
GatedTypes == {"training", "backtest"}

Status == {"queued", "waiting_for_data", "running", "success", "failed", "cancelled"}
CancelableStates == {"queued", "waiting_for_data", "running"}
RetryableStates == {"failed", "cancelled"}
TerminalStates == {"success", "failed", "cancelled"}

RequestKinds == {"job", "training", "parameter_sweep", "testing",
                 "publish", "cancel", "retry", "read"}
FaultKinds == {"enqueue_fails", "post_lost", "post_timeout", "job_abort",
               "worker_crash", "api_restart"}

Evidence == {"none", "sound", "malformed"}

\* What an event says of the run it belongs to.
Names == [run : Runs \cup {NoRun}, type : RunTypes \cup {"none"}]

ASSUME ConstantsAssumption ==
    /\ NoRun \notin Runs
    /\ NoJob \notin Jobs
    /\ WorkerType \in [Workers -> {"training", "backtest"}]
    /\ MaxStage \in Nat \ {0}
    /\ MaxRequests \in Nat
    /\ MaxFaults \in Nat
    /\ Requests \subseteq RequestKinds
    /\ JobRequests \subseteq [job : JobTypes, run : Runs \cup {NoRun}, type : RunTypes \cup {"none"}]
    /\ Overrides \subseteq Names
    /\ Faults \subseteq FaultKinds

VARIABLES
    jobType,    \* job type of the envelope, "none" before the job exists
    jobRun,     \* run_id of the envelope
    runType,    \* run_type of the envelope
    store,      \* job_state_store: latest event kept in memory, or NoEvent
    db,         \* latest row of the job's event log, or NoEvent
    envelopes,  \* job_submission_store: jobs whose envelope is in memory
    rowType,    \* the run table that holds the row of a run, or "none"
    row,        \* its status column
    artifacts,  \* jobs with an artifact summary row
    queue,      \* the Redis list gb:jobs:queue
    attempts,   \* attempt_count in the job's Redis hash
    worker,     \* the loop of each worker
    posts,      \* event posts the control plane has not begun to handle
    calls,      \* what remains of the handlers waiting at an await
    passed,     \* history: a success of which job passed the gate for which run
    raised,     \* history: ... made the gate raise for which run
    requests,   \* client requests so far
    faults      \* faults so far

memory == <<store, envelopes>>
gated == <<passed, raised>>
rows == <<rowType, row, artifacts, passed, raised>>
minted == <<jobType, jobRun, runType>>
vars == <<jobType, jobRun, runType, store, db, envelopes, rowType, row, artifacts, queue,
          attempts, worker, posts, calls, passed, raised, requests, faults>>

\* A worker waits for the answer to a RUNNING post ("wait"), to the last post
\* of the pipeline ("final"), or to the one its timeout handler sent ("last").
WorkerPc == {"idle", "foreign", "run", "wait", "final", "abort", "last"}
CallAt == {"push", "push_retry", "retry_row", "sync", "gate", "cancel"}

\* Every call and post carries a ticket: the number of the worker's post, or a
\* number above those for a client's request.
LastPost == MaxStage + 2
Tickets == 1 .. (LastPost + MaxRequests)

Event(s, r, y) == [status |-> s, run |-> r, type |-> y]
NoEvent == Event("none", NoRun, "none")

\* What a handler that recorded event e of job j has still to do.
Call(at, j, n, e, v) ==
    [at |-> at, job |-> j, n |-> n, status |-> e.status, run |-> e.run, type |-> e.type,
     evidence |-> v]

Idle == [pc |-> "idle", job |-> NoJob, n |-> 0]

-----------------------------------------------------------------------------
Init ==
    /\ jobType = [j \in Jobs |-> "none"]
    /\ jobRun = [j \in Jobs |-> NoRun]
    /\ runType = [j \in Jobs |-> "none"]
    /\ store = [j \in Jobs |-> NoEvent]
    /\ db = [j \in Jobs |-> NoEvent]
    /\ envelopes = {}
    /\ rowType = [r \in Runs |-> "none"]
    /\ row = [r \in Runs |-> "none"]
    /\ artifacts = {}
    /\ queue = << >>
    /\ attempts = [j \in Jobs |-> 0]
    /\ worker = [w \in Workers |-> Idle]
    /\ posts = {}
    /\ calls = {}
    /\ passed = {}
    /\ raised = {}
    /\ requests = 0
    /\ faults = 0

Requested(kind) ==
    /\ kind \in Requests
    /\ requests < MaxRequests
    /\ requests' = requests + 1

Ticket == LastPost + requests + 1

Faulted(kind) ==
    /\ kind \in Faults
    /\ faults < MaxFaults
    /\ faults' = faults + 1

\* Mutant of Record: the event is kept in memory and not persisted.
RecordWithoutPersist(j, e) ==
    /\ store' = [store EXCEPT ![j] = e]
    /\ UNCHANGED db

\* job_state_store.upsert followed by persist_event, with no await between.
Record(j, e) ==
    /\ store' = [store EXCEPT ![j] = e]
    /\ db' = [db EXCEPT ![j] = e]

Mint(j, t, r, y) ==
    /\ jobType[j] = "none"
    /\ jobType' = [jobType EXCEPT ![j] = t]
    /\ jobRun' = [jobRun EXCEPT ![j] = r]
    /\ runType' = [runType EXCEPT ![j] = y]

\* A run id from uuid4: nothing has named it before.
Fresh(r) ==
    /\ rowType[r] = "none"
    /\ \A j \in Jobs : jobRun[j] # r /\ db[j].run # r
    /\ \A c \in calls : c.run # r

\* RunSqlRepository.add up to its commit.
AddRow(r, t) ==
    /\ Fresh(r)
    /\ rowType' = [rowType EXCEPT ![r] = t]
    /\ row' = [row EXCEPT ![r] = "queued"]

\* RunSqlRepository.update_status on the row an event or a call x names: nothing
\* happens when it names no run, no table, or there is no such row.
HasRow(x) ==
    /\ x.run \in Runs
    /\ x.type \in MirroredTypes
    /\ rowType[x.run] = x.type

UpdateRow(x, s) ==
    row' = IF HasRow(x) THEN [row EXCEPT ![x.run] = s] ELSE row

-----------------------------------------------------------------------------
\* The requests that create jobs and rows.

\* POST /training-runs and /testing-runs: the row is committed, and then _to_dict
\* reads a column the table has not.  The answer is 500; no event is recorded, no
\* envelope is pushed.  (POST /backtest-runs raises before it stores anything.)
OrphanRun(r, t) ==
    /\ t \in {"training", "testing"}
    /\ Requested(t)
    /\ AddRow(r, t)
    /\ UNCHANGED <<minted, memory, db, artifacts, gated, queue, attempts, worker,
                   posts, calls, faults>>

\* POST /jobs: the caller names a job type, and a run and a run type as it likes.
CreateJob(j, q) ==
    /\ Requested("job")
    /\ Mint(j, q.job, q.run, q.type)
    /\ Record(j, Event("queued", q.run, q.type))
    /\ envelopes' = envelopes \cup {j}
    /\ calls' = calls \cup {Call("push", j, Ticket, Event("queued", q.run, q.type), "none")}
    /\ UNCHANGED <<rows, queue, attempts, worker, posts, faults>>

\* POST /parameter-sweeps, which keeps no envelope in memory.
CreateSweep(j, r) ==
    /\ Requested("parameter_sweep")
    /\ Mint(j, "parameter_sweep", r, "parameter_sweep")
    /\ AddRow(r, "parameter_sweep")
    /\ Record(j, Event("queued", r, "parameter_sweep"))
    /\ calls' = calls \cup
                  {Call("push", j, Ticket, Event("queued", r, "parameter_sweep"), "none")}
    /\ UNCHANGED <<envelopes, artifacts, gated, queue, attempts, worker, posts, faults>>

\* JobRedisQueue.enqueue.  After it a retry still has to write the run row;
\* the other handlers only broadcast.
Push(c) ==
    /\ c \in calls
    /\ c.at \in {"push", "push_retry"}
    /\ queue' = Append(queue, c.job)
    /\ calls' = IF c.at = "push" THEN calls \ {c}
                ELSE (calls \ {c}) \cup {[c EXCEPT !.at = "retry_row"]}
    /\ UNCHANGED <<minted, memory, db, rows, attempts, worker, posts, requests, faults>>

\* The push raises: the handler answers 500 and what it recorded stays.
PushFails(c) ==
    /\ c \in calls
    /\ c.at \in {"push", "push_retry"}
    /\ Faulted("enqueue_fails")
    /\ calls' = calls \ {c}
    /\ UNCHANGED <<minted, memory, db, rows, queue, attempts, worker, posts, requests>>

-----------------------------------------------------------------------------
\* The workers.

Free(w) == worker' = [worker EXCEPT ![w] = Idle]
Move(w, pc) == worker' = [worker EXCEPT ![w].pc = pc]

\* Mutant of Claim: the worker reads the head of the list without popping it.
ClaimWithoutPop(w) ==
    /\ worker[w].pc = "idle"
    /\ queue # << >>
    /\ jobType[Head(queue)] = WorkerType[w]
    /\ worker' = [worker EXCEPT ![w] = [pc |-> "run", job |-> Head(queue), n |-> 0]]
    /\ UNCHANGED <<minted, memory, db, rows, queue, attempts, posts, calls, requests, faults>>

\* BLPOP, then hincrby attempt_count for a job of the worker's own type.  The
\* fourth attempt at a job would be refused.
Claim(w) ==
    /\ worker[w].pc = "idle"
    /\ queue # << >>
    /\ queue' = Tail(queue)
    /\ LET j == Head(queue) IN
         IF jobType[j] # WorkerType[w]
         THEN /\ worker' = [worker EXCEPT ![w] = [pc |-> "foreign", job |-> j, n |-> 0]]
              /\ UNCHANGED attempts
         ELSE /\ attempts' = [attempts EXCEPT ![j] = @ + 1]
              /\ worker' = [worker EXCEPT ![w] =
                   [pc |-> IF attempts[j] < 3 THEN "run" ELSE "abort", job |-> j, n |-> 0]]
    /\ UNCHANGED <<minted, memory, db, rows, posts, calls, requests, faults>>

\* Mutants of ForeignRequeue: the foreign envelope is dropped, or goes back to
\* the head of the list.
ForeignDrop(w) ==
    /\ worker[w].pc = "foreign"
    /\ Free(w)
    /\ UNCHANGED <<minted, memory, db, rows, queue, attempts, posts, calls, requests, faults>>

ForeignRequeueAtHead(w) ==
    /\ worker[w].pc = "foreign"
    /\ queue' = <<worker[w].job>> \o queue
    /\ Free(w)
    /\ UNCHANGED <<minted, memory, db, rows, attempts, posts, calls, requests, faults>>

ForeignRequeue(w) ==
    /\ worker[w].pc = "foreign"
    /\ queue' = Append(queue, worker[w].job)
    /\ Free(w)
    /\ UNCHANGED <<minted, memory, db, rows, attempts, posts, calls, requests, faults>>

\* persist_event of the worker: the payload carries no lineage, which is the
\* evidence the success gate asks for.
Post(w, s, pc) ==
    /\ worker' = [worker EXCEPT ![w].pc = pc, ![w].n = @ + 1]
    /\ posts' = posts \cup {[job |-> worker[w].job, n |-> worker[w].n + 1, status |-> s]}
    /\ UNCHANGED <<minted, memory, db, rows, queue, attempts, calls, requests>>

\* Mutant of PostRunning: the pipeline repeats its last stage.
PostRunningAgain(w) ==
    /\ worker[w].pc = "run"
    /\ Post(w, "running", "wait")
    /\ UNCHANGED faults

PostRunning(w) ==
    /\ worker[w].pc = "run"
    /\ worker[w].n < MaxStage
    /\ Post(w, "running", "wait")
    /\ UNCHANGED faults

\* The training pipeline ends with FAILED, since its lineage preflight accepts no request
\* (module TrainingPipeline), and the research worker with SUCCESS.
LastStatus(w) == IF WorkerType[w] = "training" THEN "failed" ELSE "success"

PostVerdict(w) ==
    /\ worker[w].pc = "run"
    /\ worker[w].n = MaxStage
    /\ Post(w, LastStatus(w), "final")
    /\ UNCHANGED faults

\* A pipeline that has begun raises: the payload of the envelope, which POST /jobs
\* takes as it comes, is not one the pipeline accepts.
PipelineRaises(w) ==
    /\ worker[w].pc = "run"
    /\ worker[w].n >= 1
    /\ Move(w, "abort")
    /\ UNCHANGED <<minted, memory, db, rows, queue, attempts, posts, calls, requests, faults>>

\* Mutant of Answered: the worker does not wait for the answer.
AnsweredAtOnce(j, n) == TRUE

Answered(j, n) ==
    /\ \A p \in posts : ~(p.job = j /\ p.n = n)
    /\ \A c \in calls : ~(c.job = j /\ c.n = n)

Resume(w) == IF worker[w].pc = "wait" THEN Move(w, "run") ELSE Free(w)

Ack(w) ==
    /\ worker[w].pc \in {"wait", "final", "last"}
    /\ Answered(worker[w].job, worker[w].n)
    /\ Resume(w)
    /\ UNCHANGED <<minted, memory, db, rows, queue, attempts, posts, calls, requests, faults>>

\* urlopen gives up after three seconds; the post itself lives on.
PostTimeout(w) ==
    /\ worker[w].pc \in {"wait", "final", "last"}
    /\ ~Answered(worker[w].job, worker[w].n)
    /\ Faulted("post_timeout")
    /\ Resume(w)
    /\ UNCHANGED <<minted, memory, db, rows, queue, attempts, posts, calls, requests>>

\* wait_for cancels the pipeline after JOB_TIMEOUT_SECONDS even though the thread
\* that posts goes on.
JobAbort(w) ==
    /\ worker[w].pc \in {"run", "wait", "final"}
    /\ Faulted("job_abort")
    /\ Move(w, "abort")
    /\ UNCHANGED <<minted, memory, db, rows, queue, attempts, posts, calls, requests>>

PostAborted(w) ==
    /\ worker[w].pc = "abort"
    /\ Post(w, "failed", "last")
    /\ UNCHANGED faults

\* Mutant of WorkerCrash: the envelope of a dead worker is delivered again.
WorkerCrashRedelivers(w) ==
    /\ worker[w].pc # "idle"
    /\ Faulted("worker_crash")
    /\ Free(w)
    /\ queue' = Append(queue, worker[w].job)
    /\ UNCHANGED <<minted, memory, db, rows, attempts, posts, calls, requests>>

\* The process dies with its envelope and is started again.
WorkerCrash(w) ==
    /\ worker[w].pc # "idle"
    /\ Faulted("worker_crash")
    /\ Free(w)
    /\ UNCHANGED <<minted, memory, db, rows, queue, attempts, posts, calls, requests>>

PostLost(p) ==
    /\ p \in posts
    /\ Faulted("post_lost")
    /\ posts' = posts \ {p}
    /\ UNCHANGED <<minted, memory, db, rows, queue, attempts, worker, calls, requests>>

-----------------------------------------------------------------------------
\* POST /jobs/{id}/events.

\* The event a handler looks at: the one in memory, else the log's latest.
Existing(j) == IF store[j] # NoEvent THEN store[j] ELSE db[j]

\* An update's run and run type, where it brings them, else those of the event there is.
Updated(j, s, r, y) ==
    Event(s, IF r # NoRun THEN r ELSE Existing(j).run, IF y # "none" THEN y ELSE Existing(j).type)

\* Up to the broadcast: the update is recorded whatever the job's status was.  A
\* worker posts the run and the run type of its envelope.
Deliver(p) ==
    /\ p \in posts
    /\ posts' = posts \ {p}
    /\ IF Existing(p.job) = NoEvent
       THEN UNCHANGED <<store, db, calls>>
       ELSE LET e == Updated(p.job, p.status, jobRun[p.job], runType[p.job])
            IN  /\ Record(p.job, e)
                /\ calls' = calls \cup {Call("sync", p.job, p.n, e, "none")}
    /\ UNCHANGED <<minted, envelopes, rows, queue, attempts, worker, requests, faults>>

\* The same endpoint called by another client, which may bring evidence and may
\* name any run and run type.
Publish(j, s, o, v) ==
    /\ Requested("publish")
    /\ v # "none" => s = "success"
    /\ Existing(j) # NoEvent
    /\ LET e == Updated(j, s, o.run, o.type)
       IN  /\ Record(j, e)
           /\ calls' = calls \cup {Call("sync", j, Ticket, e, v)}
    /\ UNCHANGED <<minted, envelopes, rows, queue, attempts, worker, posts, faults>>

\* A success or a failure that brings a result reference leaves an artifact
\* summary (module RunArtifacts); both may come without one.
SaveArtifact(c, s) ==
    \/ UNCHANGED artifacts
    \/ /\ c.run # NoRun
       /\ c.type # "none"
       /\ s \in {"success", "failed"}
       /\ artifacts' = artifacts \cup {c.job}

\* Mutants of NeedsGate: a success without evidence is not gated, or the gate goes
\* by the type of the job and not by the run type the event names.
NeedsGateIfEvidence(c) ==
    c.status = "success" /\ c.evidence # "none" /\ c.type \in GatedTypes /\ HasRow(c)

NeedsGateByJob(c) ==
    c.status = "success" /\ jobType[c.job] \in GatedTypes /\ HasRow(c)

NeedsGate(c) == c.status = "success" /\ c.type \in GatedTypes /\ HasRow(c)

\* After the broadcast: the run row follows the event, unless the event is a
\* success that evaluate_success_gate does not let pass.
Sync(c) ==
    /\ c \in calls
    /\ c.at = "sync"
    /\ ~NeedsGate(c) \/ c.evidence = "sound"
    /\ calls' = calls \ {c}
    /\ UpdateRow(c, c.status)
    /\ SaveArtifact(c, c.status)
    /\ passed' = IF NeedsGate(c) THEN passed \cup {<<c.job, c.run>>} ELSE passed
    /\ UNCHANGED <<minted, memory, db, rowType, raised, queue, attempts, worker, posts,
                   requests, faults>>

\* The gate refuses: for want of evidence, or because the evidence does not
\* agree with the run.  The failure is recorded and broadcast first ...
GateFails(c) ==
    /\ c \in calls
    /\ c.at = "sync"
    /\ NeedsGate(c)
    /\ Record(c.job, Event("failed", c.run, c.type))
    /\ calls' = (calls \ {c}) \cup {[c EXCEPT !.at = "gate", !.status = "failed"]}
    /\ UNCHANGED <<minted, envelopes, rows, queue, attempts, worker, posts, requests, faults>>

\* The gate raises on a seed that is no number: the answer is 500, the success
\* stays in the log and the row is left as it was.
GateRaises(c) ==
    /\ c \in calls
    /\ c.at = "sync"
    /\ NeedsGate(c)
    /\ c.evidence = "malformed"
    /\ calls' = calls \ {c}
    /\ raised' = raised \cup {<<c.job, c.run>>}
    /\ UNCHANGED <<minted, memory, db, rowType, row, artifacts, passed, queue, attempts,
                   worker, posts, requests, faults>>

\* Mutant of GateRow: the run row is left as it was.
GateRowForgotten(c) ==
    /\ c \in calls
    /\ c.at = "gate"
    /\ calls' = calls \ {c}
    /\ SaveArtifact(c, "failed")
    /\ UNCHANGED <<minted, memory, db, rowType, row, gated, queue, attempts, worker,
                   posts, requests, faults>>

\* ... and reaches the run row after that broadcast.
GateRow(c) ==
    /\ c \in calls
    /\ c.at = "gate"
    /\ calls' = calls \ {c}
    /\ UpdateRow(c, "failed")
    /\ SaveArtifact(c, "failed")
    /\ UNCHANGED <<minted, memory, db, rowType, gated, queue, attempts, worker,
                   posts, requests, faults>>

-----------------------------------------------------------------------------
\* POST /jobs/{id}/cancel, POST /jobs/{id}/retry, GET /jobs/{id}.

\* What a handler read from the log it keeps in memory.
Cached(j) == [store EXCEPT ![j] = Existing(j)]

\* The envelope is neither taken off the queue nor is its worker told.
Cancel(j) ==
    /\ Requested("cancel")
    /\ Existing(j).status \in CancelableStates
    /\ LET e == [Existing(j) EXCEPT !.status = "cancelled"]
       IN  /\ Record(j, e)
           /\ calls' = calls \cup {Call("cancel", j, Ticket, e, "none")}
    /\ UNCHANGED <<minted, envelopes, rows, queue, attempts, worker, posts, faults>>

\* The row update that ends a cancel or a retry.
EndRow(c) ==
    /\ c \in calls
    /\ c.at \in {"cancel", "retry_row"}
    /\ calls' = calls \ {c}
    /\ UpdateRow(c, c.status)
    /\ UNCHANGED <<minted, memory, db, rowType, artifacts, gated, queue, attempts,
                   worker, posts, requests, faults>>

\* The envelope to send again, <<job type, run, run type>>: the one in memory, or
\* one rebuilt from the row the latest event of the job names.
Provenance(j) ==
    IF j \in envelopes THEN {<<jobType[j], jobRun[j], runType[j]>>}
    ELSE IF Existing(j).type = "training" /\ HasRow(Existing(j))
         THEN {<<"training", Existing(j).run, "training">>}
         ELSE {}

Retry(j, k) ==
    /\ Requested("retry")
    /\ Existing(j).status \in RetryableStates
    /\ \E v \in Provenance(j) :
         LET e == Event("queued", v[2], v[3])
         IN  /\ Mint(k, v[1], v[2], v[3])
             /\ store' = [Cached(j) EXCEPT ![k] = e]
             /\ db' = [db EXCEPT ![k] = e]
             /\ calls' = calls \cup {Call("push_retry", k, Ticket, e, "none")}
    /\ envelopes' = envelopes \cup {k}
    /\ UNCHANGED <<rows, queue, attempts, worker, posts, faults>>

\* GET /jobs/{id}, or a cancel or retry that answers 409, when memory has
\* nothing of the job.
Read(j) ==
    /\ Requested("read")
    /\ store[j] = NoEvent
    /\ db[j] # NoEvent
    /\ store' = Cached(j)
    /\ UNCHANGED <<minted, envelopes, db, rows, queue, attempts, worker, posts, calls, faults>>

\* The control plane stops and starts: memory and waiting handlers are gone,
\* and any of the posts on their way may be lost with it.
ApiRestart ==
    /\ Faulted("api_restart")
    /\ store' = [j \in Jobs |-> NoEvent]
    /\ envelopes' = {}
    /\ calls' = {}
    /\ posts' \in SUBSET posts
    /\ UNCHANGED <<minted, db, rows, queue, attempts, worker, requests>>

-----------------------------------------------------------------------------
Create ==
    \/ \E r \in Runs, t \in RowTypes : OrphanRun(r, t)
    \/ \E j \in Jobs, q \in JobRequests : CreateJob(j, q)
    \/ \E j \in Jobs, r \in Runs : CreateSweep(j, r)

Continue(c) ==
    \/ Push(c)
    \/ Sync(c)
    \/ GateFails(c)
    \/ GateRaises(c)
    \/ GateRow(c)
    \/ EndRow(c)

ClientStep ==
    \/ \E j \in Jobs, s \in Status, o \in Overrides, v \in Evidence : Publish(j, s, o, v)
    \/ \E j \in Jobs : Cancel(j)
    \/ \E j, k \in Jobs : Retry(j, k)
    \/ \E j \in Jobs : Read(j)

WorkerStep(w) ==
    \/ Claim(w)
    \/ ForeignRequeue(w)
    \/ PostRunning(w)
    \/ PostVerdict(w)
    \/ PipelineRaises(w)
    \/ PostAborted(w)
    \/ Ack(w)

WorkerFault(w) ==
    \/ PostTimeout(w)
    \/ JobAbort(w)
    \/ WorkerCrash(w)

Next ==
    \/ Create
    \/ \E c \in calls : Continue(c)
    \/ \E c \in calls : PushFails(c)
    \/ \E p \in posts : Deliver(p)
    \/ \E p \in posts : PostLost(p)
    \/ ClientStep
    \/ \E w \in Workers : WorkerStep(w)
    \/ \E w \in Workers : WorkerFault(w)
    \/ ApiRestart

Spec == Init /\ [][Next]_vars

\* The event loop runs every handler on, the network delivers what it does not
\* lose, and a worker that can do something does it.
Fairness ==
    /\ WF_vars(\E c \in calls : Continue(c))
    /\ WF_vars(\E p \in posts : Deliver(p))
    /\ \A w \in Workers : WF_vars(WorkerStep(w))

LiveSpec == Spec /\ Fairness

-----------------------------------------------------------------------------
(* Properties. *)

CallSet == [at : CallAt, job : Jobs, n : Tickets, status : Status, run : Runs \cup {NoRun},
            type : RunTypes \cup {"none"}, evidence : Evidence]
PostSet == [job : Jobs, n : 1 .. LastPost, status : Status]
WorkerSet == [pc : WorkerPc, job : Jobs \cup {NoJob}, n : 0 .. LastPost]
EventSet == [status : Status \cup {"none"}, run : Runs \cup {NoRun}, type : RunTypes \cup {"none"}]

\* Type invariant: every variable keeps its shape, and the numbers of posts and
\* requests stay within their bounds.
TypeOK ==
    /\ jobType \in [Jobs -> JobTypes \cup {"none"}]
    /\ jobRun \in [Jobs -> Runs \cup {NoRun}]
    /\ runType \in [Jobs -> RunTypes \cup {"none"}]
    /\ store \in [Jobs -> EventSet]
    /\ db \in [Jobs -> EventSet]
    /\ envelopes \subseteq Jobs
    /\ rowType \in [Runs -> RowTypes \cup {"none"}]
    /\ row \in [Runs -> Status \cup {"none"}]
    /\ artifacts \subseteq Jobs
    /\ queue \in Seq(Jobs)
    /\ attempts \in [Jobs -> Nat]
    /\ worker \in [Workers -> WorkerSet]
    /\ posts \subseteq PostSet
    /\ calls \subseteq CallSet
    /\ passed \subseteq Jobs \X Runs
    /\ raised \subseteq Jobs \X Runs
    /\ requests \in 0 .. MaxRequests
    /\ faults \in 0 .. MaxFaults

InQueue(j) == \E i \in DOMAIN queue : queue[i] = j
PushingCalls == {c \in calls : c.at \in {"push", "push_retry"}}
Pushing(j) == \E c \in PushingCalls : c.job = j
HeldBy(w, j) == worker[w].pc # "idle" /\ worker[w].job = j

\* The envelope of a job is in one place at most: still to be pushed by one
\* handler, once in the Redis list, or with one worker.
SingleOwner ==
    /\ \A c, d \in PushingCalls : c.job = d.job => c = d
    /\ \A i, k \in DOMAIN queue : queue[i] = queue[k] => i = k
    /\ \A v, w \in Workers, j \in Jobs : HeldBy(v, j) /\ HeldBy(w, j) => v = w
    /\ \A j \in Jobs : Pushing(j) => ~InQueue(j)
    /\ \A w \in Workers, j \in Jobs : HeldBy(w, j) => ~InQueue(j) /\ ~Pushing(j)

\* No job is started twice under one id, so the limit of three attempts in
\* handle_with_timeout is never met: a retry has a new id.
StartedOnce == \A j \in Jobs : attempts[j] <= 1

\* The event kept in memory is the latest of the log, whatever handlers
\* interleave and whenever the control plane restarts: what a client reads
\* does not depend on where it is read from.
StoreCoherent == \A j \in Jobs : store[j] # NoEvent => store[j] = db[j]

\* A training or backtest run is marked a success only if a success of some job
\* passed the gate for that very run, whichever job's events name the run, in every
\* interleaving of retries, cancels and other clients' updates.
RowSuccessGated ==
    \A r \in Runs : row[r] = "success" /\ rowType[r] \in GatedTypes =>
        \E j \in Jobs : <<j, r>> \in passed

\* As long as nothing fails, a success in the log that names a gated run's row has
\* passed the gate for that run, or its handler is still to decide; the one other
\* way out is evidence on which the gate raises.
SuccessDecided ==
    faults = 0 => \A j \in Jobs :
        (db[j].status = "success" /\ db[j].type \in GatedTypes /\ HasRow(db[j])) =>
            \/ <<j, db[j].run>> \in passed \cup raised
            \/ \E c \in calls : /\ c.at = "sync" /\ c.job = j /\ c.status = "success"
                              /\ c.run = db[j].run /\ c.type = db[j].type

\* When nothing fails, a job that has not ended is carried by a handler, the
\* list or a worker: no interleaving of creation, cancel and retry loses one.
OpenJobCarried ==
    faults = 0 => \A j \in Jobs : jobType[j] # "none" /\ db[j].status \notin TerminalStates =>
        Pushing(j) \/ InQueue(j) \/ \E w \in Workers : HeldBy(w, j)

\* Nothing left to do for a job.
Settled(j) == \A c \in calls : c.job # j

\* The jobs whose envelopes name a run and the table of its row.
Mine(r) == {j \in Jobs : HasRow([run |-> jobRun[j], type |-> runType[j]]) /\ jobRun[j] = r}

\* The row is written after an await, so the last to write it need not be the last
\* in the log.  Where only workers publish, and all handlers of the jobs that name a
\* run are done, its row is still the status of one of them, unless a cancel met
\* another event of the run, or a retry wrote its queued after the worker had begun.
RowErrsByRaceOnly ==
    "publish" \notin Requests /\ faults = 0 => \A r \in Runs :
        (Mine(r) # {} /\ \A j \in Mine(r) : Settled(j)) =>
            \/ row[r] \in {db[j].status : j \in Mine(r)}
            \/ "cancelled" \in {row[r]} \cup {db[j].status : j \in Mine(r)}
            \/ row[r] = "queued" /\ \E j, k \in Mine(r) : j # k

\* A worker's posts reach the log in the order of the pipeline: unless
\* something fails no job goes from failed back to running.
NoStepBack ==
    [][faults' = 0 => \A j \in Jobs :
         db[j].status \in {"success", "failed"} => db'[j].status \in {"success", "failed"}]_vars

\* Every job of a type some worker consumes ends, even with an envelope in the
\* list that no worker takes.
JobsEnd ==
    \A j \in Jobs :
        (db[j].status = "queued" /\ \E w \in Workers : jobType[j] = WorkerType[w])
            ~> (db[j].status \in TerminalStates)

\* Claims of the documentation.

\* architecture.md, Training run: a training run's row comes with an envelope in the
\* list and a queued event.
RunsEnqueued ==
    \A r \in Runs : (rowType[r] = "training") ~> (\E j \in Jobs : db[j].run = r)
=============================================================================
