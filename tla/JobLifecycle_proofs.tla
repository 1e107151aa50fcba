------------------------ MODULE JobLifecycle_proofs ------------------------
(***************************************************************************)
(* Safety of JobLifecycle for every number of jobs, runs, workers, stages, *)
(* requests and faults.                                                    *)
(***************************************************************************)
EXTENDS JobLifecycle, TLAPS

\* How far a worker is bounds the posts it has sent; a busy worker has a job.
WorkerCounts ==
    \A w \in Workers :
        /\ worker[w].pc # "idle" => worker[w].job \in Jobs
        /\ worker[w].pc \in {"run", "wait"} => worker[w].n <= MaxStage
        /\ worker[w].pc \in {"final", "abort"} => worker[w].n <= MaxStage + 1

\* A cancel writes cancelled and a retry queued when they end.
CallShapes ==
    \A c \in calls :
        /\ c.at \in {"cancel", "retry_row"} => c.status \in {"cancelled", "queued"}
        /\ c.at \in {"push", "push_retry"} => c.status = "queued"
        /\ c.at = "gate" => c.status = "failed"

TInv == TypeOK /\ WorkerCounts /\ CallShapes

\* Nothing mentions a job id that has not been minted.
Untouched ==
    \A j \in Jobs : jobType[j] = "none" =>
        /\ store[j] = NoEvent
        /\ db[j] = NoEvent
        /\ attempts[j] = 0
        /\ ~InQueue(j)
        /\ \A w \in Workers : ~HeldBy(w, j)
        /\ \A p \in posts : p.job # j
        /\ \A c \in calls : c.job # j

\* An envelope that a worker has started never waits in a handler, in the list
\* or with a worker of another type again.
StartedIsGone ==
    \A j \in Jobs : attempts[j] > 0 =>
        /\ ~InQueue(j)
        /\ ~Pushing(j)
        /\ \A w \in Workers : HeldBy(w, j) => worker[w].pc # "foreign"

OwnerInv == Untouched /\ StartedIsGone /\ SingleOwner /\ StartedOnce

\* The inductive invariant.
IInv == TInv /\ OwnerInv /\ StoreCoherent /\ RowSuccessGated

-----------------------------------------------------------------------------
(* Types. *)

\* A job is created: by POST /jobs, or by a sweep that adds its row.
Creates(j, t, e) ==
    /\ e.status = "queued"
    /\ Mint(j, t, e.run, e.type)
    /\ Record(j, e)
    /\ calls' = calls \cup {Call("push", j, Ticket, e, "none")}
    /\ \E kind : Requested(kind)
    /\ envelopes' \in {envelopes, envelopes \cup {j}}
    /\ \/ UNCHANGED <<rowType, row>>
       \/ /\ e.run \in Runs /\ e.type = "parameter_sweep"
          /\ AddRow(e.run, "parameter_sweep")
    /\ UNCHANGED <<artifacts, gated, queue, attempts, worker, posts, faults>>

\* A retry creates one from the envelope of another.
Retries(j, k, t, e) ==
    /\ Existing(j).status \in RetryableStates
    /\ <<t, e.run, e.type>> \in Provenance(j)
    /\ e.status = "queued"
    /\ Mint(k, t, e.run, e.type)
    /\ store' = [Cached(j) EXCEPT ![k] = e]
    /\ db' = [db EXCEPT ![k] = e]
    /\ calls' = calls \cup {Call("push_retry", k, Ticket, e, "none")}
    /\ Requested("retry")
    /\ envelopes' = envelopes \cup {k}
    /\ UNCHANGED <<rows, queue, attempts, worker, posts, faults>>

LEMMA CreationFacts ==
    ASSUME NEW j \in Jobs, \/ \E q \in JobRequests : CreateJob(j, q)
                           \/ \E r \in Runs : CreateSweep(j, r)
    PROVE  \E t \in JobTypes, e \in EventSet : Creates(j, t, e)
<1>1. ASSUME NEW q \in JobRequests, CreateJob(j, q)
      PROVE  \E t \in JobTypes, e \in EventSet : Creates(j, t, e)
  <2> DEFINE e == Event("queued", q.run, q.type)
  <2>1. q.job \in JobTypes /\ q.run \in Runs \cup {NoRun} /\ q.type \in RunTypes \cup {"none"}
    BY ConstantsAssumption DEF ConstantsAssumption
  <2>2. e \in EventSet /\ e.status = "queued" /\ e.run = q.run /\ e.type = q.type
    BY <2>1 DEF Event, EventSet, Status
  <2>3. Creates(j, q.job, e)
    BY <1>1, <2>2 DEF CreateJob, Creates, rows, gated
  <2> HIDE DEF e
  <2> QED BY <2>1, <2>2, <2>3
<1>2. ASSUME NEW r \in Runs, CreateSweep(j, r)
      PROVE  \E t \in JobTypes, e \in EventSet : Creates(j, t, e)
  <2> DEFINE e == Event("queued", r, "parameter_sweep")
  <2>1. /\ e \in EventSet /\ e.status = "queued" /\ e.run = r /\ e.type = "parameter_sweep"
        /\ "parameter_sweep" \in JobTypes
    BY DEF Event, EventSet, Status, RunTypes, JobTypes
  <2>2. Creates(j, "parameter_sweep", e)
    BY <1>2, <2>1 DEF CreateSweep, Creates
  <2> HIDE DEF e
  <2> QED BY <2>1, <2>2
<1> QED BY <1>1, <1>2

\* Every step of the system is one of these: Next with its nesting undone.
LEMMA StepCases ==
    ASSUME Next
    PROVE  \/ \E j \in Jobs, t \in JobTypes, e \in EventSet : Creates(j, t, e)
           \/ \E r \in Runs, t \in RowTypes : OrphanRun(r, t)
           \/ \E c \in calls : \/ Push(c) \/ PushFails(c) \/ Sync(c)
                              \/ GateFails(c) \/ GateRaises(c) \/ GateRow(c) \/ EndRow(c)
           \/ \E p \in posts : Deliver(p) \/ PostLost(p)
           \/ \E j \in Jobs, s \in Status, o \in Overrides, v \in Evidence : Publish(j, s, o, v)
           \/ \E j \in Jobs : Cancel(j) \/ Read(j)
           \/ \E j, k \in Jobs : Retry(j, k)
           \/ \E w \in Workers : \/ Claim(w) \/ ForeignRequeue(w) \/ Ack(w)
                                \/ PostRunning(w) \/ PostVerdict(w)
                                \/ PostAborted(w) \/ PostTimeout(w) \/ JobAbort(w)
                                \/ PipelineRaises(w) \/ WorkerCrash(w)
           \/ ApiRestart
<1>1. CASE Create
  BY <1>1, CreationFacts DEF Create
<1>2. CASE ~Create
  BY <1>2 DEF Next, Continue, ClientStep, WorkerStep, WorkerFault
<1> QED BY <1>1, <1>2

LEMMA TInvInit == Init => TInv
BY ConstantsAssumption
   DEF Init, TInv, TypeOK, WorkerCounts, CallShapes, Idle, WorkerSet, WorkerPc,
       CallSet, PostSet, LastPost, EventSet, NoEvent, Event, ConstantsAssumption

\* A request that is still allowed gets a ticket of its own.
LEMMA TicketType ==
    ASSUME requests \in 0 .. MaxRequests, NEW kind, Requested(kind)
    PROVE  requests' \in 0 .. MaxRequests /\ Ticket \in Tickets
BY ConstantsAssumption DEF Requested, Ticket, Tickets, LastPost, ConstantsAssumption

LEMMA FaultType ==
    ASSUME faults \in 0 .. MaxFaults, NEW kind, Faulted(kind)
    PROVE  faults' \in 0 .. MaxFaults
BY ConstantsAssumption DEF Faulted, ConstantsAssumption

LEMMA CallType ==
    ASSUME NEW at \in CallAt, NEW j \in Jobs, NEW n \in Tickets, NEW e \in EventSet,
           e.status \in Status, NEW v \in Evidence
    PROVE  Call(at, j, n, e, v) \in CallSet
BY DEF Call, CallSet, EventSet

\* What the parts of an action do to the types of the variables they assign.
LEMMA RecordType ==
    ASSUME TypeOK, NEW j \in Jobs, NEW e \in EventSet, Record(j, e)
    PROVE  store' \in [Jobs -> EventSet] /\ db' \in [Jobs -> EventSet]
BY DEF TypeOK, Record

LEMMA ExistingType ==
    ASSUME TypeOK, NEW j \in Jobs
    PROVE  Existing(j) \in EventSet
BY DEF TypeOK, Existing

LEMMA UpdatedType ==
    ASSUME TypeOK, NEW j \in Jobs, NEW s \in Status, NEW r \in Runs \cup {NoRun},
           NEW y \in RunTypes \cup {"none"}
    PROVE  Updated(j, s, r, y) \in EventSet /\ Updated(j, s, r, y).status = s
<1>1. Existing(j).run \in Runs \cup {NoRun} /\ Existing(j).type \in RunTypes \cup {"none"}
  BY ExistingType DEF EventSet
<1> QED BY <1>1 DEF Updated, Event, EventSet

LEMMA MintType ==
    ASSUME TypeOK, NEW j \in Jobs, NEW t \in JobTypes \cup {"none"},
           NEW r \in Runs \cup {NoRun}, NEW y \in RunTypes \cup {"none"}, Mint(j, t, r, y)
    PROVE  /\ jobType' \in [Jobs -> JobTypes \cup {"none"}]
           /\ jobRun' \in [Jobs -> Runs \cup {NoRun}]
           /\ runType' \in [Jobs -> RunTypes \cup {"none"}]
BY DEF TypeOK, Mint

LEMMA AddRowType ==
    ASSUME TypeOK, NEW r \in Runs, NEW t \in RowTypes, AddRow(r, t)
    PROVE  /\ rowType' \in [Runs -> RowTypes \cup {"none"}]
           /\ row' \in [Runs -> Status \cup {"none"}]
BY DEF TypeOK, AddRow, Status

LEMMA UpdateRowType ==
    ASSUME TypeOK, NEW c, NEW s \in Status, UpdateRow(c, s)
    PROVE  row' \in [Runs -> Status \cup {"none"}]
BY DEF TypeOK, UpdateRow, HasRow

LEMMA SaveArtifactType ==
    ASSUME TypeOK, NEW c \in CallSet, NEW s, SaveArtifact(c, s)
    PROVE  artifacts' \subseteq Jobs
BY DEF TypeOK, SaveArtifact, CallSet

\* What a retry starts from, with its types.
LEMMA RetryFacts ==
    ASSUME TypeOK, NEW j \in Jobs, NEW k \in Jobs, Retry(j, k)
    PROVE  \E t \in JobTypes \cup {"none"}, e \in EventSet : Retries(j, k, t, e)
<1>1. PICK v \in Provenance(j) :
        /\ Mint(k, v[1], v[2], v[3])
        /\ store' = [Cached(j) EXCEPT ![k] = Event("queued", v[2], v[3])]
        /\ db' = [db EXCEPT ![k] = Event("queued", v[2], v[3])]
        /\ calls' = calls \cup {Call("push_retry", k, Ticket, Event("queued", v[2], v[3]), "none")}
  BY DEF Retry
<1>2. /\ v = <<v[1], v[2], v[3]>>
      /\ v[1] \in JobTypes \cup {"none"} /\ v[2] \in Runs \cup {NoRun}
      /\ v[3] \in RunTypes \cup {"none"}
  <2>1. CASE j \in envelopes
    BY <2>1 DEF Provenance, TypeOK
  <2>2. CASE j \notin envelopes
    BY <2>2 DEF Provenance, HasRow, JobTypes, RunTypes
  <2> QED BY <2>1, <2>2
<1> DEFINE e == Event("queued", v[2], v[3])
<1>3. e \in EventSet /\ e.status = "queued" /\ e.run = v[2] /\ e.type = v[3]
  BY <1>2 DEF Event, EventSet, Status
<1>4. /\ Mint(k, v[1], e.run, e.type) /\ <<v[1], e.run, e.type>> \in Provenance(j)
      /\ store' = [Cached(j) EXCEPT ![k] = e] /\ db' = [db EXCEPT ![k] = e]
      /\ calls' = calls \cup {Call("push_retry", k, Ticket, e, "none")}
  BY <1>1, <1>2, <1>3
<1> HIDE DEF e
<1>5. Retries(j, k, v[1], e)
  BY <1>3, <1>4 DEF Retry, Retries
<1> QED BY <1>2, <1>3, <1>5

\* The requests that create jobs and rows.
LEMMA TInvCreate ==
    ASSUME TInv, NEW j \in Jobs, NEW t \in JobTypes, NEW e \in EventSet, Creates(j, t, e)
    PROVE  TInv'
<1>1. requests' \in 0 .. MaxRequests /\ Ticket \in Tickets
  BY TicketType DEF TInv, TypeOK, Creates
<1>2. calls' = calls \cup {Call("push", j, Ticket, e, "none")} /\ e.status = "queued"
  BY DEF Creates
<1>3. calls' \subseteq CallSet
  <2>1. Call("push", j, Ticket, e, "none") \in CallSet
    BY <1>1, <1>2, CallType DEF CallAt, Status, Evidence
  <2> QED BY <1>2, <2>1 DEF TInv, TypeOK
<1>4. e.run \in Runs \cup {NoRun} /\ e.type \in RunTypes \cup {"none"}
  BY DEF EventSet
<1>5. TypeOK'
  <2>1. /\ store' \in [Jobs -> EventSet] /\ db' \in [Jobs -> EventSet]
        /\ jobType' \in [Jobs -> JobTypes \cup {"none"}]
        /\ jobRun' \in [Jobs -> Runs \cup {NoRun}]
        /\ runType' \in [Jobs -> RunTypes \cup {"none"}]
    BY <1>4, RecordType, MintType DEF TInv, Creates
  <2>2. /\ rowType' \in [Runs -> RowTypes \cup {"none"}]
        /\ row' \in [Runs -> Status \cup {"none"}]
    <3>1. CASE UNCHANGED <<rowType, row>>
      BY <3>1 DEF TInv, TypeOK
    <3>2. CASE ~UNCHANGED <<rowType, row>>
      BY <3>2, AddRowType DEF TInv, Creates, RowTypes
    <3> QED BY <3>1, <3>2
  <2>3. /\ envelopes' \subseteq Jobs
        /\ UNCHANGED <<artifacts, passed, raised, queue, attempts, worker, posts, faults>>
    BY DEF Creates, gated, TInv, TypeOK
  <2> QED BY <1>1, <1>3, <2>1, <2>2, <2>3 DEF TInv, TypeOK
<1>6. WorkerCounts'
  BY DEF TInv, WorkerCounts, Creates
<1>7. CallShapes'
  BY <1>2 DEF TInv, CallShapes, Call
<1> QED BY <1>5, <1>6, <1>7 DEF TInv

LEMMA TInvOrphan ==
    ASSUME TInv, NEW r \in Runs, NEW t \in RowTypes, OrphanRun(r, t)
    PROVE  TInv'
<1>1. requests' \in 0 .. MaxRequests
  BY TicketType DEF TInv, TypeOK, OrphanRun
<1>2. /\ rowType' \in [Runs -> RowTypes \cup {"none"}]
      /\ row' \in [Runs -> Status \cup {"none"}]
  BY AddRowType DEF TInv, OrphanRun
<1>3. UNCHANGED <<minted, memory, db, artifacts, gated, queue, attempts, worker, posts, calls, faults>>
  BY DEF OrphanRun
<1>4. TypeOK'
  BY <1>1, <1>2, <1>3 DEF TInv, TypeOK, minted, memory, gated
<1> QED BY <1>3, <1>4 DEF TInv, WorkerCounts, CallShapes

\* What is left of a handler: the call keeps its job, ticket and status, or its
\* status becomes failed at the gate.
LEMMA TInvContinue ==
    ASSUME TInv, NEW c \in calls,
           \/ Push(c) \/ PushFails(c) \/ Sync(c)
           \/ GateFails(c) \/ GateRaises(c) \/ GateRow(c) \/ EndRow(c)
    PROVE  TInv'
<1>1. c \in CallSet /\ c.job \in Jobs /\ c.status \in Status /\ c.n \in Tickets
  BY DEF TInv, TypeOK, CallSet
<1>2. \A at \in CallAt : /\ [c EXCEPT !.at = at] \in CallSet
                         /\ [c EXCEPT !.at = at, !.status = "failed"] \in CallSet
  BY <1>1 DEF CallSet, Status
<1>3. "failed" \in Status /\ {"retry_row", "gate"} \subseteq CallAt
  BY DEF Status, CallAt
<1>4. /\ UNCHANGED <<jobType, jobRun, runType, envelopes, rowType, attempts, worker, posts, requests>>
      /\ queue' \in {queue, Append(queue, c.job)}
      /\ artifacts' = artifacts \/ \E s \in Status : SaveArtifact(c, s)
      /\ faults' \in 0 .. MaxFaults
  BY <1>1, <1>3, FaultType
     DEF Push, PushFails, Sync, GateFails, GateRaises, GateRow, EndRow, minted, memory,
         rows, gated, TInv, TypeOK
<1>5. /\ UNCHANGED <<store, db>> \/ \E e \in EventSet : Record(c.job, e)
      /\ UNCHANGED row \/ \E s \in Status : UpdateRow(c, s)
  <2>1. Event("failed", c.run, c.type) \in EventSet
    BY <1>1 DEF Event, EventSet, CallSet, Status
  <2> QED BY <1>1, <1>3, <2>1
     DEF Push, PushFails, Sync, GateFails, GateRaises, GateRow, EndRow, memory, rows
<1>6. \/ calls' = calls \ {c}
      \/ /\ c.at = "push_retry"
         /\ calls' = (calls \ {c}) \cup {[c EXCEPT !.at = "retry_row"]}
      \/ /\ c.at = "sync"
         /\ calls' = (calls \ {c}) \cup {[c EXCEPT !.at = "gate", !.status = "failed"]}
  BY DEF Push, PushFails, Sync, GateFails, GateRaises, GateRow, EndRow
<1>7. TypeOK'
  <2>1. calls' \subseteq CallSet
    <3>1. calls \subseteq CallSet
      BY DEF TInv, TypeOK
    <3>2. \A d \in CallSet : calls' \subseteq (calls \ {c}) \cup {d} => calls' \subseteq CallSet
      BY <3>1
    <3>3. CASE calls' = calls \ {c}
      BY <3>1, <3>3
    <3>4. CASE calls' = (calls \ {c}) \cup {[c EXCEPT !.at = "retry_row"]}
      BY <1>2, <1>3, <3>2, <3>4
    <3>5. CASE calls' = (calls \ {c}) \cup {[c EXCEPT !.at = "gate", !.status = "failed"]}
      BY <1>2, <1>3, <3>2, <3>5
    <3> QED BY <1>6, <3>3, <3>4, <3>5
  <2>2. /\ store' \in [Jobs -> EventSet]
        /\ db' \in [Jobs -> EventSet]
        /\ row' \in [Runs -> Status \cup {"none"}]
    BY <1>1, <1>5, RecordType, UpdateRowType DEF TInv, TypeOK
  <2>3. queue' \in Seq(Jobs)
    <3>1. queue \in Seq(Jobs) /\ Append(queue, c.job) \in Seq(Jobs)
      BY <1>1 DEF TInv, TypeOK
    <3> QED BY <1>4, <3>1
  <2>4. passed' \subseteq Jobs \X Runs /\ raised' \subseteq Jobs \X Runs
    <3>1. NeedsGate(c) => <<c.job, c.run>> \in Jobs \X Runs
      BY <1>1 DEF NeedsGate, HasRow
    <3> QED BY <3>1 DEF Push, PushFails, Sync, GateFails, GateRaises, GateRow, EndRow, rows,
                        gated, TInv, TypeOK
  <2>5. artifacts' \subseteq Jobs
    BY <1>1, <1>4, SaveArtifactType DEF TInv, TypeOK
  <2> QED BY <1>4, <2>1, <2>2, <2>3, <2>4, <2>5 DEF TInv, TypeOK
<1>8. WorkerCounts'
  BY <1>4 DEF TInv, WorkerCounts
<1>9. CallShapes'
  <2>1. c.at = "push_retry" => c.status = "queued"
    BY DEF TInv, CallShapes
  <2>2. SUFFICES ASSUME NEW d \in calls', d \notin calls
                 PROVE  /\ d.at \in {"cancel", "retry_row"} => d.status \in {"cancelled", "queued"}
                        /\ d.at \in {"push", "push_retry"} => d.status = "queued"
                        /\ d.at = "gate" => d.status = "failed"
    BY DEF TInv, CallShapes
  <2>3. CASE c.at = "push_retry"
    BY <1>1, <1>6, <2>1, <2>2, <2>3 DEF CallSet
  <2>4. CASE c.at = "sync"
    BY <1>1, <1>6, <2>2, <2>4 DEF CallSet
  <2> QED BY <1>6, <2>2, <2>3, <2>4
<1> QED BY <1>7, <1>8, <1>9 DEF TInv

\* Posts that arrive or are lost.
LEMMA TInvPosts ==
    ASSUME TInv, NEW p \in posts, Deliver(p) \/ PostLost(p)
    PROVE  TInv'
<1>1. p.job \in Jobs /\ p.n \in Tickets /\ p.status \in Status
  <2>1. p.n \in 1 .. LastPost /\ LastPost \in Nat /\ MaxRequests \in Nat
    BY ConstantsAssumption DEF TInv, TypeOK, PostSet, LastPost, ConstantsAssumption
  <2> QED BY <2>1 DEF TInv, TypeOK, PostSet, Tickets
<1>2. /\ UNCHANGED <<minted, envelopes, rows, queue, attempts, worker, requests>>
      /\ posts' \subseteq posts
      /\ faults' \in 0 .. MaxFaults
  BY FaultType DEF Deliver, PostLost, memory, TInv, TypeOK
<1> DEFINE e == Updated(p.job, p.status, jobRun[p.job], runType[p.job])
<1>3. /\ UNCHANGED <<store, db>> \/ Record(p.job, e)
      /\ calls' \in {calls, calls \cup {Call("sync", p.job, p.n, e, "none")}}
  BY DEF Deliver, PostLost, memory
<1>4. e \in EventSet /\ e.status = p.status
  <2>1. jobRun[p.job] \in Runs \cup {NoRun} /\ runType[p.job] \in RunTypes \cup {"none"}
    BY <1>1 DEF TInv, TypeOK
  <2> QED BY <1>1, <2>1, UpdatedType DEF TInv
<1> HIDE DEF e
<1>5. Call("sync", p.job, p.n, e, "none") \in CallSet
  BY <1>1, <1>4, CallType DEF CallAt, Evidence
<1>6. TypeOK'
  <2>1. store' \in [Jobs -> EventSet] /\ db' \in [Jobs -> EventSet]
    BY <1>1, <1>3, <1>4, RecordType DEF TInv, TypeOK
  <2> QED BY <1>2, <1>3, <1>5, <2>1 DEF TInv, TypeOK, minted, rows
<1>7. WorkerCounts' /\ CallShapes'
  BY <1>2, <1>3 DEF TInv, WorkerCounts, CallShapes, Call
<1> QED BY <1>6, <1>7 DEF TInv

\* Publish, cancel and read: at most one event is recorded, and one call follows.
LEMMA TInvClient ==
    ASSUME TInv, NEW j \in Jobs,
           \/ \E s \in Status, o \in Overrides, v \in Evidence : Publish(j, s, o, v)
           \/ Cancel(j) \/ Read(j)
    PROVE  TInv'
<1>1. requests' \in 0 .. MaxRequests /\ Ticket \in Tickets
  BY TicketType DEF TInv, TypeOK, Publish, Cancel, Read
<1>2. UNCHANGED <<minted, envelopes, rows, queue, attempts, worker, posts, faults>>
  BY DEF Publish, Cancel, Read
<1>3. {"sync", "cancel"} \subseteq CallAt /\ "none" \in Evidence
  BY DEF CallAt, Evidence
<1>4. ASSUME NEW e \in EventSet, e.status \in Status, Record(j, e), NEW at \in {"sync", "cancel"},
             NEW u \in Evidence, calls' = calls \cup {Call(at, j, Ticket, e, u)},
             at = "cancel" => e.status = "cancelled"
      PROVE  TInv'
  <2>1. Call(at, j, Ticket, e, u) \in CallSet
    BY <1>1, <1>3, <1>4, CallType
  <2>2. store' \in [Jobs -> EventSet] /\ db' \in [Jobs -> EventSet]
    BY <1>4, RecordType DEF TInv
  <2>3. TypeOK'
    BY <1>1, <1>2, <1>4, <2>1, <2>2 DEF TInv, TypeOK, minted, rows
  <2> QED BY <1>2, <1>4, <2>3 DEF TInv, WorkerCounts, CallShapes, Call
<1>5. ASSUME NEW s \in Status, NEW o \in Overrides, NEW v \in Evidence, Publish(j, s, o, v)
      PROVE  TInv'
  <2> DEFINE e == Updated(j, s, o.run, o.type)
  <2>1. o.run \in Runs \cup {NoRun} /\ o.type \in RunTypes \cup {"none"}
    BY ConstantsAssumption DEF ConstantsAssumption, Names
  <2>3. e \in EventSet /\ e.status = s
    BY <2>1, UpdatedType DEF TInv
  <2>2. Record(j, e) /\ calls' = calls \cup {Call("sync", j, Ticket, e, v)}
    BY <1>5 DEF Publish
  <2> HIDE DEF e
  <2> QED BY <1>4, <2>2, <2>3
<1>6. CASE Cancel(j)
  <2> DEFINE e == [Existing(j) EXCEPT !.status = "cancelled"]
  <2>1. e \in EventSet /\ e.status = "cancelled" /\ "cancelled" \in Status
    BY ExistingType DEF EventSet, Status, TInv
  <2>2. Record(j, e) /\ calls' = calls \cup {Call("cancel", j, Ticket, e, "none")}
    BY <1>6 DEF Cancel
  <2> HIDE DEF e
  <2> QED BY <1>3, <1>4, <2>1, <2>2
<1>7. CASE Read(j)
  <2>1. UNCHANGED <<db, calls>> /\ store' = [store EXCEPT ![j] = Existing(j)]
    BY <1>7 DEF Read, Cached
  <2>2. store' \in [Jobs -> EventSet]
    BY <2>1, ExistingType DEF TInv, TypeOK
  <2>3. TypeOK'
    BY <1>1, <1>2, <2>1, <2>2 DEF TInv, TypeOK, minted, rows
  <2> QED BY <1>2, <2>1, <2>3 DEF TInv, WorkerCounts, CallShapes
<1> QED BY <1>5, <1>6, <1>7

LEMMA TInvRetry ==
    ASSUME TInv, NEW j \in Jobs, NEW k \in Jobs, Retry(j, k)
    PROVE  TInv'
<1>1. PICK t \in JobTypes \cup {"none"}, e \in EventSet : Retries(j, k, t, e)
  BY RetryFacts DEF TInv
<1>2. requests' \in 0 .. MaxRequests /\ Ticket \in Tickets
  BY <1>1, TicketType DEF TInv, TypeOK, Retries
<1>3. calls' = calls \cup {Call("push_retry", k, Ticket, e, "none")} /\ e.status = "queued"
  BY <1>1 DEF Retries
<1>4. calls' \subseteq CallSet
  <2>1. Call("push_retry", k, Ticket, e, "none") \in CallSet
    BY <1>2, <1>3, CallType DEF CallAt, Status, Evidence
  <2> QED BY <1>3, <2>1 DEF TInv, TypeOK
<1>5. store' \in [Jobs -> EventSet] /\ db' \in [Jobs -> EventSet]
  <2>1. Cached(j) \in [Jobs -> EventSet]
    BY ExistingType DEF Cached, TInv, TypeOK
  <2> QED BY <1>1, <2>1 DEF Retries, TInv, TypeOK
<1>6. /\ jobType' \in [Jobs -> JobTypes \cup {"none"}]
      /\ jobRun' \in [Jobs -> Runs \cup {NoRun}]
      /\ runType' \in [Jobs -> RunTypes \cup {"none"}]
  <2>1. e.run \in Runs \cup {NoRun} /\ e.type \in RunTypes \cup {"none"} /\ Mint(k, t, e.run, e.type)
    BY <1>1 DEF EventSet, Retries
  <2> QED BY <2>1, MintType DEF TInv
<1>7. envelopes' \subseteq Jobs /\ UNCHANGED <<rows, queue, attempts, worker, posts, faults>>
  BY <1>1 DEF Retries, TInv, TypeOK
<1>8. TypeOK'
  BY <1>2, <1>4, <1>5, <1>6, <1>7 DEF TInv, TypeOK, rows
<1>9. WorkerCounts' /\ CallShapes'
  BY <1>3, <1>7 DEF TInv, WorkerCounts, CallShapes, Call
<1> QED BY <1>8, <1>9 DEF TInv

\* A step of a worker: it moves to another point of its loop, perhaps with a
\* post, a claim or a requeue.
LEMMA TInvWorker ==
    ASSUME TInv, NEW w \in Workers,
           \/ Claim(w) \/ ForeignRequeue(w) \/ Ack(w) \/ PostRunning(w)
           \/ PostVerdict(w) \/ PostAborted(w) \/ PostTimeout(w) \/ JobAbort(w) \/ PipelineRaises(w) \/ WorkerCrash(w)
    PROVE  TInv'
<1>1. /\ UNCHANGED <<minted, store, db, envelopes, rows, calls, requests>>
      /\ faults' \in 0 .. MaxFaults
  BY FaultType
     DEF Claim, ForeignRequeue, Ack, PostRunning, PostVerdict, LastStatus, PostAborted,
         PostTimeout, JobAbort, PipelineRaises, WorkerCrash, Post, memory, TInv, TypeOK
<1>2. /\ MaxStage \in Nat \ {0}
      /\ LastPost = MaxStage + 2
      /\ worker[w].n \in 0 .. LastPost
      /\ worker[w].pc \in WorkerPc
      /\ worker[w].pc # "idle" => worker[w].job \in Jobs
      /\ worker[w].pc \in {"run", "wait"} => worker[w].n <= MaxStage
      /\ worker[w].pc \in {"final", "abort"} => worker[w].n <= MaxStage + 1
  BY ConstantsAssumption
     DEF ConstantsAssumption, LastPost, TInv, TypeOK, WorkerSet, WorkerCounts
<1>3. SUFFICES ASSUME TRUE
               PROVE  /\ queue' \in Seq(Jobs)
                      /\ attempts' \in [Jobs -> Nat]
                      /\ posts' \subseteq PostSet
                      /\ worker' \in [Workers -> WorkerSet]
                      /\ WorkerCounts'
  BY <1>1 DEF TInv, TypeOK, CallShapes, minted, rows
\* It is enough to look at the one entry of worker that changes.
<1>4. ASSUME NEW x \in WorkerSet, worker' = [worker EXCEPT ![w] = x],
             x.pc # "idle" => x.job \in Jobs,
             x.pc \in {"run", "wait"} => x.n <= MaxStage,
             x.pc \in {"final", "abort"} => x.n <= MaxStage + 1
      PROVE  worker' \in [Workers -> WorkerSet] /\ WorkerCounts'
  BY <1>4 DEF TInv, TypeOK, WorkerCounts
<1>5. Idle \in WorkerSet /\ Idle.pc = "idle"
  BY <1>2 DEF Idle, WorkerSet, WorkerPc
<1>6. CASE Claim(w)
  <2>1. Head(queue) \in Jobs /\ Tail(queue) \in Seq(Jobs)
    BY <1>6 DEF Claim, TInv, TypeOK
  <2>2. PICK pc \in {"foreign", "run", "abort"} :
          worker' = [worker EXCEPT ![w] = [pc |-> pc, job |-> Head(queue), n |-> 0]]
    BY <1>6 DEF Claim
  <2>3. worker' \in [Workers -> WorkerSet] /\ WorkerCounts'
    <3> DEFINE x == [pc |-> pc, job |-> Head(queue), n |-> 0]
    <3>1. x \in WorkerSet /\ x.pc = pc /\ x.job \in Jobs /\ x.n = 0
      BY <1>2, <2>1 DEF WorkerSet, WorkerPc
    <3>2. worker' = [worker EXCEPT ![w] = x]
      BY <2>2
    <3>3. /\ x.pc # "idle" => x.job \in Jobs
          /\ x.pc \in {"run", "wait"} => x.n <= MaxStage
          /\ x.pc \in {"final", "abort"} => x.n <= MaxStage + 1
      BY <1>2, <3>1
    <3> HIDE DEF x
    <3> QED BY <1>4, <3>1, <3>2, <3>3
  <2>4. attempts' \in [Jobs -> Nat]
    <3>1. attempts' \in {attempts, [attempts EXCEPT ![Head(queue)] = attempts[Head(queue)] + 1]}
      BY <1>6 DEF Claim
    <3>2. attempts \in [Jobs -> Nat] /\ attempts[Head(queue)] + 1 \in Nat
      BY <2>1 DEF TInv, TypeOK
    <3> QED BY <3>1, <3>2
  <2>5. queue' = Tail(queue) /\ posts' = posts
    BY <1>6 DEF Claim
  <2> QED BY <2>1, <2>3, <2>4, <2>5 DEF TInv, TypeOK
<1>7. CASE ForeignRequeue(w)
  <2>1. worker' = [worker EXCEPT ![w] = Idle] /\ UNCHANGED <<attempts, posts>>
    BY <1>7 DEF ForeignRequeue, Free
  <2>2. queue' = Append(queue, worker[w].job)
    BY <1>7 DEF ForeignRequeue
  <2>3. queue' \in Seq(Jobs)
    BY <1>2, <1>7, <2>2 DEF ForeignRequeue, TInv, TypeOK
  <2> QED BY <1>4, <1>5, <2>1, <2>3 DEF TInv, TypeOK
<1>8. CASE Ack(w) \/ PostTimeout(w) \/ JobAbort(w) \/ PipelineRaises(w) \/ WorkerCrash(w)
  <2>1. UNCHANGED <<queue, attempts, posts>>
    BY <1>8 DEF Ack, PostTimeout, JobAbort, PipelineRaises, WorkerCrash
  <2>2. \/ worker' = [worker EXCEPT ![w] = Idle]
        \/ /\ worker[w].pc = "wait"
           /\ worker' = [worker EXCEPT ![w].pc = "run"]
        \/ /\ worker[w].pc \in {"run", "wait", "final"}
           /\ worker' = [worker EXCEPT ![w].pc = "abort"]
    BY <1>8 DEF Ack, PostTimeout, JobAbort, PipelineRaises, WorkerCrash, Resume, Free, Move
  <2>3. worker[w] \in WorkerSet
    BY DEF TInv, TypeOK
  <2>4. worker' \in [Workers -> WorkerSet] /\ WorkerCounts'
    <3>1. CASE worker' = [worker EXCEPT ![w] = Idle]
      BY <1>4, <1>5, <3>1
    <3>2. ASSUME NEW pc \in {"run", "abort"}, worker' = [worker EXCEPT ![w].pc = pc],
                 worker[w].pc \in {"run", "wait", "final"},
                 pc = "run" => worker[w].pc = "wait"
          PROVE  worker' \in [Workers -> WorkerSet] /\ WorkerCounts'
      <4> DEFINE x == [worker[w] EXCEPT !.pc = pc]
      <4>1. x \in WorkerSet /\ x.pc = pc /\ x.job = worker[w].job /\ x.n = worker[w].n
        BY <2>3, <3>2 DEF WorkerSet, WorkerPc
      <4>2. worker' = [worker EXCEPT ![w] = x]
        BY <3>2
      <4>3. /\ x.pc # "idle" => x.job \in Jobs
            /\ x.pc \in {"run", "wait"} => x.n <= MaxStage
            /\ x.pc \in {"final", "abort"} => x.n <= MaxStage + 1
        BY <1>2, <3>2, <4>1
      <4> HIDE DEF x
      <4> QED BY <1>4, <4>1, <4>2, <4>3
    <3> QED BY <2>2, <3>1, <3>2
  <2> QED BY <2>1, <2>4 DEF TInv, TypeOK
<1>9. CASE PostRunning(w) \/ PostVerdict(w) \/ PostAborted(w)
  <2>1. PICK s \in {"running", "success", "failed"}, pc \in {"wait", "final", "last"} :
          /\ Post(w, s, pc)
          /\ worker[w].pc # "idle"
          /\ worker[w].n + 1 \in 1 .. LastPost
          /\ pc = "wait" => worker[w].n + 1 <= MaxStage
          /\ pc = "final" => worker[w].n + 1 <= MaxStage + 1
    BY <1>2, <1>9 DEF PostRunning, PostVerdict, LastStatus, PostAborted
  <2>2. UNCHANGED <<queue, attempts>>
    BY <2>1 DEF Post
  <2>3. posts' \subseteq PostSet
    <3>1. [job |-> worker[w].job, n |-> worker[w].n + 1, status |-> s] \in PostSet
      BY <1>2, <2>1 DEF PostSet, Status
    <3> QED BY <2>1, <3>1 DEF Post, TInv, TypeOK
  <2>4. worker' \in [Workers -> WorkerSet] /\ WorkerCounts'
    <3> DEFINE x == [pc |-> pc, job |-> worker[w].job, n |-> worker[w].n + 1]
    <3>1. worker[w] = [pc |-> worker[w].pc, job |-> worker[w].job, n |-> worker[w].n]
      BY DEF TInv, TypeOK, WorkerSet
    <3>2. worker' = [worker EXCEPT ![w] = x]
      BY <2>1, <3>1 DEF Post, TInv, TypeOK
    <3>3. x \in WorkerSet
      BY <1>2, <2>1 DEF WorkerSet, WorkerPc
    <3> QED BY <1>2, <1>4, <2>1, <3>2, <3>3
  <2> QED BY <2>2, <2>3, <2>4 DEF TInv, TypeOK
<1> QED BY <1>6, <1>7, <1>8, <1>9

LEMMA TInvRestart ==
    ASSUME TInv, ApiRestart
    PROVE  TInv'
<1>1. faults' \in 0 .. MaxFaults
  BY FaultType DEF ApiRestart, TInv, TypeOK
<1>2. TypeOK'
  <2>1. NoEvent \in EventSet
    BY DEF NoEvent, Event, EventSet
  <2> QED BY <1>1, <2>1 DEF ApiRestart, minted, rows, TInv, TypeOK
<1> QED BY <1>2 DEF ApiRestart, TInv, WorkerCounts, CallShapes

LEMMA TInvStep == TInv /\ [Next]_vars => TInv'
<1> SUFFICES ASSUME TInv, [Next]_vars PROVE TInv'
  OBVIOUS
<1>1. CASE UNCHANGED vars
  BY <1>1 DEF TInv, TypeOK, WorkerCounts, CallShapes, vars
<1>2. CASE Next
  <2> QED BY <1>2, StepCases, TInvCreate, TInvOrphan, TInvContinue, TInvPosts, TInvClient,
             TInvRetry, TInvWorker, TInvRestart
<1> QED BY <1>1, <1>2

LEMMA TInvAlways == Spec => []TInv
BY TInvInit, TInvStep, PTL DEF Spec

\* Every variable keeps its type, and posts and requests their bounds, for any
\* number of jobs, runs and workers.
THEOREM TypeCorrect == Spec => []TypeOK
<1>1. TInv => TypeOK
  BY DEF TInv
<1> QED BY TInvAlways, <1>1, PTL

-----------------------------------------------------------------------------
(* The status in memory. *)

LEMMA RecordCoherent ==
    ASSUME TypeOK, StoreCoherent, NEW j \in Jobs, NEW s, Record(j, s)
    PROVE  StoreCoherent'
BY DEF TypeOK, StoreCoherent, Record

LEMMA CoherentStep ==
    ASSUME TInv, StoreCoherent, [Next]_vars
    PROVE  StoreCoherent'
<1> USE DEF TInv
<1>0. ASSUME UNCHANGED <<store, db>> PROVE StoreCoherent'
  BY <1>0 DEF StoreCoherent
<1>1. CASE UNCHANGED vars
  BY <1>0, <1>1 DEF vars
<1>2. ASSUME NEW j \in Jobs, NEW t, NEW e, Creates(j, t, e)
      PROVE  StoreCoherent'
  BY <1>2, RecordCoherent DEF Creates
<1>10. ASSUME NEW r \in Runs, NEW t, OrphanRun(r, t)
      PROVE  StoreCoherent'
  BY <1>0, <1>10 DEF OrphanRun, memory
<1>3. ASSUME NEW c \in calls,
             \/ Push(c) \/ PushFails(c) \/ Sync(c)
             \/ GateFails(c) \/ GateRaises(c) \/ GateRow(c) \/ EndRow(c)
      PROVE  StoreCoherent'
  <2>1. c.job \in Jobs
    BY DEF TypeOK, CallSet
  <2> QED BY <1>0, <1>3, <2>1, RecordCoherent
          DEF Push, PushFails, Sync, GateFails, GateRaises, GateRow, EndRow, memory
<1>4. ASSUME NEW p \in posts, Deliver(p) \/ PostLost(p)
      PROVE  StoreCoherent'
  <2>1. p.job \in Jobs
    BY DEF TypeOK, PostSet
  <2> QED BY <1>0, <1>4, <2>1, RecordCoherent DEF Deliver, PostLost, memory
<1>5. ASSUME NEW j \in Jobs, NEW s, NEW o, NEW v, Publish(j, s, o, v) \/ Cancel(j)
      PROVE  StoreCoherent'
  BY <1>5, RecordCoherent DEF Publish, Cancel
\* A read, and the read a retry begins with, copy the log's latest event.
<1>6. ASSUME NEW j \in Jobs, Read(j)
      PROVE  StoreCoherent'
  BY <1>6 DEF Read, Cached, Existing, StoreCoherent, TypeOK
<1>7. ASSUME NEW j \in Jobs, NEW k \in Jobs, Retry(j, k)
      PROVE  StoreCoherent'
  BY <1>7 DEF Retry, Cached, Existing, StoreCoherent, TypeOK
<1>8. ASSUME NEW w \in Workers,
             \/ Claim(w) \/ ForeignRequeue(w) \/ Ack(w) \/ PostRunning(w)
             \/ PostVerdict(w) \/ PostAborted(w) \/ PostTimeout(w) \/ JobAbort(w) \/ PipelineRaises(w) \/ WorkerCrash(w)
      PROVE  StoreCoherent'
  BY <1>0, <1>8
     DEF Claim, ForeignRequeue, Ack, PostRunning, PostVerdict, LastStatus, PostAborted,
         PostTimeout, JobAbort, PipelineRaises, WorkerCrash, Post, memory
<1>9. CASE ApiRestart
  BY <1>9 DEF ApiRestart, StoreCoherent
<1> QED BY <1>1, <1>2, <1>3, <1>4, <1>5, <1>6, <1>7, <1>8, <1>9, <1>10, StepCases

\* The status kept in memory is the latest of the log, for any number of jobs,
\* workers, requests and faults.
THEOREM MemoryAgreesWithLog == Spec => []StoreCoherent
<1>1. Init => StoreCoherent
  BY DEF Init, StoreCoherent
<1>2. TInv /\ StoreCoherent /\ [Next]_vars => StoreCoherent'
  BY CoherentStep
<1> QED BY <1>1, <1>2, TInvAlways, PTL DEF Spec

-----------------------------------------------------------------------------
(* Where the envelope of a job is. *)

LEMMA QueueFacts ==
    ASSUME NEW q \in Seq(Jobs), NEW j \in Jobs
    PROVE  /\ DOMAIN q = 1 .. Len(q) /\ Len(q) \in Nat
           /\ DOMAIN Append(q, j) = 1 .. (Len(q) + 1)
           /\ \A i \in DOMAIN q : Append(q, j)[i] = q[i]
           /\ Append(q, j)[Len(q) + 1] = j
           /\ q # << >> =>
                /\ Head(q) = q[1] /\ 1 \in DOMAIN q
                /\ DOMAIN Tail(q) = 1 .. (Len(q) - 1)
                /\ \A i \in DOMAIN Tail(q) : Tail(q)[i] = q[i + 1]
OBVIOUS

\* A step that moves no envelope: no call begins to wait for a push, nobody
\* takes an envelope up, and no started one becomes foreign.
EnvelopesRest ==
    /\ UNCHANGED <<queue, attempts>>
    /\ PushingCalls' \subseteq PushingCalls
    /\ \A w \in Workers, j \in Jobs : HeldBy(w, j)' =>
          HeldBy(w, j) /\ (worker'[w].pc = "foreign" => worker[w].pc = "foreign")

Owned == StartedIsGone /\ SingleOwner /\ StartedOnce

LEMMA OwnedRest ==
    ASSUME Owned, EnvelopesRest
    PROVE  Owned'
<1>1. \A j \in Jobs : /\ InQueue(j)' <=> InQueue(j)
                      /\ Pushing(j)' => Pushing(j)
  BY DEF EnvelopesRest, InQueue, Pushing
<1>2. StartedIsGone' /\ StartedOnce'
  BY <1>1 DEF Owned, StartedIsGone, StartedOnce, EnvelopesRest
<1>3. SingleOwner'
  BY <1>1 DEF Owned, SingleOwner, EnvelopesRest
<1> QED BY <1>2, <1>3 DEF Owned

\* A new job brings one call that will push its envelope.
LEMMA OwnedMint ==
    ASSUME Owned, Untouched, NEW j \in Jobs, jobType[j] = "none", NEW c, c.job = j,
           PushingCalls' = PushingCalls \cup {c},
           UNCHANGED <<queue, attempts, worker>>
    PROVE  Owned'
<1>1. /\ ~InQueue(j)
      /\ \A w \in Workers : ~HeldBy(w, j)
      /\ \A d \in PushingCalls : d.job # j
      /\ attempts[j] = 0
  BY DEF Untouched, PushingCalls
<1>2. /\ \A k \in Jobs : InQueue(k)' <=> InQueue(k)
      /\ \A w \in Workers, k \in Jobs : HeldBy(w, k)' <=> HeldBy(w, k)
      /\ \A k \in Jobs : k # j => (Pushing(k)' <=> Pushing(k))
  BY DEF InQueue, HeldBy, Pushing
<1>3. StartedIsGone' /\ StartedOnce'
  BY <1>1, <1>2 DEF Owned, StartedIsGone, StartedOnce
<1>4. SingleOwner'
  BY <1>1, <1>2 DEF Owned, SingleOwner
<1> QED BY <1>3, <1>4 DEF Owned

\* The push moves the envelope from the call to the list.
LEMMA OwnedPush ==
    ASSUME TInv, Owned, NEW c \in calls, Push(c)
    PROVE  Owned'
<1>1. c \in PushingCalls /\ c.job \in Jobs /\ queue \in Seq(Jobs)
  BY DEF Push, PushingCalls, TInv, TypeOK, CallSet
<1>2. PushingCalls' = PushingCalls \ {c}
  BY DEF Push, PushingCalls, TInv, TypeOK, CallSet
<1>3. queue' = Append(queue, c.job) /\ UNCHANGED <<attempts, worker>>
  BY DEF Push
<1>4. /\ ~InQueue(c.job)
      /\ \A w \in Workers : ~HeldBy(w, c.job)
      /\ attempts[c.job] = 0
      /\ \A d \in PushingCalls' : d.job # c.job
  <2>1. Pushing(c.job)
    BY <1>1 DEF Pushing
  <2>2. attempts[c.job] \in Nat
    BY <1>1 DEF TInv, TypeOK
  <2> QED BY <1>1, <1>2, <2>1, <2>2 DEF Owned, SingleOwner, StartedIsGone
<1>5. \A k \in Jobs : InQueue(k)' <=> (InQueue(k) \/ k = c.job)
  BY <1>1, <1>3, QueueFacts DEF InQueue
<1>6. \A i, k \in DOMAIN queue' : queue'[i] = queue'[k] => i = k
  BY <1>1, <1>3, <1>4, QueueFacts DEF InQueue, Owned, SingleOwner
<1>7. /\ \A k \in Jobs : Pushing(k)' => Pushing(k) /\ k # c.job
      /\ \A w \in Workers, k \in Jobs : HeldBy(w, k)' <=> HeldBy(w, k)
  BY <1>2, <1>3, <1>4 DEF Pushing, HeldBy
<1>8. StartedIsGone' /\ StartedOnce'
  BY <1>3, <1>4, <1>5, <1>7 DEF Owned, StartedIsGone, StartedOnce
<1>9. SingleOwner'
  BY <1>2, <1>4, <1>5, <1>6, <1>7 DEF Owned, SingleOwner
<1> QED BY <1>8, <1>9 DEF Owned

\* The claim moves it from the list to the worker.
LEMMA OwnedClaim ==
    ASSUME TInv, Owned, NEW w \in Workers, Claim(w)
    PROVE  Owned'
<1> DEFINE j == Head(queue)
<1>1. queue \in Seq(Jobs) /\ queue # << >> /\ j \in Jobs /\ queue' = Tail(queue)
  BY DEF Claim, TInv, TypeOK
<1>2. UNCHANGED calls /\ PushingCalls' = PushingCalls
  BY DEF Claim, PushingCalls
<1>3. InQueue(j) /\ attempts[j] = 0 /\ ~Pushing(j) /\ \A v \in Workers : ~HeldBy(v, j)
  <2>1. InQueue(j)
    BY <1>1, QueueFacts DEF InQueue
  <2>2. attempts[j] \in Nat
    BY <1>1 DEF TInv, TypeOK
  <2> QED BY <1>1, <2>1, <2>2 DEF Owned, SingleOwner, StartedIsGone
<1>4. PICK pc \in {"foreign", "run", "abort"} :
        /\ worker' = [worker EXCEPT ![w] = [pc |-> pc, job |-> j, n |-> 0]]
        /\ \/ pc = "foreign" /\ attempts' = attempts
           \/ pc # "foreign" /\ attempts' = [attempts EXCEPT ![j] = attempts[j] + 1]
  BY DEF Claim
<1> HIDE DEF j
<1>5. \A k \in Jobs : InQueue(k)' => InQueue(k) /\ k # j
  BY <1>1, QueueFacts DEF InQueue, Owned, SingleOwner, j
<1>6. \A i, k \in DOMAIN queue' : queue'[i] = queue'[k] => i = k
  BY <1>1, QueueFacts DEF Owned, SingleOwner
<1>7. /\ \A k \in Jobs : HeldBy(w, k)' => k = j /\ worker'[w].pc = pc
      /\ \A v \in Workers, k \in Jobs : v # w => (HeldBy(v, k)' <=> HeldBy(v, k))
                                             /\ worker'[v].pc = worker[v].pc
  BY <1>4 DEF HeldBy, TInv, TypeOK
<1>8. \A k \in Jobs : Pushing(k)' <=> Pushing(k)
  BY <1>2 DEF Pushing
<1>9. attempts'[j] <= 1 /\ (pc = "foreign" => attempts'[j] = 0)
      /\ \A k \in Jobs : k # j => attempts'[k] = attempts[k]
  BY <1>1, <1>3, <1>4 DEF TInv, TypeOK
<1>10. StartedIsGone'
  BY <1>1, <1>3, <1>5, <1>7, <1>8, <1>9 DEF Owned, StartedIsGone
<1>11. StartedOnce'
  BY <1>9 DEF Owned, StartedOnce
<1>12. SingleOwner'
  BY <1>1, <1>2, <1>3, <1>5, <1>6, <1>7, <1>8 DEF Owned, SingleOwner
<1> QED BY <1>10, <1>11, <1>12 DEF Owned

\* An append puts one envelope in the list.
LEMMA InQueueAppend ==
    ASSUME queue \in Seq(Jobs), NEW j \in Jobs, NEW k, queue' = Append(queue, j)
    PROVE  InQueue(k)' <=> (InQueue(k) \/ k = j)
BY QueueFacts DEF InQueue

\* A requeue moves a foreign one back.
LEMMA OwnedRequeue ==
    ASSUME TInv, Owned, NEW w \in Workers, ForeignRequeue(w)
    PROVE  Owned'
<1> DEFINE j == worker[w].job
<1>1. queue \in Seq(Jobs) /\ j \in Jobs /\ HeldBy(w, j) /\ worker[w].pc = "foreign"
  BY DEF ForeignRequeue, TInv, TypeOK, WorkerCounts, HeldBy
<1>2. /\ queue' = Append(queue, j) /\ UNCHANGED <<attempts, calls>>
      /\ worker' = [worker EXCEPT ![w] = Idle]
      /\ PushingCalls' = PushingCalls
  BY DEF ForeignRequeue, Free, PushingCalls
<1> HIDE DEF j
<1>3. ~InQueue(j) /\ attempts[j] = 0 /\ ~Pushing(j) /\ \A v \in Workers : HeldBy(v, j) => v = w
  <2>1. attempts[j] \in Nat
    BY <1>1 DEF TInv, TypeOK
  <2> QED BY <1>1, <2>1 DEF Owned, SingleOwner, StartedIsGone
<1>4. \A k \in Jobs : InQueue(k)' <=> (InQueue(k) \/ k = j)
  BY <1>1, <1>2, InQueueAppend
<1>5. \A i, k \in DOMAIN queue' : queue'[i] = queue'[k] => i = k
  BY <1>1, <1>2, <1>3, QueueFacts DEF InQueue, Owned, SingleOwner
<1>6. \A v \in Workers, k \in Jobs :
        HeldBy(v, k)' => v # w /\ HeldBy(v, k) /\ worker'[v].pc = worker[v].pc
  BY <1>2 DEF HeldBy, Idle, TInv, TypeOK
<1>7. \A k \in Jobs : Pushing(k)' <=> Pushing(k)
  BY <1>2 DEF Pushing
<1>8. StartedIsGone' /\ StartedOnce'
  BY <1>2, <1>3, <1>4, <1>6, <1>7 DEF Owned, StartedIsGone, StartedOnce
<1>9. SingleOwner'
  BY <1>1, <1>2, <1>3, <1>4, <1>5, <1>6, <1>7 DEF Owned, SingleOwner
<1> QED BY <1>8, <1>9 DEF Owned

\* A busy worker moves on with its job, or becomes idle.
Moves(w) ==
    \/ worker' = [worker EXCEPT ![w] = Idle]
    \/ /\ worker[w].pc # "idle"
       /\ \E pc \in WorkerPc \ {"foreign"} :
            \/ worker' = [worker EXCEPT ![w].pc = pc]
            \/ worker' = [worker EXCEPT ![w].pc = pc, ![w].n = @ + 1]

LEMMA MovesKeepJob ==
    ASSUME worker \in [Workers -> WorkerSet], NEW w \in Workers, Moves(w)
    PROVE  \A v \in Workers, k \in Jobs : HeldBy(v, k)' =>
             HeldBy(v, k) /\ (worker'[v].pc = "foreign" => worker[v].pc = "foreign")
<1>1. CASE worker' = [worker EXCEPT ![w] = Idle]
  BY <1>1 DEF HeldBy, Idle
<1>2. ASSUME NEW pc \in WorkerPc \ {"foreign"}, worker[w].pc # "idle",
             \/ worker' = [worker EXCEPT ![w].pc = pc]
             \/ worker' = [worker EXCEPT ![w].pc = pc, ![w].n = @ + 1]
      PROVE  /\ \A v \in Workers : v # w => worker'[v] = worker[v]
             /\ worker'[w].pc = pc
             /\ worker'[w].job = worker[w].job
  <2>1. worker[w] \in WorkerSet
    OBVIOUS
  <2>2. CASE worker' = [worker EXCEPT ![w].pc = pc]
    BY <2>1, <2>2 DEF WorkerSet
  <2>3. CASE worker' = [worker EXCEPT ![w].pc = pc, ![w].n = @ + 1]
    BY <2>1, <2>3 DEF WorkerSet
  <2> QED BY <1>2, <2>2, <2>3
<1> QED BY <1>1, <1>2 DEF Moves, HeldBy

\* All other steps move no envelope.
LEMMA OtherStepsRest ==
    ASSUME TInv,
           \/ \E c \in calls : PushFails(c) \/ Sync(c) \/ GateFails(c) \/ GateRaises(c) \/ GateRow(c) \/ EndRow(c)
           \/ \E p \in posts : Deliver(p) \/ PostLost(p)
           \/ \E j \in Jobs, s \in Status, o \in Overrides, v \in Evidence : Publish(j, s, o, v)
           \/ \E j \in Jobs : Cancel(j) \/ Read(j)
           \/ \E r \in Runs, t \in RowTypes : OrphanRun(r, t)
           \/ \E w \in Workers : \/ Ack(w) \/ PostRunning(w) \/ PostVerdict(w)
                                \/ PostAborted(w) \/ PostTimeout(w) \/ JobAbort(w) \/ PipelineRaises(w) \/ WorkerCrash(w)
           \/ ApiRestart
           \/ UNCHANGED vars
    PROVE  EnvelopesRest
<1>1. ASSUME NEW c \in calls, PushFails(c) \/ Sync(c) \/ GateFails(c) \/ GateRaises(c) \/ GateRow(c) \/ EndRow(c)
      PROVE  EnvelopesRest
  <2>1. UNCHANGED <<queue, attempts, worker>>
    BY <1>1 DEF PushFails, Sync, GateFails, GateRaises, GateRow, EndRow
  <2>2. \A d \in calls' : d \in calls \/ d.at = "gate"
    <3>1. \A s : [c EXCEPT !.at = "gate", !.status = s].at = "gate"
      BY DEF TInv, TypeOK, CallSet
    <3>2. CASE GateFails(c)
      BY <3>1, <3>2 DEF GateFails
    <3>3. CASE ~GateFails(c)
      BY <1>1, <3>3 DEF PushFails, Sync, GateRaises, GateRow, EndRow
    <3> QED BY <3>2, <3>3
  <2>3. PushingCalls' \subseteq PushingCalls
    BY <2>2 DEF PushingCalls
  <2>4. \A w \in Workers, j \in Jobs : HeldBy(w, j)' => HeldBy(w, j) /\ worker'[w] = worker[w]
    BY <2>1 DEF HeldBy
  <2> QED BY <2>1, <2>3, <2>4 DEF EnvelopesRest
<1>2. ASSUME NEW p \in posts, Deliver(p) \/ PostLost(p)
      PROVE  EnvelopesRest
  BY <1>2 DEF Deliver, PostLost, EnvelopesRest, PushingCalls, HeldBy, Call
<1>3. ASSUME NEW j \in Jobs, NEW s, NEW o, NEW v, Publish(j, s, o, v) \/ Cancel(j) \/ Read(j)
      PROVE  EnvelopesRest
  BY <1>3 DEF Publish, Cancel, Read, EnvelopesRest, PushingCalls, HeldBy, Call
<1>4. ASSUME NEW w \in Workers,
             \/ Ack(w) \/ PostRunning(w) \/ PostVerdict(w)
             \/ PostAborted(w) \/ PostTimeout(w) \/ JobAbort(w) \/ PipelineRaises(w) \/ WorkerCrash(w)
      PROVE  EnvelopesRest
  <2>1. UNCHANGED <<queue, attempts, calls>>
    BY <1>4 DEF Ack, PostRunning, PostVerdict, LastStatus, PostAborted, PostTimeout, JobAbort, PipelineRaises,
                WorkerCrash, Post
  <2>2. Moves(w)
    BY <1>4 DEF Ack, PostRunning, PostVerdict, LastStatus, PostAborted, PostTimeout, JobAbort, PipelineRaises,
                WorkerCrash, Post, Resume, Free, Move, WorkerPc, Moves
  <2> QED BY <2>1, <2>2, MovesKeepJob DEF EnvelopesRest, PushingCalls, TInv, TypeOK
<1>5. CASE ApiRestart
  BY <1>5 DEF ApiRestart, EnvelopesRest, PushingCalls, HeldBy
<1>6. CASE UNCHANGED vars
  BY <1>6 DEF vars, EnvelopesRest, PushingCalls, HeldBy
<1>7. ASSUME NEW r, NEW t, OrphanRun(r, t)
      PROVE  EnvelopesRest
  BY <1>7 DEF OrphanRun, EnvelopesRest, PushingCalls, HeldBy
<1> QED BY <1>1, <1>2, <1>3, <1>4, <1>5, <1>6, <1>7

LEMMA OwnedStep ==
    ASSUME TInv, Untouched, Owned, [Next]_vars
    PROVE  Owned'
<1>1. ASSUME NEW j \in Jobs, NEW t, NEW e, Creates(j, t, e)
      PROVE  Owned'
  <2>1. PushingCalls' = PushingCalls \cup {Call("push", j, Ticket, e, "none")}
    BY <1>1 DEF Creates, PushingCalls, Call
  <2>2. jobType[j] = "none" /\ UNCHANGED <<queue, attempts, worker>>
    BY <1>1 DEF Creates, Mint
  <2>3. Call("push", j, Ticket, e, "none").job = j
    BY DEF Call
  <2> QED BY <2>1, <2>2, <2>3, OwnedMint
<1>2. ASSUME NEW j \in Jobs, NEW k \in Jobs, Retry(j, k)
      PROVE  Owned'
  <2>1. PICK t \in JobTypes \cup {"none"}, e \in EventSet : Retries(j, k, t, e)
    BY <1>2, RetryFacts DEF TInv
  <2>2. PushingCalls' = PushingCalls \cup {Call("push_retry", k, Ticket, e, "none")}
    BY <2>1 DEF Retries, PushingCalls, Call
  <2>3. jobType[k] = "none" /\ UNCHANGED <<queue, attempts, worker>>
    BY <2>1 DEF Retries, Mint
  <2>4. Call("push_retry", k, Ticket, e, "none").job = k
    BY DEF Call
  <2> QED BY <2>2, <2>3, <2>4, OwnedMint
<1>3. CASE UNCHANGED vars
  BY <1>3, OtherStepsRest, OwnedRest
<1>4. CASE Next
  BY <1>1, <1>2, <1>4, StepCases, OtherStepsRest, OwnedRest, OwnedPush,
     OwnedClaim, OwnedRequeue
<1> QED BY <1>3, <1>4

\* A step that mints no job and names only the job j, which is minted.
NamesOnly(j) ==
    /\ \A k \in Jobs : k # j =>
          /\ store'[k] \in {store[k], NoEvent} /\ db'[k] = db[k]
          /\ attempts'[k] = attempts[k]
          /\ InQueue(k)' => InQueue(k)
          /\ \A w \in Workers : HeldBy(w, k)' => HeldBy(w, k)
    /\ \A p \in posts' : p \in posts \/ p.job = j
    /\ \A c \in calls' : c \in calls \/ c.job = j

LEMMA UntouchedNames ==
    ASSUME Untouched, UNCHANGED jobType, NEW j \in Jobs, jobType[j] # "none", NamesOnly(j)
    PROVE  Untouched'
<1>1. SUFFICES ASSUME NEW k \in Jobs, jobType[k] = "none", k # j
               PROVE  /\ store'[k] = NoEvent /\ db'[k] = NoEvent /\ attempts'[k] = 0
                      /\ ~InQueue(k)'
                      /\ \A w \in Workers : ~HeldBy(w, k)'
                      /\ \A p \in posts' : p.job # k
                      /\ \A c \in calls' : c.job # k
  BY DEF Untouched
<1> QED BY <1>1 DEF Untouched, NamesOnly

LEMMA UntouchedStep ==
    ASSUME TInv, Untouched, [Next]_vars
    PROVE  Untouched'
<1> USE DEF TInv, TypeOK
<1>1. ASSUME NEW j \in Jobs, NEW t \in JobTypes, NEW e, Creates(j, t, e)
      PROVE  Untouched'
  <2>1. \A k \in Jobs : jobType'[k] = "none" =>
          k # j /\ jobType[k] = "none" /\ store'[k] = store[k] /\ db'[k] = db[k]
    BY <1>1 DEF Creates, Mint, Record, JobTypes
  <2>2. UNCHANGED <<queue, attempts, worker, posts>>
    BY <1>1 DEF Creates
  <2>3. \A c \in calls' : c \in calls \/ c.job = j
    BY <1>1 DEF Creates, Call
  <2> QED BY <2>1, <2>2, <2>3 DEF Untouched, InQueue, HeldBy
<1>2. ASSUME NEW j \in Jobs, NEW k \in Jobs, Retry(j, k)
      PROVE  Untouched'
  <2>0. PICK t \in JobTypes \cup {"none"}, e \in EventSet : Retries(j, k, t, e)
    BY <1>2, RetryFacts
  <2>1. jobType[j] # "none" /\ jobType[k] = "none" /\ t # "none"
    <3>1. Existing(j) # NoEvent
      BY <2>0 DEF Retries, RetryableStates, NoEvent, Event
    <3>2. jobType[j] # "none"
      BY <3>1 DEF Untouched, Existing
    <3> QED BY <2>0, <3>2 DEF Retries, Mint, Provenance
  <2>2. \A i \in Jobs : jobType'[i] = "none" =>
          i # j /\ i # k /\ jobType[i] = "none" /\ store'[i] = store[i] /\ db'[i] = db[i]
    BY <2>0, <2>1 DEF Retries, Mint, Cached
  <2>3. UNCHANGED <<queue, attempts, worker, posts>>
    BY <2>0 DEF Retries
  <2>4. \A c \in calls' : c \in calls \/ c.job = k
    BY <2>0 DEF Retries, Call
  <2> QED BY <2>2, <2>3, <2>4 DEF Untouched, InQueue, HeldBy
<1>3. ASSUME NEW r, NEW t, OrphanRun(r, t)
      PROVE  Untouched'
  BY <1>3 DEF OrphanRun, Untouched, minted, memory, InQueue, HeldBy
<1>4. ASSUME NEW c \in calls,
             \/ Push(c) \/ PushFails(c) \/ Sync(c)
             \/ GateFails(c) \/ GateRaises(c) \/ GateRow(c) \/ EndRow(c)
      PROVE  Untouched'
  <2>1. c.job \in Jobs /\ jobType[c.job] # "none"
    BY DEF CallSet, Untouched
  <2>2. /\ UNCHANGED <<jobType, attempts, worker, posts>>
        /\ UNCHANGED <<store, db>> \/ \E e : Record(c.job, e)
        /\ queue' \in {queue, Append(queue, c.job)}
    BY <1>4 DEF Push, PushFails, Sync, GateFails, GateRaises, GateRow, EndRow, minted,
                memory, rows
  <2>3. \A k \in Jobs : k # c.job => store'[k] = store[k] /\ db'[k] = db[k]
    BY <2>1, <2>2 DEF Record
  <2>4. \A k \in Jobs : k # c.job => (InQueue(k)' => InQueue(k))
    <3>1. CASE queue' = queue
      BY <3>1 DEF InQueue
    <3>2. CASE queue' = Append(queue, c.job)
      BY <2>1, <3>2, InQueueAppend
    <3> QED BY <2>2, <3>1, <3>2
  <2>5. \A d \in calls' : d \in calls \/ d.job = c.job
    <3>1. calls' \in {calls, calls \ {c}}
            \/ \E d \in {[c EXCEPT !.at = "retry_row"],
                         [c EXCEPT !.at = "gate", !.status = "failed"]} :
                 calls' = (calls \ {c}) \cup {d}
      BY <1>4 DEF Push, PushFails, Sync, GateFails, GateRaises, GateRow, EndRow
    <3>2. c \in CallSet
      OBVIOUS
    <3>3. /\ [c EXCEPT !.at = "retry_row"].job = c.job
          /\ [c EXCEPT !.at = "gate", !.status = "failed"].job = c.job
      BY <3>2 DEF CallSet
    <3> QED BY <3>1, <3>3
  <2>6. NamesOnly(c.job)
    BY <2>2, <2>3, <2>4, <2>5 DEF NamesOnly, HeldBy
  <2> QED BY <2>1, <2>2, <2>6, UntouchedNames
<1>5. ASSUME NEW p \in posts, Deliver(p) \/ PostLost(p)
      PROVE  Untouched'
  <2>1. p.job \in Jobs /\ jobType[p.job] # "none"
    BY DEF PostSet, Untouched
  <2>2. /\ UNCHANGED <<jobType, attempts, worker, queue>> /\ posts' \subseteq posts
        /\ UNCHANGED <<store, db>> \/ \E e : Record(p.job, e)
        /\ \A d \in calls' : d \in calls \/ d.job = p.job
    BY <1>5 DEF Deliver, PostLost, minted, memory, rows, Call
  <2>3. \A k \in Jobs : k # p.job => store'[k] = store[k] /\ db'[k] = db[k]
    BY <2>1, <2>2 DEF Record
  <2>4. NamesOnly(p.job)
    BY <2>2, <2>3 DEF NamesOnly, HeldBy, InQueue
  <2> QED BY <2>1, <2>2, <2>4, UntouchedNames
<1>6. ASSUME NEW j \in Jobs, NEW s, NEW o, NEW v, Publish(j, s, o, v) \/ Cancel(j) \/ Read(j)
      PROVE  Untouched'
  <2>1. jobType[j] # "none"
    <3>1. Existing(j) # NoEvent \/ db[j] # NoEvent
      BY <1>6 DEF Publish, Cancel, Read, CancelableStates, NoEvent, Event
    <3> QED BY <3>1 DEF Existing, Untouched
  <2>2. /\ UNCHANGED <<jobType, attempts, worker, queue, posts>>
        /\ \A d \in calls' : d \in calls \/ d.job = j
        /\ \A k \in Jobs : k # j => store'[k] = store[k] /\ db'[k] = db[k]
    BY <1>6 DEF Publish, Cancel, Read, Record, Cached, minted, rows, Call
  <2>3. NamesOnly(j)
    BY <2>2 DEF NamesOnly, HeldBy, InQueue
  <2> QED BY <2>1, <2>2, <2>3, UntouchedNames
<1>7. ASSUME NEW w \in Workers, Claim(w)
      PROVE  Untouched'
  <2> DEFINE j == Head(queue)
  <2>1. queue # << >> /\ j \in Jobs /\ queue' = Tail(queue)
    BY <1>7 DEF Claim
  <2>2. jobType[j] # "none"
    BY <2>1, QueueFacts DEF InQueue, Untouched
  <2>3. /\ UNCHANGED <<jobType, store, db, posts, calls>>
        /\ \A k \in Jobs : k # j => attempts'[k] = attempts[k]
        /\ \A v \in Workers : worker'[v] = worker[v] \/ worker'[v].job = j
    BY <1>7 DEF Claim, minted, memory, rows
  <2>4. \A k \in Jobs : InQueue(k)' => InQueue(k)
    BY <2>1, QueueFacts DEF InQueue
  <2> HIDE DEF j
  <2>5. NamesOnly(j)
    BY <2>3, <2>4 DEF NamesOnly, HeldBy
  <2> QED BY <2>1, <2>2, <2>3, <2>5, UntouchedNames
<1>8. ASSUME NEW w \in Workers,
             \/ ForeignRequeue(w) \/ Ack(w) \/ PostRunning(w) \/ PostVerdict(w)
             \/ PostAborted(w) \/ PostTimeout(w) \/ JobAbort(w) \/ PipelineRaises(w) \/ WorkerCrash(w)
      PROVE  Untouched'
  <2> DEFINE j == worker[w].job
  <2>1. worker[w].pc # "idle"
    BY <1>8 DEF ForeignRequeue, Ack, PostRunning, PostVerdict, LastStatus, PostAborted,
                PostTimeout, JobAbort, PipelineRaises, WorkerCrash
  <2>2. j \in Jobs /\ jobType[j] # "none"
    BY <2>1 DEF WorkerCounts, Untouched, HeldBy
  <2>3. /\ UNCHANGED <<jobType, store, db, calls, attempts>>
        /\ queue' \in {queue, Append(queue, j)}
        /\ \A p \in posts' : p \in posts \/ p.job = j
    BY <1>8 DEF ForeignRequeue, Ack, PostRunning, PostVerdict, LastStatus, PostAborted,
                PostTimeout, JobAbort, PipelineRaises, WorkerCrash, Post, minted, memory, rows
  <2>4. Moves(w)
    BY <1>8 DEF ForeignRequeue, Ack, PostRunning, PostVerdict, LastStatus, PostAborted,
                PostTimeout, JobAbort, PipelineRaises, WorkerCrash, Post, Resume, Free, Move, WorkerPc, Moves
  <2>5. \A v \in Workers, k \in Jobs : HeldBy(v, k)' => HeldBy(v, k)
    BY <2>4, MovesKeepJob
  <2> HIDE DEF j
  <2>6. \A k \in Jobs : k # j => (InQueue(k)' => InQueue(k))
    <3>1. CASE queue' = queue
      BY <3>1 DEF InQueue
    <3>2. CASE queue' = Append(queue, j)
      BY <2>2, <3>2, InQueueAppend
    <3> QED BY <2>3, <3>1, <3>2
  <2>7. NamesOnly(j)
    BY <2>3, <2>5, <2>6 DEF NamesOnly
  <2> QED BY <2>2, <2>3, <2>7, UntouchedNames
<1>9. CASE ApiRestart
  BY <1>9 DEF ApiRestart, Untouched, minted, rows, InQueue, HeldBy
<1>10. CASE UNCHANGED vars
  BY <1>10 DEF vars, Untouched, InQueue, HeldBy
<1> QED BY <1>1, <1>2, <1>3, <1>4, <1>5, <1>6, <1>7, <1>8, <1>9, <1>10, StepCases

LEMMA OwnerAlways == Spec => [](TInv /\ OwnerInv)
<1>1. Init => OwnerInv
  <2> SUFFICES ASSUME Init PROVE OwnerInv
    OBVIOUS
  <2>1. /\ \A j \in Jobs : ~InQueue(j) /\ ~Pushing(j)
        /\ \A w \in Workers, j \in Jobs : ~HeldBy(w, j)
        /\ PushingCalls = {} /\ DOMAIN queue = {}
    BY DEF Init, InQueue, Pushing, PushingCalls, HeldBy, Idle
  <2> QED BY <2>1 DEF Init, OwnerInv, Untouched, StartedIsGone, SingleOwner, StartedOnce
<1>2. TInv /\ OwnerInv /\ [Next]_vars => OwnerInv'
  BY OwnedStep, UntouchedStep DEF OwnerInv, Owned
<1> QED BY <1>1, <1>2, TInvAlways, PTL DEF Spec

\* At every moment the envelope of a job is in one place at most, for any number
\* of jobs and workers and whatever requests and faults interleave.
THEOREM OneOwner == Spec => []SingleOwner
<1>1. TInv /\ OwnerInv => SingleOwner
  BY DEF OwnerInv
<1> QED BY OwnerAlways, <1>1, PTL

\* No job is started twice: the attempt counter of a job never exceeds one.
THEOREM AtMostOneStart == Spec => []StartedOnce
<1>1. TInv /\ OwnerInv => StartedOnce
  BY DEF OwnerInv
<1> QED BY OwnerAlways, <1>1, PTL

-----------------------------------------------------------------------------
(* The success gate. *)

\* A row update that is no success, on any run, keeps what the rows promise.
LEMMA GatedUpdate ==
    ASSUME TypeOK, RowSuccessGated, NEW c, NEW s, s # "success", UpdateRow(c, s),
           UNCHANGED <<rowType, passed>>
    PROVE  RowSuccessGated'
<1>1. \A r \in Runs : row'[r] = "success" => row[r] = "success"
  BY DEF UpdateRow, HasRow, TypeOK
<1> QED BY <1>1 DEF RowSuccessGated

\* A new row starts queued.
LEMMA GatedRow ==
    ASSUME TypeOK, RowSuccessGated, UNCHANGED passed, NEW q \in Runs, NEW u, AddRow(q, u)
    PROVE  RowSuccessGated'
<1>1. \A r \in Runs : row'[r] = "success" => row[r] = "success" /\ rowType'[r] = rowType[r]
  BY DEF AddRow, TypeOK
<1> QED BY <1>1 DEF RowSuccessGated

LEMMA GatedStep ==
    ASSUME TInv, RowSuccessGated, [Next]_vars
    PROVE  RowSuccessGated'
<1>0. ASSUME UNCHANGED <<rowType, row, passed>> PROVE RowSuccessGated'
  BY <1>0 DEF RowSuccessGated
<1>1. ASSUME NEW j \in Jobs, NEW t, NEW e, Creates(j, t, e)
      PROVE  RowSuccessGated'
  BY <1>0, <1>1, GatedRow DEF Creates, gated, TInv
<1>2. ASSUME NEW j \in Jobs, NEW k \in Jobs, Retry(j, k)
      PROVE  RowSuccessGated'
  BY <1>0, <1>2 DEF Retry, rows
<1>11. ASSUME NEW r \in Runs, NEW t, OrphanRun(r, t)
      PROVE  RowSuccessGated'
  BY <1>11, GatedRow DEF OrphanRun, gated, TInv
<1>3. ASSUME NEW c \in calls, GateRow(c) \/ EndRow(c)
      PROVE  RowSuccessGated'
  <2>1. UNCHANGED <<rowType, passed>>
    BY <1>3 DEF GateRow, EndRow, gated
  <2>2. \E s \in {"failed", "cancelled", "queued"} : UpdateRow(c, s)
    BY <1>3 DEF GateRow, EndRow, TInv, CallShapes
  <2> QED BY <2>1, <2>2, GatedUpdate DEF TInv
\* The step the gate is there for: it looks at the run and the run type of the event,
\* and so does the row.
<1>4. ASSUME NEW c \in calls, Sync(c)
      PROVE  RowSuccessGated'
  <2>1. c.job \in Jobs /\ UNCHANGED rowType /\ UpdateRow(c, c.status)
    BY <1>4 DEF Sync, TInv, TypeOK, CallSet
  <2>2. passed \subseteq passed'
    BY <1>4 DEF Sync
  <2>3. \A r \in Runs : row'[r] = "success" =>
           row[r] = "success" \/ (HasRow(c) /\ r = c.run /\ c.status = "success")
    BY <2>1 DEF UpdateRow, HasRow, TInv, TypeOK
  <2>4. HasRow(c) /\ c.status = "success" /\ rowType[c.run] \in GatedTypes
          => <<c.job, c.run>> \in passed'
    BY <1>4 DEF Sync, NeedsGate, HasRow
  <2> QED BY <2>1, <2>2, <2>3, <2>4 DEF RowSuccessGated
<1>5. ASSUME NEW c \in calls, Push(c) \/ PushFails(c) \/ GateFails(c) \/ GateRaises(c)
      PROVE  RowSuccessGated'
  BY <1>0, <1>5 DEF Push, PushFails, GateFails, GateRaises, rows
<1>6. ASSUME NEW p \in posts, Deliver(p) \/ PostLost(p)
      PROVE  RowSuccessGated'
  BY <1>0, <1>6 DEF Deliver, PostLost, rows
<1>7. ASSUME NEW j \in Jobs, NEW s, NEW o, NEW v, Publish(j, s, o, v) \/ Cancel(j) \/ Read(j)
      PROVE  RowSuccessGated'
  BY <1>0, <1>7 DEF Publish, Cancel, Read, rows
<1>8. ASSUME NEW w \in Workers,
             \/ Claim(w) \/ ForeignRequeue(w) \/ Ack(w) \/ PostRunning(w)
             \/ PostVerdict(w) \/ PostAborted(w) \/ PostTimeout(w) \/ JobAbort(w)
             \/ PipelineRaises(w) \/ WorkerCrash(w)
      PROVE  RowSuccessGated'
  BY <1>0, <1>8
     DEF Claim, ForeignRequeue, Ack, PostRunning, PostVerdict, LastStatus, PostAborted,
         PostTimeout, JobAbort, PipelineRaises, WorkerCrash, Post, rows
<1>9. CASE ApiRestart
  BY <1>0, <1>9 DEF ApiRestart, rows
<1>10. CASE UNCHANGED vars
  BY <1>0, <1>10 DEF vars
<1> QED BY <1>1, <1>2, <1>3, <1>4, <1>5, <1>6, <1>7, <1>8, <1>9, <1>10, <1>11, StepCases

\* No training or backtest run is marked a success unless a success of some job, an event
\* that named this very run, passed the success gate for it: whatever run and run type
\* other clients' events name, and for any number of jobs, runs, workers and faults.
THEOREM SuccessIsGated == Spec => []RowSuccessGated
<1>1. Init => RowSuccessGated
  BY DEF Init, RowSuccessGated
<1>2. TInv /\ RowSuccessGated /\ [Next]_vars => RowSuccessGated'
  BY GatedStep
<1> QED BY <1>1, <1>2, TInvAlways, PTL DEF Spec

\* The inductive invariant holds: the four results above, in one formula.
THEOREM InductiveInvariant == Spec => []IInv
BY OwnerAlways, MemoryAgreesWithLog, SuccessIsGated, PTL DEF IInv

-----------------------------------------------------------------------------
(* When nothing fails and no other client publishes. *)

Ending == {"success", "failed"}
Handling(c) == c.at \in {"sync", "gate"}

\* Where only workers publish, and each posts the names of its envelope, a job's events
\* and calls name the run of its envelope and its table, and bring no evidence.
NamesOwn ==
    /\ \A j \in Jobs : db[j].run = jobRun[j] /\ db[j].type = runType[j]
    /\ \A c \in calls : c.run = jobRun[c.job] /\ c.type = runType[c.job] /\ c.evidence = "none"

\* A post, or the handler of one, is about the job of the worker that waits for its answer.
Waits(w, j, n, s) ==
    /\ worker[w].job = j /\ worker[w].n = n
    /\ \/ worker[w].pc = "wait" /\ s = "running"
       \/ worker[w].pc \in {"final", "last"} /\ s \in Ending

\* What has a job's end in the log has a job some worker started.
StartedFirst ==
    /\ \A j \in Jobs : jobType[j] # "none" => db[j].status # "none"
    /\ \A j \in Jobs : db[j].status \in Ending => attempts[j] > 0
    /\ \A w \in Workers, j \in Jobs : HeldBy(w, j) /\ worker[w].pc # "foreign" => attempts[j] > 0

\* A worker has one post or one handler of it under way, and the log holds its status
\* unless a cancel came in between.
OneUnderWay ==
    /\ \A p \in posts :
         /\ \E w \in Workers : Waits(w, p.job, p.n, p.status)
         /\ \A q \in posts : q.job = p.job => q = p
    /\ \A c \in calls : Handling(c) =>
         /\ \E w \in Workers : Waits(w, c.job, c.n, c.status)
         /\ db[c.job].status \in {c.status, "cancelled"}
         /\ \A p \in posts : p.job # c.job
         /\ \A d \in calls : Handling(d) /\ d.job = c.job => d = c

\* A job ends in the log with the last post of its worker, and no worker lets go before.
EndsLast ==
    \A w \in Workers : worker[w].pc # "idle" =>
        /\ db[worker[w].job].status \in Ending => worker[w].pc \in {"final", "last"}
        /\ worker[w].pc \in {"final", "last"} =>
             \/ \E p \in posts : p.job = worker[w].job
             \/ db[worker[w].job].status \in TerminalStates

\* The calls that write a row late: what they write, and that a retry has a forerunner.
LateWrites ==
    \A c \in calls :
        /\ c.at = "cancel" => c.status = "cancelled"
        /\ c.at = "gate" => c.status = "failed"
        /\ c.at \in {"push_retry", "retry_row"} =>
             /\ c.status = "queued"
             /\ \E j \in Jobs : /\ j # c.job /\ jobType[j] # "none"
                                /\ jobRun[j] = jobRun[c.job] /\ runType[j] = runType[c.job]

\* A row holds the status of a job of its run, or will when a handler is done; one that
\* no job names is as it was created.
RowFollows ==
    \A r \in Runs : rowType[r] \in MirroredTypes =>
        \/ row[r] \in {db[j].status : j \in Mine(r)}
        \/ "cancelled" \in {row[r]} \cup {db[j].status : j \in Mine(r)}
        \/ row[r] = "queued" /\ \E j, k \in Mine(r) : j # k
        \/ \E c \in calls : Handling(c) /\ c.job \in Mine(r)
        \/ Mine(r) = {} /\ row[r] = "queued"

IsCarried(j) == Pushing(j) \/ InQueue(j) \/ \E w \in Workers : HeldBy(w, j)

\* The inductive invariant while nothing fails.
CalmInv ==
    /\ NamesOwn
    /\ StartedFirst
    /\ OneUnderWay
    /\ EndsLast
    /\ LateWrites
    /\ RowFollows
    /\ \A j \in Jobs : jobType[j] # "none" /\ db[j].status \notin TerminalStates => IsCarried(j)

SafeInv == TInv /\ OwnerInv /\ StoreCoherent

\* Who waits holds the job, and no two workers hold one.
LEMMA WaiterHolds ==
    ASSUME SafeInv, NEW w \in Workers, NEW j \in Jobs, NEW n, NEW s, Waits(w, j, n, s)
    PROVE  /\ HeldBy(w, j) /\ worker[w].pc \in {"wait", "final", "last"}
           /\ ~Pushing(j) /\ ~InQueue(j) /\ jobType[j] # "none"
           /\ \A v \in Workers : HeldBy(v, j) => v = w
  <1>1. HeldBy(w, j) /\ worker[w].pc \in {"wait", "final", "last"}
    BY DEF Waits, HeldBy
  <1>2. /\ ~Pushing(j) /\ ~InQueue(j)
        /\ \A v \in Workers : HeldBy(v, j) => v = w
    BY <1>1 DEF SafeInv, OwnerInv, SingleOwner
  <1>3. jobType[j] # "none"
    BY <1>1 DEF SafeInv, OwnerInv, Untouched
  <1> QED BY <1>1, <1>2, <1>3

\* The job of a busy worker.
LEMMA BusyJob ==
    ASSUME SafeInv, NEW w \in Workers, worker[w].pc # "idle"
    PROVE  /\ worker[w].job \in Jobs /\ HeldBy(w, worker[w].job)
           /\ jobType[worker[w].job] # "none"
           /\ ~Pushing(worker[w].job) /\ ~InQueue(worker[w].job)
           /\ \A v \in Workers : HeldBy(v, worker[w].job) => v = w
  <1>1. worker[w].job \in Jobs /\ HeldBy(w, worker[w].job)
    BY DEF SafeInv, TInv, WorkerCounts, HeldBy
  <1> QED BY <1>1 DEF SafeInv, OwnerInv, Untouched, SingleOwner

\* The job of a call exists; a call that has yet to push owns its job.
LEMMA CallFacts ==
    ASSUME SafeInv, NEW c \in calls
    PROVE  /\ c \in CallSet /\ c.job \in Jobs /\ c.status \in Status
           /\ jobType[c.job] # "none"
           /\ c.at \in {"push", "push_retry"} => Pushing(c.job)
  <1>1. c \in CallSet /\ c.job \in Jobs /\ c.status \in Status
    BY DEF SafeInv, TInv, TypeOK, CallSet
  <1> QED BY <1>1 DEF SafeInv, OwnerInv, Untouched, Pushing, PushingCalls

\* What a handler looks at is the latest event of the log.
LEMMA ExistingIsLog ==
    ASSUME SafeInv, NEW j \in Jobs
    PROVE  Existing(j) = db[j]
  BY DEF SafeInv, StoreCoherent, Existing

\* A call that names its job's run and table writes the row of that run and no other.
LEMMA RowWritten ==
    ASSUME SafeInv, NamesOwn, NEW c \in calls, NEW s, UpdateRow(c, s)
    PROVE  \A r \in Runs : /\ c.job \notin Mine(r) => row'[r] = row[r]
                           /\ c.job \in Mine(r) => row'[r] = s
  <1>1. c.job \in Jobs /\ c.run = jobRun[c.job] /\ c.type = runType[c.job]
    BY CallFacts DEF NamesOwn
  <1> QED BY <1>1 DEF UpdateRow, Mine, HasRow, SafeInv, TInv, TypeOK

\* The types of a post's fields.
LEMMA PostFacts ==
    ASSUME SafeInv, NEW p \in posts
    PROVE  p.job \in Jobs /\ p.status \in Status
  BY DEF SafeInv, TInv, TypeOK, PostSet

\* What the requests that create a job do: a handler d takes the new job k on.
Minted(k, e, d) ==
    /\ e.status = "queued"
    /\ jobType[k] = "none" /\ jobType'[k] # "none"
    /\ jobRun'[k] = e.run /\ runType'[k] = e.type
    /\ \A j \in Jobs : j # k => /\ jobType'[j] = jobType[j] /\ jobRun'[j] = jobRun[j]
                               /\ runType'[j] = runType[j]
    /\ db'[k] = e /\ \A j \in Jobs : j # k => db'[j] = db[j]
    /\ d.at \in {"push", "push_retry"} /\ d.job = k /\ d.status = "queued"
    /\ d.run = e.run /\ d.type = e.type /\ d.evidence = "none"
    /\ d.at = "push_retry" => \E j \in Jobs : /\ j # k /\ jobType[j] # "none"
                                           /\ e.run = jobRun[j] /\ e.type = runType[j]
    /\ calls' = calls \cup {d}
    /\ UNCHANGED <<queue, attempts, worker, posts>>
    /\ \/ UNCHANGED <<rowType, row>>
       \/ /\ e.run \in Runs
          /\ rowType' = [rowType EXCEPT ![e.run] = e.type]
          /\ row' = [row EXCEPT ![e.run] = "queued"]

\* A new job: its event is queued and a handler carries its envelope.
LEMMA CalmMint ==
    ASSUME SafeInv, CalmInv, NEW k \in Jobs, NEW e, NEW d, Minted(k, e, d)
    PROVE  CalmInv'
  <1> USE DEF Minted
  <1>1. /\ \A w \in Workers : ~HeldBy(w, k)
        /\ attempts[k] = 0
        /\ \A p \in posts : p.job # k
        /\ \A c \in calls : c.job # k /\ c.job \in Jobs
    BY CallFacts DEF SafeInv, OwnerInv, Untouched
  <1>2. db'[k].status = "queued" /\ \A j \in Jobs : j # k => db'[j] = db[j]
    OBVIOUS
  <1>3. StartedFirst'
    BY <1>1, <1>2 DEF CalmInv, StartedFirst, HeldBy, Ending
  <1>4. OneUnderWay'
    <2>1. \A c \in calls' : Handling(c) => c \in calls /\ c.job \in Jobs /\ db'[c.job] = db[c.job]
      BY <1>1, <1>2, CallFacts DEF Handling
    <2> QED BY <2>1 DEF CalmInv, OneUnderWay, Waits, Handling
  <1>5. EndsLast'
    BY <1>1, <1>2, BusyJob DEF CalmInv, EndsLast
  <1>6. LateWrites'
    <2>1. ASSUME NEW c \in calls, c.at \in {"push_retry", "retry_row"}
          PROVE  \E j \in Jobs : /\ j # c.job /\ jobType'[j] # "none"
                                 /\ jobRun'[j] = jobRun'[c.job] /\ runType'[j] = runType'[c.job]
      <3>1. PICK j \in Jobs : /\ j # c.job /\ jobType[j] # "none"
                              /\ jobRun[j] = jobRun[c.job] /\ runType[j] = runType[c.job]
        BY <2>1 DEF CalmInv, LateWrites
      <3>2. j # k /\ c.job # k /\ c.job \in Jobs
        BY <1>1, <3>1
      <3> QED BY <3>1, <3>2
    <2> QED BY <2>1 DEF CalmInv, LateWrites
  <1>7. ASSUME NEW r \in Runs, rowType'[r] \in MirroredTypes
        PROVE  \/ row'[r] \in {db'[j].status : j \in Mine(r)'}
               \/ "cancelled" \in {row'[r]} \cup {db'[j].status : j \in Mine(r)'}
               \/ row'[r] = "queued" /\ \E i, j \in Mine(r)' : i # j
               \/ \E c \in calls' : Handling(c) /\ c.job \in Mine(r)'
               \/ Mine(r)' = {} /\ row'[r] = "queued"
    <2>1. CASE rowType'[r] = rowType[r] /\ row'[r] = row[r]
      <3>1. ASSUME NEW j \in Mine(r), j # k PROVE j \in Mine(r)' /\ db'[j] = db[j]
        BY <1>2, <2>1, <3>1 DEF Mine, HasRow
      <3>2. ASSUME NEW j \in Mine(r)', j # k PROVE j \in Mine(r)
        BY <2>1, <3>2 DEF Mine, HasRow
      <3>3. \A c \in calls : c \in calls' /\ c.job # k
        BY <1>1
      <3>4. k \notin Mine(r)
        <4>1. jobRun[k] = NoRun
          BY DEF CalmInv, NamesOwn, SafeInv, OwnerInv, Untouched, NoEvent, Event
        <4> QED BY <4>1, ConstantsAssumption DEF Mine, ConstantsAssumption
      <3>5. \/ row[r] \in {db[j].status : j \in Mine(r)}
            \/ "cancelled" \in {row[r]} \cup {db[j].status : j \in Mine(r)}
            \/ row[r] = "queued" /\ \E i, j \in Mine(r) : i # j
            \/ \E c \in calls : Handling(c) /\ c.job \in Mine(r)
            \/ Mine(r) = {} /\ row[r] = "queued"
        BY <1>7, <2>1 DEF CalmInv, RowFollows
      <3>6. CASE Mine(r) = {} /\ row[r] = "queued"
        BY <1>2, <2>1, <3>2, <3>6
      <3>7. CASE ~(Mine(r) = {} /\ row[r] = "queued")
        BY <2>1, <3>1, <3>3, <3>4, <3>5, <3>7
      <3> QED BY <3>6, <3>7
    <2>2. CASE ~(rowType'[r] = rowType[r] /\ row'[r] = row[r])
      <3>1. r = e.run /\ rowType'[r] = runType'[k] /\ row'[r] = "queued"
        BY <2>2 DEF SafeInv, TInv, TypeOK
      <3>2. k \in Mine(r)'
        BY <1>7, <3>1 DEF Mine, HasRow
      <3> QED BY <1>2, <3>1, <3>2
    <2> QED BY <2>1, <2>2
  <1>8. RowFollows'
    BY <1>7 DEF RowFollows
  <1>9. ASSUME NEW j \in Jobs, jobType'[j] # "none", db'[j].status \notin TerminalStates
        PROVE  IsCarried(j)'
    <2>1. CASE j = k
      BY <2>1 DEF IsCarried, Pushing, PushingCalls
    <2>2. CASE j # k
      <3>1. IsCarried(j)
        BY <1>2, <1>9, <2>2 DEF CalmInv
      <3> QED BY <3>1 DEF IsCarried, Pushing, PushingCalls, InQueue, HeldBy
    <2> QED BY <2>1, <2>2
  <1>10. NamesOwn'
    BY <1>1 DEF CalmInv, NamesOwn
  <1> QED BY <1>3, <1>4, <1>5, <1>6, <1>8, <1>9, <1>10 DEF CalmInv

\* The requests that create a job.
LEMMA CalmCreate ==
    ASSUME SafeInv, CalmInv, NEW j \in Jobs, NEW t \in JobTypes, NEW e \in EventSet,
           Creates(j, t, e)
    PROVE  CalmInv'
  <1>1. /\ Mint(j, t, e.run, e.type) /\ Record(j, e) /\ UNCHANGED <<queue, attempts, worker, posts>>
        /\ e.status = "queued"
    BY DEF Creates
  <1>2. \/ UNCHANGED <<rowType, row>>
        \/ /\ e.run \in Runs
           /\ rowType' = [rowType EXCEPT ![e.run] = e.type]
           /\ row' = [row EXCEPT ![e.run] = "queued"]
    BY DEF Creates, AddRow
  <1>3. /\ jobType[j] = "none" /\ jobType'[j] = t /\ jobRun'[j] = e.run /\ runType'[j] = e.type
        /\ t # "none"
        /\ \A k \in Jobs : k # j => /\ jobType'[k] = jobType[k] /\ jobRun'[k] = jobRun[k]
                                   /\ runType'[k] = runType[k]
    BY <1>1 DEF Mint, SafeInv, TInv, TypeOK, JobTypes
  <1>4. PICK d : d = Call("push", j, Ticket, e, "none")
    OBVIOUS
  <1>5. /\ d.at = "push" /\ d.job = j /\ d.status = "queued" /\ calls' = calls \cup {d}
        /\ d.run = e.run /\ d.type = e.type /\ d.evidence = "none"
    BY <1>1, <1>4 DEF Call, Creates
  <1>6. db'[j] = e /\ \A k \in Jobs : k # j => db'[k] = db[k]
    BY <1>1 DEF Record, SafeInv, TInv, TypeOK
  <1>7. Minted(j, e, d)
    BY <1>1, <1>2, <1>3, <1>5, <1>6 DEF Minted
  <1> QED BY <1>7, CalmMint

\* A retry mints a job of the same run and run type as the one it repeats.
LEMMA CalmRetry ==
    ASSUME SafeInv, CalmInv, NEW j \in Jobs, NEW k \in Jobs, Retry(j, k)
    PROVE  CalmInv'
  <1>1. PICK t \in JobTypes \cup {"none"}, e \in EventSet : Retries(j, k, t, e)
    BY RetryFacts DEF SafeInv, TInv
  <1>2. jobType[j] # "none" /\ Existing(j) = db[j]
    <2>1. db[j].status # "none"
      BY <1>1, ExistingIsLog DEF Retries, RetryableStates
    <2> QED BY <2>1, ExistingIsLog DEF SafeInv, OwnerInv, Untouched, NoEvent, Event
  <1>3. t # "none" /\ e.run = jobRun[j] /\ e.type = runType[j]
    <2>1. <<t, e.run, e.type>> \in Provenance(j)
      BY <1>1 DEF Retries
    <2>2. CASE j \in envelopes
      BY <1>2, <2>1, <2>2 DEF Provenance
    <2>3. CASE j \notin envelopes
      BY <1>2, <2>1, <2>3 DEF Provenance, CalmInv, NamesOwn
    <2> QED BY <2>2, <2>3
  <1>4. /\ jobType[k] = "none" /\ jobType'[k] = t /\ jobRun'[k] = e.run /\ runType'[k] = e.type
        /\ j # k
        /\ \A i \in Jobs : i # k => /\ jobType'[i] = jobType[i] /\ jobRun'[i] = jobRun[i]
                                   /\ runType'[i] = runType[i]
    BY <1>1, <1>2 DEF Retries, Mint, SafeInv, TInv, TypeOK
  <1>5. PICK d : d = Call("push_retry", k, Ticket, e, "none")
    OBVIOUS
  <1>6. /\ d.at = "push_retry" /\ d.job = k /\ d.status = "queued" /\ calls' = calls \cup {d}
        /\ d.run = e.run /\ d.type = e.type /\ d.evidence = "none" /\ e.status = "queued"
    BY <1>1, <1>5 DEF Retries, Call
  <1>7. /\ db'[k] = e /\ \A i \in Jobs : i # k => db'[i] = db[i]
        /\ UNCHANGED <<queue, attempts, worker, posts, rowType, row>>
    BY <1>1 DEF Retries, rows, SafeInv, TInv, TypeOK
  <1>8. Minted(k, e, d)
    BY <1>2, <1>3, <1>4, <1>6, <1>7 DEF Minted
  <1> QED BY <1>8, CalmMint

\* What waits for a push is with no worker, so nothing of it is posted or handled.
LEMMA PushingQuiet ==
    ASSUME SafeInv, CalmInv, NEW j \in Jobs, Pushing(j)
    PROVE  /\ \A w \in Workers : ~HeldBy(w, j)
           /\ \A p \in posts : p.job # j
           /\ \A c \in calls : Handling(c) => c.job # j
           /\ attempts[j] = 0 /\ db[j].status \notin Ending
  <1>1. \A w \in Workers : ~HeldBy(w, j)
    BY DEF SafeInv, OwnerInv, SingleOwner
  <1>2. \A w \in Workers : \A n, s : ~Waits(w, j, n, s)
    BY <1>1, WaiterHolds
  <1>3. attempts[j] = 0
    BY DEF SafeInv, OwnerInv, StartedIsGone, TInv, TypeOK
  <1> QED BY <1>1, <1>2, <1>3 DEF CalmInv, OneUnderWay, StartedFirst

\* The call e is one of those there were, or promises no less than they do.
Promises(c, e) ==
    /\ \A d \in calls' : d \in calls \/ d = e
    /\ \/ e \in calls
       \/ e.at \in {"push", "sync"}
       \/ e.at = "gate" /\ e.status = "failed"
       \/ e.at = "cancel" /\ e.status = "cancelled"
       \/ e.at = "retry_row" /\ c.at = "push_retry" /\ e.job = c.job /\ e.status = c.status

\* The forerunner of a retry stays, whatever the other calls do.
LEMMA LateKept ==
    ASSUME LateWrites, UNCHANGED minted, NEW c \in calls, NEW e, Promises(c, e)
    PROVE  LateWrites'
  BY DEF LateWrites, minted, Promises

\* The row of a run follows when the step leaves the jobs of other runs alone.
LEMMA RowsKept ==
    ASSUME RowFollows, UNCHANGED <<minted, rowType>>, NEW j \in Jobs,
           \A k \in Jobs : k # j => db'[k] = db[k],
           \A c \in calls : Handling(c) /\ c.job # j => c \in calls',
           \A r \in Runs : j \notin Mine(r) => row'[r] = row[r],
           \A r \in Runs : rowType[r] \in MirroredTypes /\ j \in Mine(r) =>
             \/ row'[r] = db'[j].status
             \/ "cancelled" \in {row'[r], db'[j].status}
             \/ row'[r] = "queued" /\ \E k \in Mine(r) : k # j
             \/ \E c \in calls' : Handling(c) /\ c.job = j
             \/ /\ row'[r] = row[r] /\ db'[j] = db[j]
                /\ \A c \in calls : Handling(c) => c \in calls'
    PROVE  RowFollows'
  <1>1. ASSUME NEW r \in Runs, rowType'[r] \in MirroredTypes
        PROVE  \/ row'[r] \in {db'[k].status : k \in Mine(r)'}
               \/ "cancelled" \in {row'[r]} \cup {db'[k].status : k \in Mine(r)'}
               \/ row'[r] = "queued" /\ \E i, k \in Mine(r)' : i # k
               \/ \E c \in calls' : Handling(c) /\ c.job \in Mine(r)'
               \/ Mine(r)' = {} /\ row'[r] = "queued"
    <2>1. Mine(r)' = Mine(r) /\ Mine(r) \subseteq Jobs /\ rowType[r] \in MirroredTypes
      BY <1>1 DEF Mine, HasRow, minted
    <2>2. \/ row[r] \in {db[k].status : k \in Mine(r)}
          \/ "cancelled" \in {row[r]} \cup {db[k].status : k \in Mine(r)}
          \/ row[r] = "queued" /\ \E i, k \in Mine(r) : i # k
          \/ \E c \in calls : Handling(c) /\ c.job \in Mine(r)
          \/ Mine(r) = {} /\ row[r] = "queued"
      BY <2>1 DEF RowFollows
    <2>3. CASE j \notin Mine(r)
      <3>1. row'[r] = row[r] /\ \A k \in Mine(r) : db'[k] = db[k]
        BY <2>1, <2>3
      <3>2. \A c \in calls : Handling(c) /\ c.job \in Mine(r) => c \in calls'
        BY <2>3
      <3> QED BY <2>1, <2>2, <3>1, <3>2
    <2>4. CASE j \in Mine(r)
      <3>1. CASE row'[r] = row[r] /\ db'[j] = db[j] /\ \A c \in calls : Handling(c) => c \in calls'
        <4>1. \A k \in Mine(r) : db'[k] = db[k]
          BY <2>1, <3>1
        <4> QED BY <2>1, <2>2, <3>1, <4>1
      <3>2. CASE row'[r] = db'[j].status \/ "cancelled" \in {row'[r], db'[j].status}
        BY <2>1, <2>4, <3>2
      <3>3. CASE row'[r] = "queued" /\ \E k \in Mine(r) : k # j
        BY <2>1, <2>4, <3>3
      <3>4. CASE \E c \in calls' : Handling(c) /\ c.job = j
        BY <2>1, <2>4, <3>4
      <3> QED BY <2>1, <2>4, <3>1, <3>2, <3>3, <3>4
    <2> QED BY <2>3, <2>4
  <1> QED BY <1>1 DEF RowFollows

\* Events and calls still name the job's own run when no other run is named.
LEMMA NamesKept ==
    ASSUME NamesOwn, UNCHANGED minted,
           \A j \in Jobs : db'[j].run = db[j].run /\ db'[j].type = db[j].type,
           \A d \in calls' : d \in calls \/ ( /\ d.run = jobRun[d.job] /\ d.type = runType[d.job]
                                            /\ d.evidence = "none")
    PROVE  NamesOwn'
  BY DEF NamesOwn, minted

\* A handler pushes the envelope.
LEMMA CalmPush ==
    ASSUME SafeInv, CalmInv, NEW c \in calls, Push(c)
    PROVE  CalmInv'
  <1> DEFINE j == c.job
  <1>1. c \in CallSet /\ j \in Jobs /\ Pushing(j) /\ c.status = "queued"
    <2>1. c.at \in {"push", "push_retry"}
      BY DEF Push
    <2> QED BY <2>1, CallFacts DEF SafeInv, TInv, CallShapes
  <1>2. /\ \A w \in Workers : ~HeldBy(w, j)
        /\ \A p \in posts : p.job # j
        /\ \A d \in calls : Handling(d) => d.job # j
    BY <1>1, PushingQuiet
  <1>3. UNCHANGED <<minted, db, row, attempts, worker, posts, rowType>>
    BY DEF Push, rows
  <1>4. PICK e : e = [c EXCEPT !.at = "retry_row"]
    OBVIOUS
  <1>5. /\ e.at = "retry_row" /\ e.job = c.job /\ e.status = c.status /\ ~Handling(e)
        /\ e.run = c.run /\ e.type = c.type /\ e.evidence = c.evidence
    BY <1>1, <1>4 DEF CallSet, Handling
  <1>6. /\ calls \ {c} \subseteq calls' /\ calls' \subseteq (calls \ {c}) \cup {e}
        /\ c.at = "push_retry" \/ calls' = calls \ {c}
    BY <1>4 DEF Push
  <1>7. \A d \in calls' : Handling(d) => d \in calls
    BY <1>5, <1>6
  <1>8. StartedFirst' /\ EndsLast'
    BY <1>3 DEF CalmInv, StartedFirst, EndsLast, HeldBy, minted
  <1>9. OneUnderWay'
    BY <1>3, <1>7 DEF CalmInv, OneUnderWay, Waits, Handling
  <1>10. LateWrites'
    <2>1. CASE c.at = "push_retry"
      <3>1. Promises(c, e)
        BY <1>5, <1>6, <2>1 DEF Promises
      <3> QED BY <1>3, <3>1, LateKept DEF CalmInv
    <2>2. CASE calls' = calls \ {c}
      <3>1. Promises(c, c)
        BY <2>2 DEF Promises
      <3> QED BY <1>3, <3>1, LateKept DEF CalmInv
    <2> QED BY <1>6, <2>1, <2>2
  <1>11. RowFollows'
    <2>1. \A d \in calls : Handling(d) => d \in calls'
      BY <1>1, <1>2, <1>6
    <2> QED BY <1>1, <1>3, <2>1, RowsKept DEF CalmInv
  <1>12. NamesOwn'
    <2>1. e.run = jobRun[e.job] /\ e.type = runType[e.job] /\ e.evidence = "none"
      BY <1>5 DEF CalmInv, NamesOwn
    <2> QED BY <1>3, <1>6, <2>1, NamesKept DEF CalmInv
  <1>13. ASSUME NEW k \in Jobs, jobType'[k] # "none", db'[k].status \notin TerminalStates
         PROVE  IsCarried(k)'
    <2>1. \A i : InQueue(i)' <=> (InQueue(i) \/ i = j)
      BY <1>1, InQueueAppend DEF Push, SafeInv, TInv, TypeOK
    <2>2. CASE k = j
      BY <2>1, <2>2 DEF IsCarried
    <2>3. CASE k # j
      <3>1. IsCarried(k)
        BY <1>3, <1>13 DEF CalmInv, minted
      <3>2. CASE Pushing(k)
        BY <1>6, <2>3, <3>2 DEF IsCarried, Pushing, PushingCalls
      <3>3. CASE InQueue(k) \/ \E w \in Workers : HeldBy(w, k)
        BY <1>3, <2>1, <3>3 DEF IsCarried, HeldBy
      <3> QED BY <3>1, <3>2, <3>3 DEF IsCarried
    <2> QED BY <2>2, <2>3
  <1> QED BY <1>8, <1>9, <1>10, <1>11, <1>12, <1>13 DEF CalmInv

\* The row updates that end a handler.
LEMMA CalmRow ==
    ASSUME SafeInv, CalmInv, NEW c \in calls, Sync(c) \/ GateRow(c) \/ EndRow(c)
    PROVE  CalmInv'
  <1> DEFINE j == c.job
  <1>1. c \in CallSet /\ j \in Jobs /\ c.at \in {"sync", "gate", "cancel", "retry_row"}
    BY CallFacts DEF Sync, GateRow, EndRow
  <1>2. /\ UNCHANGED <<minted, db, queue, attempts, worker, posts, rowType>>
        /\ calls' = calls \ {c}
    BY DEF Sync, GateRow, EndRow
  <1>3. \A r \in Runs : (j \notin Mine(r) => row'[r] = row[r]) /\ (j \in Mine(r) => row'[r] = c.status)
    <2>1. UpdateRow(c, c.status)
      BY DEF Sync, GateRow, EndRow, CalmInv, LateWrites
    <2> QED BY <2>1, RowWritten DEF CalmInv
  <1>4. StartedFirst' /\ EndsLast'
    BY <1>2 DEF CalmInv, StartedFirst, EndsLast, HeldBy, minted
  <1>9. NamesOwn'
    BY <1>2, NamesKept DEF CalmInv
  <1>5. OneUnderWay'
    BY <1>2 DEF CalmInv, OneUnderWay, Waits
  <1>6. LateWrites'
    <2>1. Promises(c, c)
      BY <1>2 DEF Promises
    <2> QED BY <1>2, <2>1, LateKept DEF CalmInv
  <1>7. RowFollows'
    <2>1. \A d \in calls : Handling(d) /\ d.job # j => d \in calls'
      BY <1>2
    <2>4. CASE c.at \in {"sync", "gate"}
      <3>1. db[j].status \in {c.status, "cancelled"}
        BY <2>4 DEF CalmInv, OneUnderWay, Handling
      <3> QED BY <1>1, <1>2, <1>3, <2>1, <3>1, RowsKept DEF CalmInv
    <2>5. CASE c.at = "cancel"
      <3>1. c.status = "cancelled"
        BY <2>5 DEF CalmInv, LateWrites
      <3> QED BY <1>1, <1>2, <1>3, <2>1, <3>1, RowsKept DEF CalmInv
    <2>6. CASE c.at = "retry_row"
      <3>1. PICK k \in Jobs : k # j /\ jobRun[k] = jobRun[j] /\ runType[k] = runType[j]
        BY <2>6 DEF CalmInv, LateWrites
      <3>2. c.status = "queued"
        BY <2>6 DEF CalmInv, LateWrites
      <3>3. \A r \in Runs : j \in Mine(r) => k \in Mine(r)
        BY <3>1 DEF Mine, HasRow
      <3> QED BY <1>1, <1>2, <1>3, <2>1, <3>1, <3>2, <3>3, RowsKept DEF CalmInv
    <2> QED BY <1>1, <2>4, <2>5, <2>6
  <1>8. ASSUME NEW k \in Jobs, jobType'[k] # "none", db'[k].status \notin TerminalStates
        PROVE  IsCarried(k)'
    <2>1. IsCarried(k)
      BY <1>2, <1>8 DEF CalmInv, minted
    <2> QED BY <1>1, <1>2, <2>1 DEF IsCarried, Pushing, PushingCalls, InQueue, HeldBy
  <1> QED BY <1>4, <1>5, <1>6, <1>7, <1>8, <1>9 DEF CalmInv

\* The gate does not raise: no worker brings evidence.
LEMMA CalmRaise ==
    ASSUME CalmInv, NEW c \in calls, GateRaises(c)
    PROVE  FALSE
  BY DEF GateRaises, CalmInv, NamesOwn

\* The gate refuses: the handler stays with the worker's job.
LEMMA CalmGate ==
    ASSUME SafeInv, CalmInv, NEW c \in calls, GateFails(c)
    PROVE  CalmInv'
  <1> DEFINE j == c.job
  <1>1. c \in CallSet /\ j \in Jobs /\ c.at = "sync" /\ Handling(c) /\ c.status = "success"
    BY CallFacts DEF GateFails, NeedsGate, Handling
  <1>2. PICK e : e = [c EXCEPT !.at = "gate", !.status = "failed"]
    OBVIOUS
  <1>3. /\ calls' = (calls \ {c}) \cup {e}
        /\ e.at = "gate" /\ e.job = j /\ e.n = c.n /\ e.status = "failed" /\ Handling(e)
        /\ e.run = c.run /\ e.type = c.type /\ e.evidence = c.evidence
    BY <1>1, <1>2 DEF GateFails, CallSet, Handling
  <1>4. /\ UNCHANGED <<minted, queue, attempts, worker, posts, rowType, row>>
        /\ db'[j] = Event("failed", c.run, c.type) /\ db'[j].status = "failed"
        /\ \A k \in Jobs : k # j => db'[k] = db[k]
    BY <1>1 DEF GateFails, Record, Event, rows, SafeInv, TInv, TypeOK
  <1>5. PICK w \in Workers : Waits(w, j, c.n, "success")
    BY <1>1 DEF CalmInv, OneUnderWay
  <1>6. /\ HeldBy(w, j) /\ worker[w].pc \in {"final", "last"} /\ Waits(w, j, c.n, "failed")
        /\ \A v \in Workers : HeldBy(v, j) => v = w
    BY <1>1, <1>5, WaiterHolds DEF Waits, Ending
  <1>7. attempts[j] > 0
    BY <1>1, <1>6 DEF CalmInv, StartedFirst
  <1>8. StartedFirst'
    BY <1>4, <1>7 DEF CalmInv, StartedFirst, HeldBy, minted
  <1>9. OneUnderWay'
    <2>1. \A d \in calls : Handling(d) /\ d.job = j => d = c
      BY <1>1 DEF CalmInv, OneUnderWay
    <2>2. \A p \in posts : p.job # j
      BY <1>1 DEF CalmInv, OneUnderWay
    <2>3. \A d \in calls : Handling(d) /\ d # c => d.job # j /\ db'[d.job] = db[d.job]
      BY <1>4, <2>1, CallFacts
    <2>4. \A v \in Workers : \A n, s, i : Waits(v, i, n, s)' <=> Waits(v, i, n, s)
      BY <1>4 DEF Waits
    <2>5. \A p \in posts' : /\ \E v \in Workers : Waits(v, p.job, p.n, p.status)'
                            /\ \A q \in posts' : q.job = p.job => q = p
      BY <1>4, <2>4 DEF CalmInv, OneUnderWay
    <2>6. ASSUME NEW d \in calls', Handling(d)
          PROVE  /\ \E v \in Workers : Waits(v, d.job, d.n, d.status)'
                 /\ db'[d.job].status \in {d.status, "cancelled"}
                 /\ \A p \in posts' : p.job # d.job
                 /\ \A f \in calls' : Handling(f) /\ f.job = d.job => f = d
      <3>1. CASE d = e
        BY <1>3, <1>4, <1>6, <2>1, <2>2, <2>4, <3>1
      <3>2. CASE d \in calls /\ d # c
        BY <1>3, <1>4, <2>3, <2>4, <2>6, <3>2 DEF CalmInv, OneUnderWay
      <3> QED BY <1>3, <3>1, <3>2
    <2> QED BY <2>5, <2>6 DEF OneUnderWay, Waits, Handling
  <1>10. EndsLast'
    BY <1>4, <1>6, BusyJob DEF CalmInv, EndsLast, TerminalStates
  <1>11. LateWrites'
    <2>1. Promises(c, e)
      BY <1>3 DEF Promises
    <2> QED BY <1>4, <2>1, LateKept DEF CalmInv
  <1>12. RowFollows'
    <2>1. /\ \A d \in calls : Handling(d) /\ d.job # j => d \in calls'
          /\ \E d \in calls' : Handling(d) /\ d.job = j
      BY <1>3
    <2> QED BY <1>1, <1>4, <2>1, RowsKept DEF CalmInv
  <1>13. ASSUME NEW k \in Jobs, jobType'[k] # "none", db'[k].status \notin TerminalStates
        PROVE  IsCarried(k)'
    <2>1. k # j
      BY <1>4, <1>13 DEF TerminalStates
    <2>2. IsCarried(k)
      BY <1>4, <1>13, <2>1 DEF CalmInv, minted
    <2> QED BY <1>1, <1>3, <1>4, <2>2 DEF IsCarried, Pushing, PushingCalls, InQueue, HeldBy
  <1>14. NamesOwn'
    <2>1. c.run = jobRun[j] /\ c.type = runType[j] /\ c.evidence = "none"
      BY DEF CalmInv, NamesOwn
    <2>2. db'[j].run = db[j].run /\ db'[j].type = db[j].type
      BY <1>1, <1>4, <2>1 DEF Event, CalmInv, NamesOwn
    <2> QED BY <1>3, <1>4, <2>1, <2>2, NamesKept DEF CalmInv
  <1> QED BY <1>8, <1>9, <1>10, <1>11, <1>12, <1>13, <1>14 DEF CalmInv

\* A worker's post reaches the log: its handler is the one under way now.
LEMMA CalmDeliver ==
    ASSUME SafeInv, CalmInv, NEW p \in posts, Deliver(p)
    PROVE  CalmInv'
  <1> DEFINE j == p.job
  <1>1. j \in Jobs /\ p.status \in Status
    BY PostFacts
  <1>2. PICK w \in Workers : Waits(w, j, p.n, p.status)
    BY DEF CalmInv, OneUnderWay
  <1>3. /\ HeldBy(w, j) /\ worker[w].pc \in {"wait", "final", "last"} /\ jobType[j] # "none"
        /\ \A v \in Workers : HeldBy(v, j) => v = w
    BY <1>1, <1>2, WaiterHolds
  <1>15. PICK u : u = Updated(j, p.status, jobRun[j], runType[j])
    OBVIOUS
  <1>16. u.status = p.status /\ u.run = jobRun[j] /\ u.type = runType[j]
    BY <1>1, <1>15, ExistingIsLog DEF Updated, Event, CalmInv, NamesOwn
  <1>4. PICK e : e = Call("sync", j, p.n, u, "none")
    OBVIOUS
  <1>5. /\ calls' = calls \cup {e} /\ posts' = posts \ {p}
        /\ e.at = "sync" /\ e.job = j /\ e.n = p.n /\ e.status = p.status /\ Handling(e)
        /\ e.run = jobRun[j] /\ e.type = runType[j] /\ e.evidence = "none"
        /\ Record(j, u)
    <2>1. Existing(j) # NoEvent
      BY <1>1, <1>3, ExistingIsLog DEF CalmInv, StartedFirst, NoEvent, Event
    <2> QED BY <1>4, <1>15, <1>16, <2>1 DEF Deliver, Call, Handling
  <1>6. /\ UNCHANGED <<minted, queue, attempts, worker, rowType, row>>
        /\ db'[j] = u /\ db'[j].status = p.status /\ \A k \in Jobs : k # j => db'[k] = db[k]
    BY <1>1, <1>5, <1>16 DEF Deliver, Record, rows, SafeInv, TInv, TypeOK
  <1>7. attempts[j] > 0
    BY <1>1, <1>3 DEF CalmInv, StartedFirst
  <1>8. StartedFirst'
    BY <1>1, <1>6, <1>7 DEF CalmInv, StartedFirst, HeldBy, minted, Status
  <1>9. \A v \in Workers : \A n, s, i : Waits(v, i, n, s)' <=> Waits(v, i, n, s)
    BY <1>6 DEF Waits
  <1>10. OneUnderWay'
    <2>1. \A q \in posts' : q.job # j
      BY <1>5 DEF CalmInv, OneUnderWay
    <2>2. \A d \in calls : Handling(d) => d.job # j /\ db'[d.job] = db[d.job]
      BY <1>6, CallFacts DEF CalmInv, OneUnderWay
    <2>3. \A q \in posts' : /\ \E v \in Workers : Waits(v, q.job, q.n, q.status)'
                            /\ \A f \in posts' : f.job = q.job => f = q
      BY <1>5, <1>9 DEF CalmInv, OneUnderWay
    <2>4. ASSUME NEW d \in calls', Handling(d)
          PROVE  /\ \E v \in Workers : Waits(v, d.job, d.n, d.status)'
                 /\ db'[d.job].status \in {d.status, "cancelled"}
                 /\ \A q \in posts' : q.job # d.job
                 /\ \A f \in calls' : Handling(f) /\ f.job = d.job => f = d
      <3>1. CASE d = e
        BY <1>2, <1>5, <1>6, <1>9, <2>1, <2>2, <3>1
      <3>2. CASE d \in calls
        BY <1>5, <1>9, <2>2, <2>4, <3>2 DEF CalmInv, OneUnderWay
      <3> QED BY <1>5, <3>1, <3>2
    <2> QED BY <2>3, <2>4 DEF OneUnderWay, Waits, Handling
  <1>11. EndsLast'
    <2>1. ASSUME NEW v \in Workers, worker'[v].pc # "idle"
          PROVE  /\ db'[worker'[v].job].status \in Ending => worker'[v].pc \in {"final", "last"}
                 /\ worker'[v].pc \in {"final", "last"} =>
                      \/ \E q \in posts' : q.job = worker'[v].job
                      \/ db'[worker'[v].job].status \in TerminalStates
      <3>1. worker'[v] = worker[v] /\ worker[v].job \in Jobs
        BY <1>6, <2>1, BusyJob
      <3>2. CASE v = w
        BY <1>2, <1>6, <3>1, <3>2 DEF Waits, Ending, TerminalStates
      <3>3. CASE v # w
        <4>1. worker[v].job # j
          BY <1>3, <2>1, <3>1, <3>3 DEF HeldBy
        <4> QED BY <1>5, <1>6, <2>1, <3>1, <4>1 DEF CalmInv, EndsLast
      <3> QED BY <3>2, <3>3
    <2> QED BY <2>1 DEF EndsLast
  <1>12. LateWrites'
    <2>1. ASSUME NEW c \in calls PROVE Promises(c, e)
      BY <1>5 DEF Promises
    <2>2. CASE calls = {}
      BY <1>5, <2>2 DEF LateWrites
    <2> QED BY <1>6, <2>1, <2>2, LateKept DEF CalmInv
  <1>13. RowFollows'
    <2>1. /\ \A d \in calls : Handling(d) /\ d.job # j => d \in calls'
          /\ \E d \in calls' : Handling(d) /\ d.job = j
      BY <1>5
    <2> QED BY <1>1, <1>6, <2>1, RowsKept DEF CalmInv
  <1>14. ASSUME NEW k \in Jobs, jobType'[k] # "none", db'[k].status \notin TerminalStates
        PROVE  IsCarried(k)'
    <2>1. CASE k = j
      BY <1>3, <1>6, <2>1 DEF IsCarried, HeldBy
    <2>2. CASE k # j
      <3>1. IsCarried(k)
        BY <1>6, <1>14, <2>2 DEF CalmInv, minted
      <3> QED BY <1>5, <1>6, <3>1 DEF IsCarried, Pushing, PushingCalls, InQueue, HeldBy
    <2> QED BY <2>1, <2>2
  <1>17. NamesOwn'
    <2>1. db'[j].run = db[j].run /\ db'[j].type = db[j].type
      BY <1>1, <1>6, <1>16 DEF CalmInv, NamesOwn
    <2> QED BY <1>5, <1>6, <2>1, NamesKept DEF CalmInv
  <1> QED BY <1>8, <1>10, <1>11, <1>12, <1>13, <1>14, <1>17 DEF CalmInv

\* A cancel, and a read, which only fills the memory.
LEMMA CalmCancel ==
    ASSUME SafeInv, CalmInv, NEW j \in Jobs, Cancel(j) \/ Read(j)
    PROVE  CalmInv'
  <1>1. CASE Read(j)
    <2>1. UNCHANGED <<minted, db, queue, attempts, worker, posts, calls, rowType, row>>
      BY <1>1 DEF Read, rows
    <2>2. StartedFirst' /\ EndsLast' /\ LateWrites' /\ OneUnderWay'
      BY <2>1 DEF CalmInv, StartedFirst, EndsLast, LateWrites, OneUnderWay, Waits, HeldBy, minted
    <2>5. NamesOwn'
      BY <2>1, NamesKept DEF CalmInv
    <2>3. RowFollows'
      BY <2>1 DEF CalmInv, RowFollows, Mine, HasRow, minted
    <2>4. ASSUME NEW k \in Jobs, jobType'[k] # "none", db'[k].status \notin TerminalStates
          PROVE  IsCarried(k)'
      <3>1. IsCarried(k)
        BY <2>1, <2>4 DEF CalmInv, minted
      <3> QED BY <2>1, <3>1 DEF IsCarried, Pushing, PushingCalls, InQueue, HeldBy
    <2> QED BY <2>2, <2>3, <2>4, <2>5 DEF CalmInv
  <1>2. CASE Cancel(j)
    <2>10. PICK u : u = [Existing(j) EXCEPT !.status = "cancelled"]
      OBVIOUS
    <2>11. u.status = "cancelled" /\ u.run = db[j].run /\ u.type = db[j].type
      <3>1. Existing(j) \in EventSet
        BY ExistingType DEF SafeInv, TInv
      <3> QED BY <2>10, <3>1, ExistingIsLog DEF EventSet
    <2>1. PICK e : e = Call("cancel", j, Ticket, u, "none")
      OBVIOUS
    <2>2. /\ calls' = calls \cup {e}
          /\ e.at = "cancel" /\ e.job = j /\ e.status = "cancelled" /\ ~Handling(e)
          /\ e.run = db[j].run /\ e.type = db[j].type /\ e.evidence = "none"
      BY <1>2, <2>1, <2>10, <2>11 DEF Cancel, Call, Handling
    <2>3. /\ UNCHANGED <<minted, queue, attempts, worker, posts, rowType, row>>
          /\ db'[j] = u /\ db'[j].status = "cancelled" /\ \A k \in Jobs : k # j => db'[k] = db[k]
      BY <1>2, <2>10, <2>11 DEF Cancel, Record, rows, SafeInv, TInv, TypeOK
    <2>4. StartedFirst'
      BY <2>3 DEF CalmInv, StartedFirst, HeldBy, minted, Ending
    <2>5. OneUnderWay'
      <3>1. \A d \in calls' : Handling(d) => d \in calls /\ d.job \in Jobs
        BY <2>2, CallFacts DEF Handling
      <3>2. \A v \in Workers : \A n, s, i : Waits(v, i, n, s)' <=> Waits(v, i, n, s)
        BY <2>3 DEF Waits
      <3>3. \A d \in calls : Handling(d) /\ d.job \in Jobs => db'[d.job].status \in {d.status, "cancelled"}
        BY <2>3 DEF CalmInv, OneUnderWay
      <3>4. \A p \in posts' : /\ \E v \in Workers : Waits(v, p.job, p.n, p.status)'
                              /\ \A q \in posts' : q.job = p.job => q = p
        BY <2>3, <3>2 DEF CalmInv, OneUnderWay
      <3>5. \A d \in calls' : Handling(d) =>
                 /\ \E v \in Workers : Waits(v, d.job, d.n, d.status)'
                 /\ db'[d.job].status \in {d.status, "cancelled"}
                 /\ \A p \in posts' : p.job # d.job
                 /\ \A f \in calls' : Handling(f) /\ f.job = d.job => f = d
        BY <2>3, <3>1, <3>2, <3>3 DEF CalmInv, OneUnderWay
      <3> QED BY <3>4, <3>5 DEF OneUnderWay, Waits, Handling
    <2>6. EndsLast'
      BY <2>3, BusyJob DEF CalmInv, EndsLast, Ending, TerminalStates
    <2>7. LateWrites'
      BY <2>2, <2>3 DEF CalmInv, LateWrites, minted
    <2>8. RowFollows'
      BY <2>2, <2>3, RowsKept DEF CalmInv
    <2>9. ASSUME NEW k \in Jobs, jobType'[k] # "none", db'[k].status \notin TerminalStates
          PROVE  IsCarried(k)'
      <3>1. IsCarried(k)
        BY <2>3, <2>9 DEF CalmInv, TerminalStates, minted
      <3> QED BY <2>2, <2>3, <3>1 DEF IsCarried, Pushing, PushingCalls, InQueue, HeldBy
    <2>12. NamesOwn'
      <3>1. e.run = jobRun[e.job] /\ e.type = runType[e.job]
        BY <2>2 DEF CalmInv, NamesOwn
      <3> QED BY <2>2, <2>3, <2>11, <3>1, NamesKept DEF CalmInv
    <2> QED BY <2>4, <2>5, <2>6, <2>7, <2>8, <2>9, <2>12 DEF CalmInv
  <1> QED BY <1>1, <1>2

\* A step that writes nothing leaves names, rows and late writes as they are.
LEMMA NothingWritten ==
    ASSUME CalmInv, UNCHANGED <<minted, db, rowType, row, calls>>
    PROVE  NamesOwn' /\ RowFollows' /\ LateWrites'
  BY NamesKept DEF CalmInv, RowFollows, LateWrites, Mine, HasRow, minted

\* A row no job names yet.
LEMMA CalmOrphan ==
    ASSUME SafeInv, CalmInv, NEW q \in Runs, NEW t \in RowTypes, OrphanRun(q, t)
    PROVE  CalmInv'
  <1>1. /\ UNCHANGED <<minted, db, queue, attempts, worker, posts, calls>>
        /\ AddRow(q, t)
    BY DEF OrphanRun
  <1>2. StartedFirst' /\ EndsLast' /\ LateWrites' /\ OneUnderWay' /\ NamesOwn'
    BY <1>1, NamesKept DEF CalmInv, StartedFirst, EndsLast, LateWrites, OneUnderWay, Waits, HeldBy, minted
  <1>3. /\ row'[q] = "queued" /\ \A j \in Jobs : jobRun[j] # q
        /\ \A r \in Runs : r # q => row'[r] = row[r] /\ rowType'[r] = rowType[r]
    BY <1>1 DEF AddRow, Fresh, SafeInv, TInv, TypeOK
  <1>4. Mine(q)' = {}
    BY <1>1, <1>3 DEF Mine, minted
  <1>5. \A r \in Runs : r # q => Mine(r)' = Mine(r)
    BY <1>1, <1>3 DEF Mine, HasRow, minted
  <1>6. RowFollows'
    <2>1. ASSUME NEW r \in Runs, rowType'[r] \in MirroredTypes, r # q
          PROVE  \/ row'[r] \in {db'[k].status : k \in Mine(r)'}
                 \/ "cancelled" \in {row'[r]} \cup {db'[k].status : k \in Mine(r)'}
                 \/ row'[r] = "queued" /\ \E i, k \in Mine(r)' : i # k
                 \/ \E c \in calls' : Handling(c) /\ c.job \in Mine(r)'
                 \/ Mine(r)' = {} /\ row'[r] = "queued"
      <3>1. rowType[r] \in MirroredTypes /\ row'[r] = row[r] /\ Mine(r)' = Mine(r) /\ db' = db /\ calls' = calls
        BY <1>1, <1>3, <1>5, <2>1
      <3> QED BY <3>1 DEF CalmInv, RowFollows
    <2> QED BY <1>3, <1>4, <2>1 DEF RowFollows
  <1>7. ASSUME NEW k \in Jobs, jobType'[k] # "none", db'[k].status \notin TerminalStates
        PROVE  IsCarried(k)'
    <2>1. IsCarried(k)
      BY <1>1, <1>7 DEF CalmInv, minted
    <2> QED BY <1>1, <2>1 DEF IsCarried, Pushing, PushingCalls, InQueue, HeldBy
  <1> QED BY <1>2, <1>6, <1>7 DEF CalmInv

\* What is posted or handled is of a worker that waits: one that does not, or none at
\* all, has nothing under way.
LEMMA NothingUnderWay ==
    ASSUME SafeInv, CalmInv, NEW j \in Jobs,
           \A w \in Workers : HeldBy(w, j) => worker[w].pc \notin {"wait", "final", "last"}
    PROVE  /\ \A p \in posts : p.job # j
           /\ \A c \in calls : Handling(c) => c.job # j
  <1>1. \A w \in Workers : \A n, s : ~Waits(w, j, n, s)
    BY WaiterHolds
  <1> QED BY <1>1 DEF CalmInv, OneUnderWay

\* OneUnderWay when one worker moves that has nothing under way.
LEMMA OthersUnderWay ==
    ASSUME CalmInv, NEW w \in Workers, UNCHANGED <<calls, db, posts>>,
           \A v \in Workers : v # w => worker'[v] = worker[v],
           \A p \in posts : ~Waits(w, p.job, p.n, p.status),
           \A c \in calls : Handling(c) => ~Waits(w, c.job, c.n, c.status)
    PROVE  OneUnderWay'
  <1>1. \A v \in Workers : \A n, s, i : v # w => (Waits(v, i, n, s)' <=> Waits(v, i, n, s))
    BY DEF Waits
  <1>2. \A p \in posts' : /\ \E v \in Workers : Waits(v, p.job, p.n, p.status)'
                          /\ \A q \in posts' : q.job = p.job => q = p
    BY <1>1 DEF CalmInv, OneUnderWay
  <1>3. \A d \in calls' : Handling(d) =>
           /\ \E v \in Workers : Waits(v, d.job, d.n, d.status)'
           /\ db'[d.job].status \in {d.status, "cancelled"}
           /\ \A p \in posts' : p.job # d.job
           /\ \A f \in calls' : Handling(f) /\ f.job = d.job => f = d
    BY <1>1 DEF CalmInv, OneUnderWay
  <1> QED BY <1>2, <1>3 DEF OneUnderWay, Waits, Handling

\* A worker takes the head of the list.
LEMMA CalmClaim ==
    ASSUME SafeInv, CalmInv, NEW w \in Workers, Claim(w)
    PROVE  CalmInv'
  <1>1. PICK j : j = Head(queue)
    OBVIOUS
  <1>2. /\ j \in Jobs /\ InQueue(j)
        /\ \A k \in Jobs : InQueue(k) /\ k # j => InQueue(k)'
    <2>1. queue \in Seq(Jobs) /\ queue # << >> /\ queue' = Tail(queue)
      BY DEF Claim, SafeInv, TInv, TypeOK
    <2>2. j \in Jobs
      BY <1>1, <2>1
    <2>3. /\ DOMAIN queue = 1 .. Len(queue) /\ Len(queue) \in Nat
          /\ j = queue[1] /\ 1 \in DOMAIN queue
          /\ DOMAIN queue' = 1 .. (Len(queue) - 1)
          /\ \A i \in DOMAIN queue' : queue'[i] = queue[i + 1]
      BY <1>1, <2>1, <2>2, QueueFacts
    <2>4. ASSUME NEW k \in Jobs, InQueue(k), k # j PROVE InQueue(k)'
      <3>1. PICK i \in DOMAIN queue : queue[i] = k
        BY <2>4 DEF InQueue
      <3>2. i # 1
        BY <2>3, <2>4, <3>1
      <3>3. i - 1 \in DOMAIN queue' /\ queue'[i - 1] = k
        BY <2>3, <3>1, <3>2
      <3> QED BY <3>3 DEF InQueue
    <2> QED BY <2>2, <2>3, <2>4 DEF InQueue
  <1>3. /\ attempts[j] = 0 /\ db[j].status \notin Ending /\ \A v \in Workers : ~HeldBy(v, j)
    <2>1. attempts[j] = 0 /\ \A v \in Workers : ~HeldBy(v, j)
      BY <1>2 DEF SafeInv, OwnerInv, StartedIsGone, SingleOwner, TInv, TypeOK
    <2> QED BY <1>2, <2>1 DEF CalmInv, StartedFirst
  <1>4. worker[w].pc = "idle"
    BY DEF Claim
  <1>5. /\ \A v \in Workers : v # w => worker'[v] = worker[v]
        /\ worker'[w].job = j /\ worker'[w].pc \in {"foreign", "run", "abort"}
        /\ \A k \in Jobs : k # j => attempts'[k] = attempts[k]
        /\ attempts'[j] >= 0
        /\ worker'[w].pc # "foreign" => attempts'[j] > 0
    BY <1>1, <1>2, <1>3 DEF Claim, SafeInv, TInv, TypeOK
  <1>6. UNCHANGED <<minted, db, rowType, row, calls, posts>>
    BY DEF Claim, rows
  <1>7. StartedFirst'
    <2>1. \A k \in Jobs : db[k].status \in Ending => k # j /\ attempts'[k] > 0
      BY <1>3, <1>5 DEF CalmInv, StartedFirst
    <2>2. \A k \in Jobs : jobType'[k] # "none" => db'[k].status # "none"
      BY <1>6 DEF CalmInv, StartedFirst, minted
    <2>3. ASSUME NEW v \in Workers, NEW k \in Jobs, worker'[v].pc \notin {"idle", "foreign"},
                 worker'[v].job = k
          PROVE  attempts'[k] > 0
      <3>1. CASE v = w
        BY <1>5, <2>3, <3>1
      <3>2. CASE v # w
        <4>1. HeldBy(v, k) /\ worker[v].pc # "foreign"
          BY <1>5, <2>3, <3>2 DEF HeldBy
        <4>2. attempts[k] > 0 /\ k # j
          BY <1>3, <4>1 DEF CalmInv, StartedFirst
        <4> QED BY <1>5, <4>2
      <3> QED BY <3>1, <3>2
    <2> QED BY <1>6, <2>1, <2>2, <2>3 DEF StartedFirst, HeldBy
  <1>8. OneUnderWay'
    BY <1>4, <1>5, <1>6, OthersUnderWay DEF Waits
  <1>9. EndsLast'
    BY <1>3, <1>5, <1>6 DEF CalmInv, EndsLast
  <1>10. ASSUME NEW k \in Jobs, jobType'[k] # "none", db'[k].status \notin TerminalStates
        PROVE  IsCarried(k)'
    <2>1. IsCarried(k)
      BY <1>6, <1>10 DEF CalmInv, minted
    <2>2. CASE k = j
      BY <1>5, <2>2 DEF IsCarried, HeldBy
    <2>3. CASE k # j
      <3>1. \A v \in Workers : HeldBy(v, k) => v # w
        BY <1>4 DEF HeldBy
      <3> QED BY <1>2, <1>5, <1>6, <2>1, <2>3, <3>1 DEF IsCarried, Pushing, PushingCalls, HeldBy
    <2> QED BY <2>2, <2>3
  <1> QED BY <1>6, <1>7, <1>8, <1>9, <1>10, NothingWritten DEF CalmInv

\* ... and puts back what is not of its type.
LEMMA CalmRequeue ==
    ASSUME SafeInv, CalmInv, NEW w \in Workers, ForeignRequeue(w)
    PROVE  CalmInv'
  <1>1. PICK j \in Jobs : j = worker[w].job
    BY BusyJob DEF ForeignRequeue
  <1>2. /\ worker[w].pc = "foreign" /\ worker'[w].pc = "idle"
        /\ \A v \in Workers : v # w => worker'[v] = worker[v]
    BY DEF ForeignRequeue, Free, Idle, SafeInv, TInv, TypeOK
  <1>3. UNCHANGED <<minted, db, rowType, row, calls, posts, attempts>>
    BY DEF ForeignRequeue, rows
  <1>4. \A k : InQueue(k)' <=> (InQueue(k) \/ k = j)
    BY <1>1, InQueueAppend DEF ForeignRequeue, SafeInv, TInv, TypeOK
  <1>5. StartedFirst'
    BY <1>2, <1>3 DEF CalmInv, StartedFirst, HeldBy, minted
  <1>6. OneUnderWay'
    BY <1>2, <1>3, OthersUnderWay DEF Waits
  <1>7. EndsLast'
    BY <1>2, <1>3 DEF CalmInv, EndsLast
  <1>8. ASSUME NEW k \in Jobs, jobType'[k] # "none", db'[k].status \notin TerminalStates
        PROVE  IsCarried(k)'
    <2>1. IsCarried(k)
      BY <1>3, <1>8 DEF CalmInv, minted
    <2>2. CASE k = j
      BY <1>4, <2>2 DEF IsCarried
    <2>3. CASE k # j
      <3>1. \A v \in Workers : HeldBy(v, k) => v # w
        BY <1>1, <2>3 DEF HeldBy
      <3> QED BY <1>2, <1>3, <1>4, <2>1, <3>1 DEF IsCarried, Pushing, PushingCalls, HeldBy
    <2> QED BY <2>2, <2>3
  <1> QED BY <1>3, <1>5, <1>6, <1>7, <1>8, NothingWritten DEF CalmInv

\* An answered worker has nothing under way; after its last post the job has ended.
LEMMA CalmAck ==
    ASSUME SafeInv, CalmInv, NEW w \in Workers, Ack(w)
    PROVE  CalmInv'
  <1>1. worker[w].pc \in {"wait", "final", "last"} /\ worker[w].pc # "idle"
    BY DEF Ack
  <1>2. PICK j \in Jobs : /\ j = worker[w].job /\ HeldBy(w, j)
                         /\ \A v \in Workers : HeldBy(v, j) => v = w
    BY <1>1, BusyJob
  <1>3. /\ \A p \in posts : ~Waits(w, p.job, p.n, p.status)
        /\ \A c \in calls : Handling(c) => ~Waits(w, c.job, c.n, c.status)
    BY DEF Ack, Answered, Waits
  <1>4. \A p \in posts : p.job # j
    <2>1. ASSUME NEW p \in posts, p.job = j PROVE FALSE
      <3>1. PICK v \in Workers : Waits(v, p.job, p.n, p.status)
        BY DEF CalmInv, OneUnderWay
      <3>2. HeldBy(v, j)
        BY <2>1, <3>1, WaiterHolds
      <3> QED BY <1>2, <1>3, <3>1, <3>2
    <2> QED BY <2>1
  <1>5. /\ \A v \in Workers : v # w => worker'[v] = worker[v]
        /\ \/ worker[w].pc = "wait" /\ worker'[w].pc = "run" /\ worker'[w].job = j
           \/ worker[w].pc \in {"final", "last"} /\ worker'[w].pc = "idle"
    <2>1. worker \in [Workers -> WorkerSet] /\ worker[w] \in WorkerSet
      BY DEF SafeInv, TInv, TypeOK
    <2>2. CASE worker[w].pc = "wait"
      BY <1>2, <2>1, <2>2 DEF Ack, Resume, Move, WorkerSet
    <2>3. CASE worker[w].pc # "wait"
      BY <1>1, <2>1, <2>3 DEF Ack, Resume, Free, Idle
    <2> QED BY <2>2, <2>3
  <1>6. UNCHANGED <<minted, db, queue, rowType, row, calls, posts, attempts>>
    BY DEF Ack, rows
  <1>7. StartedFirst'
    <2>1. ASSUME NEW v \in Workers, NEW k \in Jobs, worker'[v].pc \notin {"idle", "foreign"},
                 worker'[v].job = k
          PROVE  attempts'[k] > 0
      <3>1. HeldBy(v, k) /\ worker[v].pc # "foreign"
        BY <1>1, <1>2, <1>5, <2>1 DEF HeldBy
      <3> QED BY <1>6, <3>1 DEF CalmInv, StartedFirst
    <2> QED BY <1>6, <2>1 DEF CalmInv, StartedFirst, HeldBy, minted
  <1>8. OneUnderWay'
    BY <1>3, <1>5, <1>6, OthersUnderWay
  <1>9. EndsLast'
    BY <1>2, <1>5, <1>6 DEF CalmInv, EndsLast
  <1>10. ASSUME NEW k \in Jobs, jobType'[k] # "none", db'[k].status \notin TerminalStates
        PROVE  IsCarried(k)'
    <2>1. IsCarried(k)
      BY <1>6, <1>10 DEF CalmInv, minted
    <2>2. CASE k = j
      <3>1. worker[w].pc = "wait"
        BY <1>1, <1>2, <1>4, <1>6, <1>10, <2>2 DEF CalmInv, EndsLast
      <3> QED BY <1>5, <2>2, <3>1 DEF IsCarried, HeldBy
    <2>3. CASE k # j
      <3>1. \A v \in Workers : HeldBy(v, k) => v # w
        BY <1>2, <2>3 DEF HeldBy
      <3> QED BY <1>5, <1>6, <2>1, <3>1 DEF IsCarried, Pushing, PushingCalls, InQueue, HeldBy
    <2> QED BY <2>2, <2>3
  <1> QED BY <1>6, <1>7, <1>8, <1>9, <1>10, NothingWritten DEF CalmInv

\* A worker posts: it had nothing under way.
LEMMA CalmPost ==
    ASSUME SafeInv, CalmInv, NEW w \in Workers,
           PostRunning(w) \/ PostVerdict(w) \/ PostAborted(w)
    PROVE  CalmInv'
  <1>1. worker[w].pc \in {"run", "abort"}
    BY DEF PostRunning, PostVerdict, LastStatus, PostAborted
  <1>2. PICK j \in Jobs : /\ j = worker[w].job /\ HeldBy(w, j)
                         /\ \A v \in Workers : HeldBy(v, j) => v = w
    BY <1>1, BusyJob
  <1>3. /\ \A p \in posts : p.job # j
        /\ \A c \in calls : Handling(c) => c.job # j
    BY <1>1, <1>2, NothingUnderWay
  <1>4. PICK s, pc : /\ Post(w, s, pc)
                     /\ \/ pc = "wait" /\ s = "running"
                        \/ pc \in {"final", "last"} /\ s \in Ending
    BY DEF PostRunning, PostVerdict, LastStatus, PostAborted, Ending
  <1>5. PICK e : e = [job |-> j, n |-> worker[w].n + 1, status |-> s]
    OBVIOUS
  <1>6. posts' = posts \cup {e} /\ e.job = j /\ e.n = worker[w].n + 1 /\ e.status = s
    BY <1>2, <1>4, <1>5 DEF Post
  <1>7. /\ \A v \in Workers : v # w => worker'[v] = worker[v]
        /\ worker'[w].job = j /\ worker'[w].n = worker[w].n + 1 /\ worker'[w].pc = pc
    <2>1. worker \in [Workers -> WorkerSet] /\ worker[w] \in WorkerSet
      BY DEF SafeInv, TInv, TypeOK
    <2> QED BY <1>2, <1>4, <2>1 DEF Post, WorkerSet
  <1>8. UNCHANGED <<minted, db, queue, rowType, row, calls, attempts>>
    BY <1>4 DEF Post, rows
  <1>9. StartedFirst'
    <2>1. ASSUME NEW v \in Workers, NEW k \in Jobs, worker'[v].pc \notin {"idle", "foreign"},
                 worker'[v].job = k
          PROVE  attempts'[k] > 0
      <3>1. HeldBy(v, k) /\ worker[v].pc # "foreign"
        BY <1>1, <1>2, <1>7, <2>1 DEF HeldBy
      <3> QED BY <1>8, <3>1 DEF CalmInv, StartedFirst
    <2> QED BY <1>8, <2>1 DEF CalmInv, StartedFirst, HeldBy, minted
  <1>10. OneUnderWay'
    <2>1. \A v \in Workers : \A n, t, i : v # w => (Waits(v, i, n, t)' <=> Waits(v, i, n, t))
      BY <1>7 DEF Waits
    <2>2. \A n, t, i : ~Waits(w, i, n, t)
      BY <1>1 DEF Waits, Ending
    <2>3. Waits(w, e.job, e.n, e.status)'
      BY <1>4, <1>6, <1>7 DEF Waits
    <2>4. \A p \in posts' : /\ \E v \in Workers : Waits(v, p.job, p.n, p.status)'
                            /\ \A q \in posts' : q.job = p.job => q = p
      BY <1>3, <1>6, <2>1, <2>2, <2>3 DEF CalmInv, OneUnderWay
    <2>5. \A d \in calls' : Handling(d) =>
             /\ \E v \in Workers : Waits(v, d.job, d.n, d.status)'
             /\ db'[d.job].status \in {d.status, "cancelled"}
             /\ \A p \in posts' : p.job # d.job
             /\ \A f \in calls' : Handling(f) /\ f.job = d.job => f = d
      BY <1>3, <1>6, <1>8, <2>1, <2>2 DEF CalmInv, OneUnderWay
    <2> QED BY <2>4, <2>5 DEF OneUnderWay, Waits, Handling
  <1>11. EndsLast'
    <2>1. db[j].status \notin Ending
      BY <1>1, <1>2 DEF CalmInv, EndsLast
    <2> QED BY <1>4, <1>6, <1>7, <1>8, <2>1 DEF CalmInv, EndsLast
  <1>12. ASSUME NEW k \in Jobs, jobType'[k] # "none", db'[k].status \notin TerminalStates
        PROVE  IsCarried(k)'
    <2>1. IsCarried(k)
      BY <1>8, <1>12 DEF CalmInv, minted
    <2>2. \A v \in Workers : HeldBy(v, k) => HeldBy(v, k)'
      BY <1>2, <1>4, <1>7 DEF HeldBy
    <2> QED BY <1>8, <2>1, <2>2 DEF IsCarried, Pushing, PushingCalls, InQueue
  <1> QED BY <1>8, <1>9, <1>10, <1>11, <1>12, NothingWritten DEF CalmInv

\* A pipeline raises between two posts.
LEMMA CalmPipeline ==
    ASSUME SafeInv, CalmInv, NEW w \in Workers, PipelineRaises(w)
    PROVE  CalmInv'
  <1>1. PICK j \in Jobs : j = worker[w].job /\ HeldBy(w, j)
    BY BusyJob DEF PipelineRaises
  <1>2. worker[w].pc = "run"
    BY DEF PipelineRaises
  <1>3. /\ \A v \in Workers : v # w => worker'[v] = worker[v]
        /\ worker'[w].job = j /\ worker'[w].pc = "abort"
    <2>1. worker \in [Workers -> WorkerSet] /\ worker[w] \in WorkerSet
      BY DEF SafeInv, TInv, TypeOK
    <2> QED BY <1>1, <2>1 DEF PipelineRaises, Move, WorkerSet
  <1>4. UNCHANGED <<minted, db, queue, rowType, row, posts, calls, attempts>>
    BY DEF PipelineRaises, rows
  <1>5. StartedFirst'
    <2>1. ASSUME NEW v \in Workers, NEW k \in Jobs, worker'[v].pc \notin {"idle", "foreign"},
                 worker'[v].job = k
          PROVE  attempts'[k] > 0
      <3>1. HeldBy(v, k) /\ worker[v].pc # "foreign"
        BY <1>1, <1>2, <1>3, <2>1 DEF HeldBy
      <3> QED BY <1>4, <3>1 DEF CalmInv, StartedFirst
    <2> QED BY <1>4, <2>1 DEF CalmInv, StartedFirst, HeldBy, minted
  <1>6. OneUnderWay'
    BY <1>2, <1>3, <1>4, OthersUnderWay DEF Waits
  <1>7. EndsLast'
    BY <1>1, <1>2, <1>3, <1>4 DEF CalmInv, EndsLast
  <1>8. ASSUME NEW k \in Jobs, jobType'[k] # "none", db'[k].status \notin TerminalStates
        PROVE  IsCarried(k)'
    <2>1. IsCarried(k)
      BY <1>4, <1>8 DEF CalmInv, minted
    <2>2. \A v \in Workers : HeldBy(v, k) => HeldBy(v, k)'
      BY <1>1, <1>3 DEF HeldBy
    <2> QED BY <1>4, <2>1, <2>2 DEF IsCarried, Pushing, PushingCalls, InQueue
  <1> QED BY <1>4, <1>5, <1>6, <1>7, <1>8, NothingWritten DEF CalmInv

\* Nothing has happened yet.
LEMMA CalmInit == Init => CalmInv
  <1> SUFFICES ASSUME Init PROVE CalmInv
    OBVIOUS
  <1>1. /\ \A j \in Jobs : /\ db[j].status = "none" /\ jobType[j] = "none"
                         /\ db[j].run = jobRun[j] /\ db[j].type = runType[j]
        /\ \A w \in Workers : worker[w].pc = "idle"
        /\ \A r \in Runs : rowType[r] = "none"
        /\ posts = {} /\ calls = {}
    BY DEF Init, Idle, NoEvent, Event
  <1>3. NamesOwn
    BY <1>1 DEF NamesOwn
  <1>2. StartedFirst /\ OneUnderWay /\ EndsLast /\ LateWrites /\ RowFollows
    BY <1>1 DEF StartedFirst, OneUnderWay, EndsLast, LateWrites, RowFollows, HeldBy, Ending,
                MirroredTypes
  <1> QED BY <1>1, <1>2, <1>3 DEF CalmInv

\* A step that leaves the count of faults at zero is none of the faults.
LEMMA NoFault ==
    ASSUME faults \in 0 .. MaxFaults, faults' = 0, NEW kind
    PROVE  ~Faulted(kind)
  BY ConstantsAssumption DEF Faulted, ConstantsAssumption

\* No change keeps every part.
LEMMA CalmStutter ==
    ASSUME CalmInv, UNCHANGED vars
    PROVE  CalmInv'
  <1>1. UNCHANGED <<minted, db, queue, attempts, worker, posts, calls, rowType, row>>
    BY DEF vars, minted
  <1>2. StartedFirst' /\ EndsLast' /\ OneUnderWay'
    BY <1>1 DEF CalmInv, StartedFirst, EndsLast, OneUnderWay, Waits, HeldBy, minted
  <1>3. ASSUME NEW k \in Jobs, jobType'[k] # "none", db'[k].status \notin TerminalStates
        PROVE  IsCarried(k)'
    <2>1. IsCarried(k)
      BY <1>1, <1>3 DEF CalmInv, minted
    <2> QED BY <1>1, <2>1 DEF IsCarried, Pushing, PushingCalls, InQueue, HeldBy
  <1> QED BY <1>1, <1>2, <1>3, NothingWritten DEF CalmInv

\* Which steps there are when nothing fails and nobody else publishes.
LEMMA CalmCases ==
    ASSUME "publish" \notin Requests, SafeInv, Next, faults' = 0
    PROVE  \/ \E j \in Jobs, t \in JobTypes, e \in EventSet : Creates(j, t, e)
           \/ \E r \in Runs, t \in RowTypes : OrphanRun(r, t)
           \/ \E c \in calls : \/ Push(c) \/ Sync(c) \/ GateRow(c) \/ EndRow(c)
                              \/ GateFails(c) \/ GateRaises(c)
           \/ \E p \in posts : Deliver(p)
           \/ \E j \in Jobs : Cancel(j) \/ Read(j)
           \/ \E j, k \in Jobs : Retry(j, k)
           \/ \E w \in Workers : \/ Claim(w) \/ ForeignRequeue(w) \/ Ack(w)
                                \/ PostRunning(w) \/ PostVerdict(w)
                                \/ PostAborted(w) \/ PipelineRaises(w)
  <1>1. \A kind : ~Faulted(kind)
    BY NoFault DEF SafeInv, TInv, TypeOK
  <1>3. /\ \A c : ~PushFails(c)
        /\ \A p : ~PostLost(p)
        /\ \A w : ~PostTimeout(w) /\ ~JobAbort(w) /\ ~WorkerCrash(w)
        /\ ~ApiRestart
    BY <1>1 DEF PushFails, PostLost, PostTimeout, JobAbort, WorkerCrash, ApiRestart
  <1>4. \A j, s, o, v : ~Publish(j, s, o, v)
    BY DEF Publish, Requested
  <1> QED BY <1>3, <1>4, StepCases

\* Every step that is no fault keeps the calm invariant.
LEMMA CalmStep ==
    ASSUME "publish" \notin Requests, SafeInv, CalmInv, [Next]_vars, faults' = 0
    PROVE  CalmInv'
  <1>1. CASE UNCHANGED vars
    BY <1>1, CalmStutter
  <1>2. CASE Next
    BY <1>2, CalmCases, CalmCreate, CalmOrphan, CalmPush, CalmRow, CalmGate, CalmRaise,
       CalmDeliver, CalmCancel, CalmRetry, CalmClaim, CalmRequeue, CalmAck, CalmPost,
       CalmPipeline
  <1> QED BY <1>1, <1>2

\* The count of faults never falls.
LEMMA FaultsStay ==
    ASSUME TypeOK, [Next]_vars, faults' = 0
    PROVE  faults = 0
  <1>1. CASE UNCHANGED vars
    BY <1>1 DEF vars
  <1>2. faults \in Nat
    BY ConstantsAssumption DEF TypeOK, ConstantsAssumption
  <1>3. CASE Next
    <2>1. faults' = faults \/ faults' = faults + 1
      BY <1>3, StepCases
         DEF Creates, OrphanRun, Push, PushFails, Sync, GateFails, GateRaises, GateRow, EndRow,
             Deliver, PostLost, Publish, Cancel, Read, Retry, Claim, ForeignRequeue, Ack,
             PostRunning, PostVerdict, LastStatus, PostAborted, PostTimeout, JobAbort,
             PipelineRaises, WorkerCrash, ApiRestart, Post, Faulted
    <2> QED BY <1>2, <2>1
  <1> QED BY <1>1, <1>3

\* While nothing has failed the calm invariant holds.
LEMMA CalmAlways ==
    ASSUME "publish" \notin Requests
    PROVE  Spec => [](SafeInv /\ (faults = 0 => CalmInv))
  <1>1. Init => (faults = 0 => CalmInv)
    BY CalmInit
  <1>2. SafeInv /\ (faults = 0 => CalmInv) /\ [Next]_vars => (faults = 0 => CalmInv)'
    BY CalmStep, FaultsStay DEF SafeInv, TInv
  <1>3. IInv => SafeInv
    BY DEF IInv, SafeInv
  <1> QED BY <1>1, <1>2, <1>3, InductiveInvariant, PTL DEF Spec

\* As long as nothing fails and no other client publishes events, every job that has not
\* ended is carried by a handler, the list or a worker: no interleaving of creations,
\* pushes, claims, cancels and retries loses one.
THEOREM NoJobLost ==
    ASSUME "publish" \notin Requests
    PROVE  Spec => []OpenJobCarried
  <1>1. SafeInv /\ (faults = 0 => CalmInv) => OpenJobCarried
    BY DEF CalmInv, OpenJobCarried, IsCarried
  <1> QED BY <1>1, CalmAlways, PTL

\* As long as nothing fails and only workers publish, the row of a run whose handlers are
\* done is the status of one of its jobs, unless a cancel or a retry raced with another
\* event of the run.
THEOREM RowsErrByRace == Spec => []RowErrsByRaceOnly
  <1>1. ASSUME SafeInv, CalmInv PROVE RowErrsByRaceOnly
    <2>1. ASSUME NEW r \in Runs, Mine(r) # {}, \A j \in Mine(r) : Settled(j)
          PROVE  \/ row[r] \in {db[j].status : j \in Mine(r)}
                 \/ "cancelled" \in {row[r]} \cup {db[j].status : j \in Mine(r)}
                 \/ row[r] = "queued" /\ \E j, k \in Mine(r) : j # k
      <3>1. rowType[r] \in MirroredTypes
        BY <2>1 DEF Mine, HasRow
      <3>2. ~ \E c \in calls : Handling(c) /\ c.job \in Mine(r)
        BY <2>1 DEF Settled
      <3> QED BY <1>1, <2>1, <3>1, <3>2 DEF CalmInv, RowFollows
    <2> QED BY <2>1 DEF RowErrsByRaceOnly
  <1>2. CASE "publish" \notin Requests
    <2>1. SafeInv /\ (faults = 0 => CalmInv) => RowErrsByRaceOnly
      BY <1>1 DEF RowErrsByRaceOnly
    <2>2. Spec => [](SafeInv /\ (faults = 0 => CalmInv))
      BY <1>2, CalmAlways
    <2> QED BY <2>1, <2>2, PTL
  <1>3. CASE "publish" \in Requests
    <2>1. SafeInv => RowErrsByRaceOnly
      BY <1>3 DEF RowErrsByRaceOnly
    <2>2. IInv => SafeInv
      BY DEF IInv, SafeInv
    <2> QED BY <2>1, <2>2, InductiveInvariant, PTL
  <1> QED BY <1>2, <1>3

\* Only a worker's last posts write to a job that has failed or succeeded.
LEMMA EndedStays ==
    ASSUME "publish" \notin Requests, SafeInv, CalmInv, [Next]_vars, faults' = 0,
           NEW j \in Jobs, db[j].status \in Ending
    PROVE  db'[j].status \in Ending
  <1> USE DEF SafeInv, TInv, TypeOK
  <1>2. jobType[j] # "none"
    BY DEF OwnerInv, Untouched, Ending, NoEvent, Event
  <1>3. ASSUME NEW k \in Jobs, NEW t \in JobTypes, NEW e \in EventSet, Creates(k, t, e)
        PROVE  db'[j] = db[j]
    BY <1>2, <1>3 DEF Creates, Mint, Record
  <1>4. ASSUME NEW i \in Jobs, NEW k \in Jobs, Retry(i, k) PROVE db'[j] = db[j]
    BY <1>2, <1>4 DEF Retry, Mint
  <1>5. ASSUME NEW r \in Runs, NEW t \in RowTypes, OrphanRun(r, t) PROVE db' = db
    BY <1>5 DEF OrphanRun
  <1>6. ASSUME NEW c \in calls, GateFails(c) PROVE db'[j].status \in Ending
    <2>1. db'[j] \in {db[j], Event("failed", c.run, c.type)}
      BY <1>6 DEF GateFails, Record
    <2> QED BY <2>1 DEF Event, Ending
  <1>7. ASSUME NEW p \in posts, Deliver(p) PROVE db'[j].status \in Ending
    <2>1. CASE p.job # j
      BY <1>7, <2>1 DEF Deliver, Record
    <2>2. CASE p.job = j
      <3>1. PICK w \in Workers : Waits(w, j, p.n, p.status)
        BY <2>2 DEF CalmInv, OneUnderWay
      <3>2. worker[w].pc \in {"final", "last"}
        BY <3>1, WaiterHolds DEF CalmInv, EndsLast, Waits
      <3>3. p.status \in Ending
        BY <3>1, <3>2 DEF Waits
      <3> QED BY <1>7, <2>2, <3>3 DEF Deliver, Record, Updated, Event
    <2> QED BY <2>1, <2>2
  <1>8. ASSUME NEW k \in Jobs, Cancel(k) PROVE db'[j] = db[j]
    <2>1. k # j
      BY <1>8, ExistingIsLog DEF Cancel, CancelableStates, Ending
    <2> QED BY <1>8, <2>1 DEF Cancel, Record
  <1>9. ASSUME NEW c \in calls, Push(c) \/ Sync(c) \/ GateRaises(c) \/ GateRow(c) \/ EndRow(c)
        PROVE  db' = db
    BY <1>9 DEF Push, Sync, GateRaises, GateRow, EndRow
  <1>10. ASSUME NEW w \in Workers,
                \/ Claim(w) \/ ForeignRequeue(w) \/ Ack(w)
                \/ PostRunning(w) \/ PostVerdict(w) \/ PostAborted(w)
                \/ PipelineRaises(w)
         PROVE  db' = db
    BY <1>10 DEF Claim, ForeignRequeue, Ack, PostRunning, PostVerdict, LastStatus, PostAborted,
                 PipelineRaises, Post
  <1>11. ASSUME NEW k \in Jobs, Read(k) PROVE db' = db
    BY <1>11 DEF Read
  <1>12. CASE UNCHANGED vars
    BY <1>12 DEF vars
  <1>13. CASE Next
    BY <1>3, <1>4, <1>5, <1>6, <1>7, <1>8, <1>9, <1>10, <1>11, <1>13, CalmCases
  <1> QED BY <1>12, <1>13

\* A job that has failed or succeeded in the log never goes back to an open status: the
\* posts of a worker reach the log in the order of the pipeline, whatever the other handlers
\* and workers do in between.
THEOREM NoJobStepsBack ==
    ASSUME "publish" \notin Requests
    PROVE  Spec => NoStepBack
  <1>1. SafeInv /\ (faults = 0 => CalmInv) /\ [Next]_vars =>
          [faults' = 0 => \A j \in Jobs :
             db[j].status \in {"success", "failed"} => db'[j].status \in {"success", "failed"}]_vars
    BY EndedStays, FaultsStay DEF SafeInv, TInv, Ending
  <1> QED BY <1>1, CalmAlways, PTL DEF Spec, NoStepBack

-----------------------------------------------------------------------------
(* The gate decides every success. *)

\* Every step keeps SuccessDecided: what makes an event a success leaves a handler behind,
\* and only the gate ends that one.
LEMMA DecidedStep ==
    ASSUME SafeInv, SuccessDecided, [Next]_vars
    PROVE  SuccessDecided'
  <1> DEFINE Of(c, j) == /\ c.at = "sync" /\ c.job = j /\ c.status = "success"
                         /\ c.run = db[j].run /\ c.type = db[j].type
             Decided(j) == \/ <<j, db[j].run>> \in passed \cup raised
                          \/ \E c \in calls : Of(c, j)
             Asked(j) == db[j].status = "success" /\ db[j].type \in GatedTypes /\ HasRow(db[j])
  <1>1. SUFFICES ASSUME faults' = 0, NEW j \in Jobs, Asked(j)'
                 PROVE  Decided(j)'
    BY DEF SuccessDecided
  <1>2. faults = 0
    BY <1>1, FaultsStay DEF SafeInv, TInv
  <1>3. \A kind : ~Faulted(kind)
    BY <1>1, NoFault DEF SafeInv, TInv, TypeOK
  <1>4. Asked(j) => Decided(j)
    BY <1>2 DEF SuccessDecided
  <1> USE DEF SafeInv, TInv, TypeOK
  <1>5. ASSUME UNCHANGED rowType, db'[j] = db[j], passed \subseteq passed', raised \subseteq raised',
               \A c \in calls : Of(c, j) => c \in calls'
        PROVE  Decided(j)'
    BY <1>1, <1>4, <1>5 DEF HasRow
  <1>6. ASSUME db'[j] = db[j], UNCHANGED gated, calls \subseteq calls',
               NEW q \in Runs, NEW u, AddRow(q, u)
        PROVE  Decided(j)'
    <2>1. db[j].run \in Runs /\ db[j].run # q
      BY <1>1, <1>6 DEF AddRow, Fresh, HasRow
    <2>2. rowType'[db[j].run] = rowType[db[j].run]
      BY <1>6, <2>1 DEF AddRow
    <2>3. Asked(j)
      BY <1>1, <1>6, <2>2 DEF HasRow
    <2> QED BY <1>4, <1>6, <2>3 DEF gated
  <1>7. ASSUME NEW k \in Jobs, NEW t, NEW e \in EventSet, Creates(k, t, e)
        PROVE  Decided(j)'
    <2>1. db'[k] = e /\ e.status = "queued"
      BY <1>7 DEF Creates, Record
    <2>2. db'[j] = db[j] /\ UNCHANGED gated /\ calls \subseteq calls'
      BY <1>1, <1>7, <2>1 DEF Creates, Record
    <2>3. CASE UNCHANGED rowType
      BY <1>5, <2>2, <2>3 DEF gated
    <2>4. CASE e.run \in Runs /\ AddRow(e.run, "parameter_sweep")
      BY <1>6, <2>2, <2>4
    <2> QED BY <1>7, <2>3, <2>4 DEF Creates
  <1>8. ASSUME NEW i \in Jobs, NEW k \in Jobs, Retry(i, k)
        PROVE  Decided(j)'
    <2>1. PICK t \in JobTypes \cup {"none"}, e \in EventSet : Retries(i, k, t, e)
      BY <1>8, RetryFacts
    <2>2. db' = [db EXCEPT ![k] = e] /\ e.status = "queued"
      BY <2>1 DEF Retries
    <2>3. /\ UNCHANGED <<gated, rowType>> /\ calls \subseteq calls'
          /\ db'[j] = db[j]
      BY <1>1, <2>1, <2>2 DEF Retries, rows, gated
    <2> QED BY <1>5, <2>3 DEF gated
  <1>18. ASSUME NEW q \in Runs, NEW t \in RowTypes, OrphanRun(q, t)
         PROVE  Decided(j)'
    <2>1. db' = db /\ UNCHANGED gated /\ calls' = calls /\ AddRow(q, t)
      BY <1>18 DEF OrphanRun
    <2> QED BY <1>6, <2>1
  <1>9. ASSUME NEW c \in calls,
               \/ Push(c) \/ Sync(c) \/ GateFails(c) \/ GateRaises(c) \/ GateRow(c) \/ EndRow(c)
        PROVE  Decided(j)'
    <2>1. /\ c.job \in Jobs /\ UNCHANGED rowType
          /\ passed \subseteq passed' /\ raised \subseteq raised' /\ calls \ {c} \subseteq calls'
      BY <1>9 DEF Push, Sync, GateFails, GateRaises, GateRow, EndRow, rows, gated, CallSet
    <2>2. CASE Push(c) \/ GateRow(c) \/ EndRow(c)
      <3>1. c.at # "sync" /\ db' = db
        BY <2>2 DEF Push, GateRow, EndRow
      <3> QED BY <1>5, <2>1, <3>1
    <2>3. CASE Sync(c) \/ GateRaises(c)
      <3>1. db' = db
        BY <2>3 DEF Sync, GateRaises
      <3>2. CASE Of(c, j)
        <4>1. NeedsGate(c)
          BY <1>1, <2>1, <3>1, <3>2 DEF NeedsGate, HasRow
        <4>2. <<j, db'[j].run>> \in passed' \cup raised'
          BY <2>3, <3>1, <3>2, <4>1 DEF Sync, GateRaises
        <4> QED BY <4>2
      <3>3. CASE ~Of(c, j)
        BY <1>5, <2>1, <3>1, <3>3
      <3> QED BY <3>2, <3>3
    <2>4. CASE GateFails(c)
      <3>1. c.job # j /\ db'[j] = db[j]
        BY <1>1, <2>1, <2>4 DEF GateFails, Record, Event
      <3> QED BY <1>5, <2>1, <3>1
    <2> QED BY <1>9, <2>2, <2>3, <2>4
  <1>10. ASSUME NEW k \in Jobs, NEW n, NEW e, NEW v, Record(k, e),
                UNCHANGED <<rowType, gated>>,
                calls' = calls \cup {Call("sync", k, n, e, v)}
         PROVE  Decided(j)'
    <2>1. CASE k = j
      <3>1. PICK d : d = Call("sync", k, n, e, v)
        OBVIOUS
      <3>2. /\ d.at = "sync" /\ d.job = k /\ d.status = e.status /\ d.run = e.run /\ d.type = e.type
            /\ d \in calls'
        BY <1>10, <3>1 DEF Call
      <3>3. db'[j] = e /\ e.status = "success"
        BY <1>1, <1>10, <2>1 DEF Record
      <3> QED BY <2>1, <3>2, <3>3
    <2>2. CASE k # j
      BY <1>5, <1>10, <2>2 DEF Record, gated
    <2> QED BY <2>1, <2>2
  <1>11. ASSUME NEW p \in posts, Deliver(p)
         PROVE  Decided(j)'
    <2>1. p.job \in Jobs /\ UNCHANGED <<rowType, gated>>
      BY <1>11, PostFacts DEF Deliver, rows, gated
    <2>2. CASE UNCHANGED <<db, calls>>
      BY <1>5, <2>1, <2>2 DEF gated
    <2>3. CASE ~UNCHANGED <<db, calls>>
      <3>1. PICK e : /\ Record(p.job, e)
                     /\ calls' = calls \cup {Call("sync", p.job, p.n, e, "none")}
        BY <1>11, <2>3 DEF Deliver
      <3> QED BY <1>10, <2>1, <3>1
    <2> QED BY <2>2, <2>3
  <1>12. ASSUME NEW k \in Jobs, NEW s, NEW o, NEW v, Publish(k, s, o, v)
         PROVE  Decided(j)'
    <2>1. PICK e : /\ Record(k, e)
                   /\ calls' = calls \cup {Call("sync", k, Ticket, e, v)}
      BY <1>12 DEF Publish
    <2>2. UNCHANGED <<rowType, gated>>
      BY <1>12 DEF Publish, rows, gated
    <2> QED BY <1>10, <2>1, <2>2
  <1>13. ASSUME NEW k \in Jobs, Cancel(k) \/ Read(k)
         PROVE  Decided(j)'
    <2>1. UNCHANGED <<rowType, gated>> /\ calls \subseteq calls'
      BY <1>13 DEF Cancel, Read, rows, gated
    <2>2. db'[j] = db[j]
      <3>1. Existing(k) \in EventSet
        BY ExistingType
      <3>2. [Existing(k) EXCEPT !.status = "cancelled"].status = "cancelled"
        BY <3>1 DEF EventSet
      <3> QED BY <1>1, <1>13, <3>2 DEF Cancel, Read, Record
    <2> QED BY <1>5, <2>1, <2>2 DEF gated
  <1>14. ASSUME NEW w \in Workers,
                \/ Claim(w) \/ ForeignRequeue(w) \/ Ack(w)
                \/ PostRunning(w) \/ PostVerdict(w) \/ PostAborted(w)
                \/ PipelineRaises(w)
         PROVE  Decided(j)'
    <2>1. UNCHANGED <<db, rowType, passed, raised, calls>>
      BY <1>14 DEF Claim, ForeignRequeue, Ack, PostRunning, PostVerdict, LastStatus, PostAborted,
                   PipelineRaises, Post, rows
    <2> QED BY <1>5, <2>1
  <1>15. CASE UNCHANGED vars
    BY <1>5, <1>15 DEF vars
  <1>16. /\ \A c : ~PushFails(c)
         /\ \A p : ~PostLost(p)
         /\ \A w : ~PostTimeout(w) /\ ~JobAbort(w) /\ ~WorkerCrash(w)
         /\ ~ApiRestart
    BY <1>3 DEF PushFails, PostLost, PostTimeout, JobAbort, WorkerCrash, ApiRestart
  <1> HIDE DEF Decided
  <1>17. CASE Next
    <2>1. CASE \E k \in Jobs, t \in JobTypes, e \in EventSet : Creates(k, t, e)
      BY <1>7, <2>1
    <2>2. CASE \E c \in calls : \/ Push(c) \/ Sync(c) \/ GateFails(c) \/ GateRaises(c)
                                \/ GateRow(c) \/ EndRow(c)
      BY <1>9, <2>2
    <2> QED BY <1>8, <1>11, <1>12, <1>13, <1>14, <1>16, <1>17, <1>18, <2>1, <2>2, StepCases
  <1> QED BY <1>15, <1>17

\* As long as nothing fails, a success in the log of a gated run has passed the gate for
\* that run, or its handler is still to decide, or its evidence made the gate raise; whoever
\* publishes, whichever run is named, and in whatever order.
THEOREM SuccessAlwaysDecided == Spec => []SuccessDecided
  <1>1. Init => SuccessDecided
    BY DEF Init, SuccessDecided, NoEvent, Event
  <1>2. IInv /\ SuccessDecided /\ [Next]_vars => SuccessDecided'
    BY DecidedStep DEF IInv, SafeInv
  <1> QED BY <1>1, <1>2, InductiveInvariant, PTL DEF Spec
=============================================================================
