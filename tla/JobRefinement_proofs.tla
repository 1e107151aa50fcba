----------------------- MODULE JobRefinement_proofs -----------------------
(***************************************************************************)
(* JobLifecycle implements JobDelivery, for every number of jobs, runs,    *)
(* workers, stages, requests and faults.                                   *)
(***************************************************************************)
EXTENDS JobRefinement, JobLifecycle_proofs

\* What a step is checked from: types, and one owner for each envelope.
Carried == TInv /\ OwnerInv

Place == [j \in Jobs |-> PlaceOf(j)]
Started == {j \in Jobs : attempts[j] > 0}

\* What the abstract specification says of a step, with its variables replaced.
StepsFrom(j, p, q) ==
    PlaceOf(j) = p /\ Place' = [Place EXCEPT ![j] = q]

LEMMA CarriedAlways == Spec => []Carried
<1>1. Carried <=> TInv /\ OwnerInv
  BY DEF Carried
<1> QED BY <1>1, OwnerAlways, PTL

\* A place follows from four facts about the envelope.
LEMMA PlaceRests ==
    ASSUME NEW k \in Jobs,
           Pushing(k)' <=> Pushing(k), InQueue(k)' <=> InQueue(k),
           \A w \in Workers : HeldBy(w, k)' <=> HeldBy(w, k), jobType'[k] = jobType[k]
    PROVE  PlaceOf(k)' = PlaceOf(k)
BY DEF PlaceOf

\* One envelope goes from one place to another, and the others rest.
LEMMA OneMoves ==
    ASSUME NEW j \in Jobs, NEW p, NEW q, PlaceOf(j) = p, PlaceOf(j)' = q,
           \A k \in Jobs \ {j} : PlaceOf(k)' = PlaceOf(k)
    PROVE  StepsFrom(j, p, q)
BY DEF StepsFrom, Place

LEMMA MintRefines ==
    ASSUME Carried, NEW j \in Jobs, jobType[j] = "none", jobType'[j] # "none",
           \A k \in Jobs : k # j => jobType'[k] = jobType[k],
           NEW c, c.job = j, PushingCalls' = PushingCalls \cup {c},
           UNCHANGED <<queue, attempts, worker>>
    PROVE  StepsFrom(j, "unborn", "handler") /\ Started' = Started
<1>1. ~InQueue(j) /\ ~Pushing(j) /\ \A w \in Workers : ~HeldBy(w, j)
  BY DEF Carried, OwnerInv, Untouched, Pushing, PushingCalls
<1>2. PlaceOf(j) = "unborn" /\ PlaceOf(j)' = "handler"
  BY <1>1 DEF PlaceOf, Pushing
<1>3. \A k \in Jobs \ {j} : PlaceOf(k)' = PlaceOf(k)
  <2> SUFFICES ASSUME NEW k \in Jobs \ {j} PROVE PlaceOf(k)' = PlaceOf(k)
    OBVIOUS
  <2>1. /\ Pushing(k)' <=> Pushing(k)
        /\ InQueue(k)' <=> InQueue(k)
        /\ \A w \in Workers : HeldBy(w, k)' <=> HeldBy(w, k)
    BY DEF Pushing, InQueue, HeldBy
  <2> QED BY <2>1, PlaceRests
<1> QED BY <1>2, <1>3, OneMoves DEF Started

LEMMA PushRefines ==
    ASSUME Carried, NEW c \in calls, Push(c)
    PROVE  c.job \in Jobs /\ StepsFrom(c.job, "handler", "list") /\ Started' = Started
<1>1. c \in PushingCalls /\ c.job \in Jobs /\ queue \in Seq(Jobs)
  BY DEF Push, PushingCalls, Carried, TInv, TypeOK, CallSet
<1>2. PushingCalls' = PushingCalls \ {c}
  BY DEF Push, PushingCalls, Carried, TInv, TypeOK, CallSet
<1>3. queue' = Append(queue, c.job) /\ UNCHANGED <<attempts, worker, jobType>>
  BY DEF Push, minted
<1>4. Pushing(c.job) /\ ~Pushing(c.job)' /\ InQueue(c.job)'
  BY <1>1, <1>2, <1>3, InQueueAppend DEF Pushing, Carried, OwnerInv, SingleOwner
<1>5. PlaceOf(c.job) = "handler" /\ PlaceOf(c.job)' = "list"
  BY <1>4 DEF PlaceOf
<1>6. \A k \in Jobs \ {c.job} : PlaceOf(k)' = PlaceOf(k)
  <2> SUFFICES ASSUME NEW k \in Jobs \ {c.job} PROVE PlaceOf(k)' = PlaceOf(k)
    OBVIOUS
  <2>1. Pushing(k)' <=> Pushing(k)
    BY <1>2 DEF Pushing
  <2>2. InQueue(k)' <=> InQueue(k)
    BY <1>1, <1>3, InQueueAppend
  <2>3. jobType'[k] = jobType[k] /\ \A w \in Workers : HeldBy(w, k)' <=> HeldBy(w, k)
    BY <1>3 DEF HeldBy
  <2> QED BY <2>1, <2>2, <2>3, PlaceRests
<1> QED BY <1>1, <1>3, <1>5, <1>6, OneMoves DEF Started

LEMMA ClaimRefines ==
    ASSUME Carried, NEW w \in Workers, Claim(w)
    PROVE  \E j \in Jobs : /\ StepsFrom(j, "list", "worker")
                           /\ Started' = Started \/ Started' = Started \cup {j}
<1>0. PICK j \in Jobs : j = Head(queue)
  BY DEF Claim, Carried, TInv, TypeOK
<1>1. queue \in Seq(Jobs) /\ queue # << >> /\ j = Head(queue) /\ queue' = Tail(queue)
  BY <1>0 DEF Claim, Carried, TInv, TypeOK
<1>2. UNCHANGED <<calls, jobType>> /\ worker[w].pc = "idle"
  BY DEF Claim, minted
<1>3. PICK pc \in {"foreign", "run", "abort"} :
        /\ worker' = [worker EXCEPT ![w] = [pc |-> pc, job |-> j, n |-> 0]]
        /\ \/ attempts' = attempts
           \/ attempts' = [attempts EXCEPT ![j] = attempts[j] + 1]
  BY <1>1 DEF Claim
<1>4. InQueue(j)
  BY <1>1, QueueFacts DEF InQueue
<1>5. ~Pushing(j)
  BY <1>1, <1>4 DEF Carried, OwnerInv, SingleOwner
<1>6. \A k \in Jobs : InQueue(k)' <=> InQueue(k) /\ k # j
  <2> SUFFICES ASSUME NEW k \in Jobs PROVE InQueue(k)' <=> InQueue(k) /\ k # j
    OBVIOUS
  <2>1. InQueue(k)' => InQueue(k) /\ k # j
    BY <1>1, QueueFacts DEF InQueue, Carried, OwnerInv, SingleOwner
  <2>2. ASSUME InQueue(k), k # j PROVE InQueue(k)'
    <3>1. PICK i \in DOMAIN queue : queue[i] = k
      BY <2>2 DEF InQueue
    <3>2. i # 1 /\ i - 1 \in DOMAIN Tail(queue) /\ Tail(queue)[i - 1] = queue[i]
      BY <1>1, <2>2, <3>1, QueueFacts
    <3> QED BY <1>1, <3>1, <3>2 DEF InQueue
  <2> QED BY <2>1, <2>2
<1>7. /\ HeldBy(w, j)'
      /\ \A k \in Jobs \ {j}, v \in Workers : HeldBy(v, k)' <=> HeldBy(v, k)
  BY <1>2, <1>3 DEF HeldBy, Carried, TInv, TypeOK
<1>8. \A k \in Jobs : (Pushing(k)' <=> Pushing(k)) /\ jobType'[k] = jobType[k]
  BY <1>2 DEF Pushing, PushingCalls
<1>9. PlaceOf(j) = "list" /\ PlaceOf(j)' = "worker"
  BY <1>1, <1>4, <1>5, <1>6, <1>7, <1>8 DEF PlaceOf
<1>10. \A k \in Jobs \ {j} : PlaceOf(k)' = PlaceOf(k)
  BY <1>6, <1>7, <1>8, PlaceRests
<1>11. Started' = Started \/ Started' = Started \cup {j}
  <2>1. attempts \in [Jobs -> Nat]
    BY DEF Carried, TInv, TypeOK
  <2> QED BY <1>1, <1>3, <2>1 DEF Started
<1> QED BY <1>1, <1>9, <1>10, <1>11, OneMoves

LEMMA RequeueRefines ==
    ASSUME Carried, NEW w \in Workers, ForeignRequeue(w)
    PROVE  \E j \in Jobs : /\ StepsFrom(j, "worker", "list") /\ j \notin Started
                           /\ Started' = Started
<1>0. PICK j \in Jobs : j = worker[w].job
  BY DEF ForeignRequeue, Carried, TInv, WorkerCounts
<1>1. queue \in Seq(Jobs) /\ HeldBy(w, j) /\ worker[w].pc = "foreign"
  BY <1>0 DEF ForeignRequeue, Carried, TInv, TypeOK, HeldBy
<1>2. /\ queue' = Append(queue, j) /\ UNCHANGED <<attempts, calls, jobType>>
      /\ worker' = [worker EXCEPT ![w] = Idle]
  BY <1>0 DEF ForeignRequeue, Free, minted
<1>3. /\ ~InQueue(j) /\ ~Pushing(j)
      /\ \A v \in Workers, k \in Jobs : HeldBy(v, k)' <=> HeldBy(v, k) /\ v # w
  BY <1>1, <1>2 DEF Carried, OwnerInv, SingleOwner, HeldBy, Idle, TInv, TypeOK
<1>4. j \notin Started
  BY <1>1 DEF Started, Carried, OwnerInv, StartedIsGone
<1>5. \A k \in Jobs : InQueue(k)' <=> (InQueue(k) \/ k = j)
  BY <1>1, <1>2, InQueueAppend
<1>6. \A k \in Jobs : (Pushing(k)' <=> Pushing(k)) /\ jobType'[k] = jobType[k]
  BY <1>2 DEF Pushing, PushingCalls
<1>7. PlaceOf(j) = "worker" /\ PlaceOf(j)' = "list"
  BY <1>1, <1>3, <1>5, <1>6 DEF PlaceOf
<1>8. \A k \in Jobs \ {j} : PlaceOf(k)' = PlaceOf(k)
  <2> SUFFICES ASSUME NEW k \in Jobs \ {j} PROVE PlaceOf(k)' = PlaceOf(k)
    OBVIOUS
  <2>1. ~HeldBy(w, k)
    BY <1>1 DEF HeldBy
  <2> QED BY <1>3, <1>5, <1>6, <2>1, PlaceRests
<1> QED BY <1>1, <1>2, <1>4, <1>7, <1>8, OneMoves DEF Started

\* Where no envelope moves, some may leave handlers and workers.
LEMMA RestRefines ==
    ASSUME Carried, EnvelopesRest, UNCHANGED jobType
    PROVE  /\ \A k \in Jobs : \/ PlaceOf(k)' = PlaceOf(k)
                              \/ PlaceOf(k) \in {"handler", "worker"} /\ PlaceOf(k)' = "gone"
           /\ Started' = Started
<1> SUFFICES ASSUME NEW k \in Jobs
             PROVE  \/ PlaceOf(k)' = PlaceOf(k)
                    \/ PlaceOf(k) \in {"handler", "worker"} /\ PlaceOf(k)' = "gone"
  BY DEF Started, EnvelopesRest
<1>1. /\ InQueue(k)' <=> InQueue(k)
      /\ Pushing(k)' => Pushing(k)
      /\ \A w \in Workers : HeldBy(w, k)' => HeldBy(w, k)
      /\ jobType'[k] = jobType[k]
  BY DEF EnvelopesRest, InQueue, Pushing
<1>2. jobType[k] = "none" => ~Pushing(k) /\ \A w \in Workers : ~HeldBy(w, k)
  BY DEF Carried, OwnerInv, Untouched, Pushing, PushingCalls
<1>3. Pushing(k) => ~InQueue(k) /\ \A w \in Workers : ~HeldBy(w, k)
  BY DEF Carried, OwnerInv, SingleOwner
<1> QED BY <1>1, <1>2, <1>3 DEF PlaceOf

LEMMA OtherStepsKeepTypes ==
    ASSUME \/ \E c \in calls : PushFails(c) \/ Sync(c) \/ GateFails(c) \/ GateRaises(c) \/ GateRow(c) \/ EndRow(c)
           \/ \E p \in posts : Deliver(p) \/ PostLost(p)
           \/ \E j \in Jobs, s \in Status, o \in Overrides, v \in Evidence : Publish(j, s, o, v)
           \/ \E j \in Jobs : Cancel(j) \/ Read(j)
           \/ \E r \in Runs, t \in RowTypes : OrphanRun(r, t)
           \/ \E w \in Workers : \/ Ack(w) \/ PostRunning(w) \/ PostVerdict(w)
                                \/ PostAborted(w) \/ PostTimeout(w) \/ JobAbort(w) \/ PipelineRaises(w) \/ WorkerCrash(w)
           \/ ApiRestart
           \/ UNCHANGED vars
    PROVE  UNCHANGED jobType
BY DEF PushFails, Sync, GateFails, GateRaises, GateRow, EndRow, Deliver, PostLost, Publish,
       Cancel, Read, OrphanRun, Ack, PostRunning, PostVerdict, LastStatus, PostAborted,
       PostTimeout, JobAbort, PipelineRaises, WorkerCrash, Post, ApiRestart, minted, vars

-----------------------------------------------------------------------------
(* The abstract actions. *)

LEMMA InitRefines == Init => Delivery!DeliveryInit
<1> SUFFICES ASSUME Init PROVE Delivery!DeliveryInit
  OBVIOUS
<1>1. \A j \in Jobs : PlaceOf(j) = "unborn" /\ attempts[j] = 0
  BY DEF Init, PlaceOf, Pushing, PushingCalls, InQueue, HeldBy, Idle
<1> QED BY <1>1 DEF Delivery!DeliveryInit

\* A step of one envelope is one of the abstract steps.
LEMMA MoveRefines ==
    ASSUME NEW j \in Jobs,
           \/ StepsFrom(j, "unborn", "handler") /\ Started' = Started
           \/ StepsFrom(j, "handler", "list") /\ Started' = Started
           \/ /\ StepsFrom(j, "list", "worker")
              /\ Started' = Started \/ Started' = Started \cup {j}
           \/ StepsFrom(j, "worker", "list") /\ j \notin Started /\ Started' = Started
    PROVE  Delivery!DeliveryNext
BY DEF StepsFrom, Place, Started, Delivery!DeliveryNext, Delivery!Accept, Delivery!HandOver,
       Delivery!Take, Delivery!PutBack

LEMMA LeaveRefines ==
    ASSUME \A k \in Jobs : \/ PlaceOf(k)' = PlaceOf(k)
                           \/ PlaceOf(k) \in {"handler", "worker"} /\ PlaceOf(k)' = "gone",
           Started' = Started
    PROVE  Delivery!DeliveryNext
<1>1. PICK js \in SUBSET Jobs :
        \A k \in Jobs : /\ k \in js => PlaceOf(k) \in {"handler", "worker"} /\ PlaceOf(k)' = "gone"
                        /\ k \notin js => PlaceOf(k)' = PlaceOf(k)
  <2> DEFINE left == {k \in Jobs : PlaceOf(k) \in {"handler", "worker"} /\ PlaceOf(k)' = "gone"}
  <2>1. left \in SUBSET Jobs
    OBVIOUS
  <2> QED BY <2>1
<1>2. Delivery!Leave(js)
  BY <1>1 DEF Delivery!Leave, Started
<1> QED BY <1>2 DEF Delivery!DeliveryNext

LEMMA StepRefines ==
    ASSUME Carried, [Next]_vars
    PROVE  [Delivery!DeliveryNext]_(Delivery!deliveryVars)
<1>1. ASSUME NEW j \in Jobs, NEW t \in JobTypes, NEW e \in EventSet, Creates(j, t, e)
      PROVE  Delivery!DeliveryNext
  <2>1. PushingCalls' = PushingCalls \cup {Call("push", j, Ticket, e, "none")}
    BY <1>1 DEF Creates, PushingCalls, Call
  <2>2. jobType[j] = "none" /\ jobType' = [jobType EXCEPT ![j] = t]
    BY <1>1 DEF Creates, Mint
  <2>3. UNCHANGED <<queue, attempts, worker>>
    BY <1>1 DEF Creates
  <2>4. /\ jobType'[j] # "none" /\ \A k \in Jobs : k # j => jobType'[k] = jobType[k]
        /\ Call("push", j, Ticket, e, "none").job = j
    BY <2>2 DEF Carried, TInv, TypeOK, JobTypes, Call
  <2>5. StepsFrom(j, "unborn", "handler") /\ Started' = Started
    BY <2>1, <2>2, <2>3, <2>4, MintRefines
  <2> QED BY <2>5, MoveRefines
<1>2. ASSUME NEW i \in Jobs, NEW j \in Jobs, Retry(i, j)
      PROVE  Delivery!DeliveryNext
  <2>1. PICK t \in JobTypes \cup {"none"}, e \in EventSet : Retries(i, j, t, e)
    BY <1>2, RetryFacts DEF Carried, TInv
  <2>2. PushingCalls' = PushingCalls \cup {Call("push_retry", j, Ticket, e, "none")}
    BY <2>1 DEF Retries, PushingCalls, Call
  <2>3. jobType[j] = "none" /\ jobType' = [jobType EXCEPT ![j] = t]
    BY <2>1 DEF Retries, Mint
  <2>4. t # "none"
    <3>1. jobType[i] # "none"
      BY <2>1 DEF Retries, Existing, RetryableStates, NoEvent, Event, Carried, OwnerInv, Untouched
    <3>2. <<t, e.run, e.type>> \in Provenance(i)
      BY <2>1 DEF Retries
    <3> QED BY <3>1, <3>2 DEF Provenance
  <2>5. UNCHANGED <<queue, attempts, worker>>
    BY <2>1 DEF Retries
  <2>6. /\ jobType'[j] # "none" /\ \A k \in Jobs : k # j => jobType'[k] = jobType[k]
        /\ Call("push_retry", j, Ticket, e, "none").job = j
    BY <2>3, <2>4 DEF Carried, TInv, TypeOK, Call
  <2>7. StepsFrom(j, "unborn", "handler") /\ Started' = Started
    BY <2>2, <2>3, <2>5, <2>6, MintRefines
  <2> QED BY <2>7, MoveRefines
<1>4. ASSUME NEW c \in calls, Push(c)
      PROVE  Delivery!DeliveryNext
  BY <1>4, PushRefines, MoveRefines
<1>5. ASSUME NEW w \in Workers, Claim(w) \/ ForeignRequeue(w)
      PROVE  Delivery!DeliveryNext
  BY <1>5, ClaimRefines, RequeueRefines, MoveRefines
<1>6. ASSUME \/ \E c \in calls : PushFails(c) \/ Sync(c) \/ GateFails(c) \/ GateRaises(c) \/ GateRow(c) \/ EndRow(c)
             \/ \E p \in posts : Deliver(p) \/ PostLost(p)
             \/ \E j \in Jobs, s \in Status, o \in Overrides, v \in Evidence : Publish(j, s, o, v)
             \/ \E j \in Jobs : Cancel(j) \/ Read(j)
             \/ \E r \in Runs, t \in RowTypes : OrphanRun(r, t)
             \/ \E w \in Workers : \/ Ack(w) \/ PostRunning(w) \/ PostVerdict(w)
                                  \/ PostAborted(w) \/ PostTimeout(w) \/ JobAbort(w) \/ PipelineRaises(w) \/ WorkerCrash(w)
             \/ ApiRestart
             \/ UNCHANGED vars
      PROVE  Delivery!DeliveryNext
  <2>1. EnvelopesRest /\ UNCHANGED jobType
    BY <1>6, OtherStepsRest, OtherStepsKeepTypes DEF Carried
  <2> QED BY <2>1, RestRefines, LeaveRefines
<1>7. CASE Next
  BY <1>1, <1>2, <1>4, <1>5, <1>6, <1>7, StepCases
<1> QED BY <1>6, <1>7

\* Every behaviour of the job system, with any faults, is one of JobDelivery.
THEOREM ImplementsDelivery == Spec => DeliversAtMostOnce
<1>1. Carried /\ [Next]_vars => [Delivery!DeliveryNext]_(Delivery!deliveryVars)
  BY StepRefines
<1> QED BY <1>1, InitRefines, CarriedAlways, PTL DEF Spec, DeliversAtMostOnce, Delivery!DeliverySpec
=============================================================================
