------------------------ MODULE UploadPipelineProofs ------------------------
(***************************************************************************)
(* The safety properties of UploadPipeline for any number of uploads and   *)
(* workers.  A task is in one of three states: not created, in a queue, or *)
(* taken by a worker.  The invariant says that it is in one place at most, *)
(* that the second task of an upload exists only when the first has handed *)
(* over, and what has been made durable by then.                           *)
(***************************************************************************)
EXTENDS UploadPipeline, TLAPS, FiniteSetTheorems

Run == {"process_uploaded", "process_profiled"}

Holds(s, t) == \E i \in DOMAIN s : s[i] = t

OnceEach(s) == \A i, j \in DOMAIN s : s[i] = s[j] => i = j

Enqueued(run, u) == \E q \in Queue : Holds(queues[q], [run |-> run, upload |-> u])

TakenBy(w, run, u) == worker[w] # NoTask /\ worker[w].run = run /\ worker[w].upload = u

Exists(run, u) == Enqueued(run, u) \/ \E w \in Worker : TakenBy(w, run, u)

\* The queue a task is put in.
QueueOf(run, u) == IF run = "process_uploaded" THEN "profile" ELSE TargetQueue(u)

\* A task is in a queue once, and in the queue it belongs to.
QueuesOK ==
    \A q \in Queue :
        /\ OnceEach(queues[q])
        /\ \A run \in Run, u \in Upload :
              Holds(queues[q], [run |-> run, upload |-> u]) => q = QueueOf(run, u)

\* A task is taken by one worker, and is then in no queue.
WorkersOK ==
    \A run \in Run, u \in Upload, w \in Worker : TakenBy(w, run, u) =>
        /\ ~Enqueued(run, u)
        /\ \A v \in Worker : TakenBy(v, run, u) => v = w

\* The first task of an upload has not put the second one in its queue.
NotHandedOver(u) ==
    \/ Enqueued("process_uploaded", u)
    \/ \E w \in Worker : TakenBy(w, "process_uploaded", u) /\ worker[w].place # "failing"

HandoverOK == \A u \in Upload : NotHandedOver(u) => ~Exists("process_profiled", u)

\* The places of a request after it has enqueued, or may have.
Sent == {"202", "refusing", "503", "crashed"}

RequestsOK ==
    \A u \in Upload :
        /\ request[u] = "none" => jobs[u].status = "none"
        /\ request[u] \in {"saved", "ready"} => u \in stored
        /\ request[u] = "ready" => jobs[u].path
        /\ \A run \in Run : Exists(run, u) => /\ jobs[u].path /\ u \in stored
                                              /\ request[u] \in Sent

\* What is left of the tasks of a job once it has completed.
CompletedOK ==
    \A u \in Upload : jobs[u].status = "completed" =>
        /\ request[u] \in Sent
        /\ \A run \in Run :
              /\ ~Enqueued(run, u)
              /\ \A w \in Worker : TakenBy(w, run, u) => worker[w].place \in {"progress", "failing"}

\* The inductive invariant.
PipelineInv == TypeOK /\ QueuesOK /\ WorkersOK /\ HandoverOK /\ RequestsOK /\ CompletedOK

-----------------------------------------------------------------------------
(* Queues and workers.                                                     *)

\* A worker that runs a task is told from one that runs none.
LEMMA NoTaskFacts ==
    /\ NoTask \notin Running /\ \A t \in Running : t.run \in Run /\ t.upload \in Upload
    /\ \A q \in Queue : TypeOK => queues[q] \in Seq(Task)
  BY DEF NoTask, Running, Run, TypeOK

\* What Append and Tail do to what a queue holds.
LEMMA AppendHolds ==
    ASSUME NEW S, NEW s \in Seq(S), NEW t \in S
    PROVE  /\ Append(s, t) \in Seq(S)
           /\ \A o : Holds(Append(s, t), o) <=> Holds(s, o) \/ o = t
           /\ OnceEach(s) /\ ~Holds(s, t) => OnceEach(Append(s, t))
<1>1. /\ Append(s, t) \in Seq(S)
      /\ Len(s) + 1 \in DOMAIN Append(s, t) /\ Append(s, t)[Len(s) + 1] = t
      /\ \A i \in DOMAIN s : i \in DOMAIN Append(s, t) /\ Append(s, t)[i] = s[i]
      /\ \A i \in DOMAIN Append(s, t) : i = Len(s) + 1 \/ i \in DOMAIN s
  OBVIOUS
<1> QED
  BY <1>1 DEF Holds, OnceEach

LEMMA TailHolds ==
    ASSUME NEW S, NEW s \in Seq(S), s # <<>>, OnceEach(s)
    PROVE  /\ Tail(s) \in Seq(S) /\ OnceEach(Tail(s)) /\ Head(s) \in S /\ Holds(s, Head(s))
           /\ \A o : Holds(Tail(s), o) <=> Holds(s, o) /\ o # Head(s)
<1>1. /\ Tail(s) \in Seq(S)
      /\ 1 \in DOMAIN s /\ Head(s) = s[1] /\ s[1] \in S
      /\ \A i \in DOMAIN Tail(s) : i + 1 \in DOMAIN s /\ Tail(s)[i] = s[i + 1] /\ i + 1 # 1
      /\ \A i \in DOMAIN s : i # 1 => i - 1 \in DOMAIN Tail(s) /\ Tail(s)[i - 1] = s[i]
      /\ \A i, j \in DOMAIN Tail(s) : i + 1 = j + 1 => i = j
  OBVIOUS
<1>2. OnceEach(Tail(s))
  BY <1>1 DEF OnceEach
<1>3. ASSUME NEW o, Holds(Tail(s), o) PROVE Holds(s, o) /\ o # Head(s)
  BY <1>1, <1>3 DEF Holds, OnceEach
<1>4. ASSUME NEW o, Holds(s, o), o # Head(s) PROVE Holds(Tail(s), o)
  BY <1>1, <1>4 DEF Holds
<1>5. Holds(s, Head(s))
  BY <1>1 DEF Holds
<1> QED
  BY <1>1, <1>2, <1>3, <1>4, <1>5

\* A task that is nowhere is put at the end of its queue.
LEMMA PushedTask ==
    ASSUME TypeOK, QueuesOK, format' = format, NEW run \in Run, NEW u \in Upload,
           ~Enqueued(run, u), Push(QueueOf(run, u), run, u)
    PROVE  /\ QueuesOK' /\ queues' \in [Queue -> Seq(Task)]
           /\ \A r \in Run, v \in Upload :
                 Enqueued(r, v)' <=> Enqueued(r, v) \/ (r = run /\ v = u)
<1> DEFINE t == [run |-> run, upload |-> u]
<1>1. PICK q \in Queue : q = QueueOf(run, u)
  BY DEF QueueOf, TargetQueue, Queue
<1>2. queues[q] \in Seq(Task) /\ queues' = [queues EXCEPT ![q] = Append(queues[q], t)]
  BY <1>1 DEF TypeOK, Push
<1>3. t \in Task /\ \A r, v : [run |-> r, upload |-> v] = t => r = run /\ v = u
  BY DEF Task, Run
<1>4. \A p \in Queue : ~Holds(queues[p], t)
  BY DEF Enqueued
<1> HIDE DEF t
<1>5. /\ \A p \in Queue \ {q} : queues'[p] = queues[p]
      /\ queues'[q] \in Seq(Task) /\ OnceEach(queues'[q])
      /\ \A o : Holds(queues'[q], o) <=> Holds(queues[q], o) \/ o = t
      /\ queues' \in [Queue -> Seq(Task)]
  BY <1>2, <1>3, <1>4, AppendHolds DEF TypeOK, QueuesOK
<1>6. ASSUME NEW r \in Run, NEW v \in Upload
      PROVE  Enqueued(r, v)' <=> Enqueued(r, v) \/ (r = run /\ v = u)
  BY <1>3, <1>5 DEF Enqueued, t
<1>7. QueuesOK'
  <2>1. \A r, v : TargetQueue(v)' = TargetQueue(v)
    BY DEF TargetQueue
  <2>2. ASSUME NEW p \in Queue, NEW r \in Run, NEW v \in Upload,
               Holds(queues'[p], [run |-> r, upload |-> v])
        PROVE  p = QueueOf(r, v)
    BY <1>1, <1>3, <1>5, <2>2 DEF QueuesOK
  <2>3. \A p \in Queue : OnceEach(queues'[p])
    BY <1>5 DEF QueuesOK
  <2> QED
    BY <2>1, <2>2, <2>3 DEF QueuesOK, QueueOf
<1> QED
  BY <1>5, <1>6, <1>7

\* The task at the head of a queue is taken out.
LEMMA TakenTask ==
    ASSUME TypeOK, QueuesOK, format' = format, NEW q \in Queue, queues[q] # <<>>,
           queues' = [queues EXCEPT ![q] = Tail(@)],
           NEW t, t = Head(queues[q])
    PROVE  /\ QueuesOK' /\ queues' \in [Queue -> Seq(Task)]
           /\ t.run \in Run /\ t.upload \in Upload
           /\ Enqueued(t.run, t.upload)
           /\ \A r \in Run, v \in Upload :
                 Enqueued(r, v)' <=> Enqueued(r, v) /\ ~(r = t.run /\ v = t.upload)
<1>1. queues[q] \in Seq(Task) /\ OnceEach(queues[q])
  BY DEF TypeOK, QueuesOK
<1>2. /\ \A p \in Queue \ {q} : queues'[p] = queues[p]
      /\ OnceEach(queues'[q]) /\ t \in Task /\ Holds(queues[q], t)
      /\ \A o : Holds(queues'[q], o) <=> Holds(queues[q], o) /\ o # t
      /\ queues' \in [Queue -> Seq(Task)]
  BY <1>1, TailHolds DEF TypeOK
<1>3. /\ t.run \in Run /\ t.upload \in Upload /\ t = [run |-> t.run, upload |-> t.upload]
      /\ \A r, v : [run |-> r, upload |-> v] = t <=> r = t.run /\ v = t.upload
  BY <1>2 DEF Task, Run
<1>4. \A p \in Queue : Holds(queues[p], t) => p = q
  BY <1>2, <1>3 DEF QueuesOK
<1>5. ASSUME NEW r \in Run, NEW v \in Upload
      PROVE  Enqueued(r, v)' <=> Enqueued(r, v) /\ ~(r = t.run /\ v = t.upload)
  BY <1>2, <1>3, <1>4 DEF Enqueued
<1>6. QueuesOK'
  <2>1. \A r, v : TargetQueue(v)' = TargetQueue(v)
    BY DEF TargetQueue
  <2>2. ASSUME NEW p \in Queue, NEW r \in Run, NEW v \in Upload,
               Holds(queues'[p], [run |-> r, upload |-> v])
        PROVE  p = QueueOf(r, v)
    BY <1>2, <2>2 DEF QueuesOK
  <2>3. \A p \in Queue : OnceEach(queues'[p])
    BY <1>2 DEF QueuesOK
  <2> QED
    BY <2>1, <2>2, <2>3 DEF QueuesOK, QueueOf
<1>7. Enqueued(t.run, t.upload)
  BY <1>2, <1>3 DEF Enqueued
<1> QED
  BY <1>2, <1>3, <1>5, <1>6, <1>7

Place == {"start", "route", "enqueue", "extract", "ingest", "upsert", "progress", "failing"}

\* A worker goes on with its task, with or without reading the job again.
Moves(w, place) ==
    Goto(w, place) \/ \E status \in Status : GotoReading(w, place, status)

LEMMA WorkerMoves ==
    ASSUME TypeOK, NEW w \in Worker, worker[w] # NoTask, NEW place \in Place, Moves(w, place)
    PROVE  /\ worker' \in [Worker -> Running \union {NoTask}]
           /\ \A v \in Worker : \A run, u : TakenBy(v, run, u)' <=> TakenBy(v, run, u)
           /\ \A v \in Worker \ {w} : worker'[v] = worker[v]
           /\ worker'[w].place = place /\ worker'[w] # NoTask
           /\ worker[w].run \in Run /\ worker[w].upload \in Upload
<1>1. worker[w] \in Running
  BY DEF TypeOK
<1>2. PICK status \in Status :
         /\ worker'[w] = [worker[w] EXCEPT !.place = place, !.read = status]
         /\ worker' = [worker EXCEPT ![w] = worker'[w]]
  <2>1. CASE Goto(w, place)
    <3>1. worker'[w] = [worker[w] EXCEPT !.place = place] /\ worker[w].read \in Status
      BY <1>1, <2>1 DEF TypeOK, Goto, Running
    <3>2. worker'[w] = [worker[w] EXCEPT !.place = place, !.read = worker[w].read]
      BY <1>1, <3>1 DEF Running
    <3> QED
      BY <2>1, <3>1, <3>2 DEF TypeOK, Goto
  <2>2. ASSUME NEW s \in Status, GotoReading(w, place, s)
        PROVE  /\ worker'[w] = [worker[w] EXCEPT !.place = place, !.read = s]
               /\ worker' = [worker EXCEPT ![w] = worker'[w]]
    BY <2>2 DEF TypeOK, GotoReading
  <2> QED
    BY <2>1, <2>2 DEF Moves
<1>3. /\ worker'[w] \in Running /\ worker'[w].place = place
      /\ worker'[w].run = worker[w].run /\ worker'[w].upload = worker[w].upload
  BY <1>1, <1>2 DEF Running, Place
<1>4. worker' \in [Worker -> Running \union {NoTask}] /\ \A v \in Worker \ {w} : worker'[v] = worker[v]
  BY <1>2, <1>3 DEF TypeOK
<1>5. worker[w].run \in Run /\ worker[w].upload \in Upload
  BY <1>1 DEF Running, Run
<1> QED
  BY <1>2, <1>3, <1>4, <1>5, NoTaskFacts DEF TakenBy

\* A worker is done with its task.
LEMMA WorkerEnds ==
    ASSUME TypeOK, NEW w \in Worker, EndTask(w)
    PROVE  /\ worker' \in [Worker -> Running \union {NoTask}]
           /\ \A v \in Worker : \A run, u : TakenBy(v, run, u)' <=> TakenBy(v, run, u) /\ v # w
           /\ \A v \in Worker \ {w} : worker'[v] = worker[v]
           /\ worker'[w] = NoTask
  BY DEF TypeOK, EndTask, TakenBy

\* The task a worker is at, in the terms of the invariant.
LEMMA TaskOfWorker ==
    ASSUME PipelineInv, NEW w \in Worker, worker[w] # NoTask,
           NEW u, u = worker[w].upload, NEW run, run = worker[w].run
    PROVE  /\ u \in Upload /\ run \in Run /\ TakenBy(w, run, u) /\ Exists(run, u)
           /\ ~Enqueued(run, u) /\ \A v \in Worker : TakenBy(v, run, u) => v = w
           /\ jobs[u].path /\ u \in stored /\ request[u] \in Sent
           /\ jobs[u].status = "completed" => worker[w].place \in {"progress", "failing"}
           /\ run = "process_uploaded" /\ worker[w].place # "failing" => NotHandedOver(u)
<1>1. u \in Upload /\ run \in Run /\ TakenBy(w, run, u)
  BY NoTaskFacts DEF PipelineInv, TypeOK, TakenBy
<1>2. Exists(run, u)
  BY <1>1 DEF Exists
<1> QED
  BY <1>1, <1>2 DEF PipelineInv, WorkersOK, RequestsOK, CompletedOK, NotHandedOver

-----------------------------------------------------------------------------
(* The invariant is inductive.                                             *)

LEMMA InitHolds == Init => PipelineInv
<1> SUFFICES ASSUME Init PROVE PipelineInv
  OBVIOUS
<1>1. TypeOK
  BY DEF Init, TypeOK, NoJob, NoTask, AllFormats, Status
<1>2. \A run, u : ~Enqueued(run, u)
  BY DEF Init, Enqueued, Holds
<1>3. \A w \in Worker : \A run, u : ~TakenBy(w, run, u)
  BY DEF Init, TakenBy
<1>4. QueuesOK
  BY DEF Init, QueuesOK, OnceEach, Holds
<1>5. \A u \in Upload : jobs[u].status = "none"
  BY DEF Init, NoJob
<1> QED
  BY <1>1, <1>2, <1>3, <1>4, <1>5
     DEF Init, PipelineInv, WorkersOK, HandoverOK, RequestsOK, CompletedOK, Exists, NotHandedOver

\* The steps of a request that touch no queue.
LEMMA RequestPreserves ==
    ASSUME PipelineInv, NEW u \in Upload,
           \/ CreateJob(u) \/ SaveUpload(u) \/ SaveFails(u) \/ TooLarge(u) \/ StorePath(u) \/ Refuse(u)
           \/ RequestCrash(u)
    PROVE  PipelineInv'
<1>1. /\ \A r, v : Enqueued(r, v)' <=> Enqueued(r, v)
      /\ \A w, r, v : TakenBy(w, r, v)' <=> TakenBy(w, r, v)
      /\ UNCHANGED <<queues, worker>>
  BY DEF CreateJob, SaveUpload, SaveFails, TooLarge, StorePath, Refuse, RequestCrash, Enqueued, TakenBy
<1>2. /\ \A r, v : Exists(r, v)' <=> Exists(r, v)
      /\ \A v : NotHandedOver(v)' <=> NotHandedOver(v)
  BY <1>1 DEF Exists, NotHandedOver
<1>3. jobs[u] \in [status: Status, path: BOOLEAN]
  BY DEF PipelineInv, TypeOK
<1>4. TypeOK'
  <2>1. \A s \in Status, b \in BOOLEAN :
           /\ [jobs[u] EXCEPT !.status = s] \in [status: Status, path: BOOLEAN]
           /\ [jobs[u] EXCEPT !.path = b] \in [status: Status, path: BOOLEAN]
    BY <1>3
  <2>2. format' \in [Upload -> AllFormats] /\ stored' \subseteq Upload /\ lost' \subseteq Upload
    BY FaultsAssumption
       DEF PipelineInv, TypeOK, CreateJob, SaveUpload, SaveFails, TooLarge, StorePath, Refuse, RequestCrash
  <2>3. \/ jobs' = jobs
        \/ \E row \in [status: Status, path: BOOLEAN] : jobs' = [jobs EXCEPT ![u] = row]
    <3>1. {"pending", "failed"} \subseteq Status
      BY DEF Status
    <3> QED
      BY <2>1, <3>1
         DEF CreateJob, SaveUpload, SaveFails, TooLarge, StorePath, Refuse, RequestCrash, MarkFailed
  <2>4. jobs' \in [Upload -> [status: Status, path: BOOLEAN]]
    BY <2>3 DEF PipelineInv, TypeOK
  <2>5. request' \in [Upload -> {"none", "created", "saved", "ready", "rejecting", "refusing",
                                 "202", "413", "500", "503", "crashed"}]
    BY DEF PipelineInv, TypeOK, CreateJob, SaveUpload, SaveFails, TooLarge, StorePath, Refuse, RequestCrash
  <2> QED
    BY <1>1, <2>2, <2>4, <2>5 DEF PipelineInv, TypeOK
<1>5. /\ \A v \in Upload \ {u} : /\ jobs'[v] = jobs[v] /\ request'[v] = request[v]
                                 /\ v \in stored' <=> v \in stored
      /\ request'[u] # "none"
      /\ jobs[u].path => jobs'[u].path
      /\ request[u] \in Sent => /\ request'[u] \in Sent
                                /\ u \in stored' <=> u \in stored
                                /\ jobs'[u].status = jobs[u].status \/ jobs'[u].status = "failed"
      /\ request[u] \notin Sent /\ jobs[u].status # "completed" => jobs'[u].status # "completed"
      /\ request'[u] \in {"saved", "ready"} => u \in stored'
      /\ request'[u] = "ready" => jobs'[u].path
  BY <1>3 DEF PipelineInv, TypeOK, CreateJob, SaveUpload, SaveFails, TooLarge, StorePath, Refuse, RequestCrash,
              MarkFailed, Sent, RequestsOK
<1>6. request[u] \notin Sent => jobs[u].status # "completed" /\ \A r \in Run : ~Exists(r, u)
  BY DEF PipelineInv, CompletedOK, RequestsOK
<1>7. QueuesOK'
  <2>1. ASSUME NEW q \in Queue, NEW r \in Run, NEW v \in Upload,
               Holds(queues[q], [run |-> r, upload |-> v])
        PROVE  format'[v] = format[v]
    <3>1. Exists(r, v)
      BY <2>1 DEF Exists, Enqueued
    <3>2. request[v] \in Sent
      BY <3>1 DEF PipelineInv, RequestsOK
    <3> QED
      BY <3>2 DEF PipelineInv, TypeOK, CreateJob, SaveUpload, SaveFails, TooLarge, StorePath, Refuse,
                  RequestCrash, Sent
  <2> QED
    BY <1>1, <2>1 DEF PipelineInv, QueuesOK, QueueOf, TargetQueue
<1>8. WorkersOK' /\ HandoverOK'
  BY <1>1, <1>2 DEF PipelineInv, WorkersOK, HandoverOK
<1>9. RequestsOK'
  BY <1>2, <1>5, <1>6 DEF PipelineInv, RequestsOK
<1>10. CompletedOK'
  BY <1>1, <1>5, <1>6 DEF PipelineInv, CompletedOK
<1> QED
  BY <1>4, <1>7, <1>8, <1>9, <1>10 DEF PipelineInv

\* The request hands the upload to the first task, or Redis may have taken it.
LEMMA SendPreserves ==
    ASSUME PipelineInv, NEW u \in Upload, Accept(u) \/ EnqueueFails(u) PROVE PipelineInv'
<1> DEFINE run == "process_uploaded"
<1>1. /\ request[u] = "ready" /\ UNCHANGED <<format, jobs, stored, worker, lost>>
      /\ request'[u] \in Sent /\ \A v \in Upload \ {u} : request'[v] = request[v]
      /\ request' \in [Upload -> {"none", "created", "saved", "ready", "rejecting", "refusing",
                                  "202", "413", "500", "503", "crashed"}]
  BY DEF Accept, EnqueueFails, PipelineInv, TypeOK, Sent
<1>2. /\ jobs[u].path /\ u \in stored /\ jobs[u].status # "completed"
      /\ \A r \in Run : ~Exists(r, u)
  BY <1>1 DEF PipelineInv, RequestsOK, CompletedOK, Sent
<1>3. /\ QueuesOK' /\ queues' \in [Queue -> Seq(Task)]
      /\ \A r \in Run, v \in Upload : /\ Enqueued(r, v) => Enqueued(r, v)'
                                      /\ Enqueued(r, v)' => Enqueued(r, v) \/ (r = run /\ v = u)
  <2>1. CASE UNCHANGED queues
    BY <1>1, <2>1 DEF PipelineInv, TypeOK, QueuesOK, Enqueued, QueueOf, TargetQueue
  <2>2. CASE Push("profile", run, u)
    <3>1. run \in Run /\ QueueOf(run, u) = "profile" /\ ~Enqueued(run, u)
      BY <1>2 DEF Run, QueueOf, Exists
    <3> QED
      BY <1>1, <2>2, <3>1, PushedTask DEF PipelineInv
  <2> QED
    BY <2>1, <2>2 DEF Accept, EnqueueFails
<1>4. \A w, r, v : TakenBy(w, r, v)' <=> TakenBy(w, r, v)
  BY <1>1 DEF TakenBy
<1>5. \A v \in Upload, r \in Run : /\ Exists(r, v) => Exists(r, v)'
                                   /\ Exists(r, v)' => Exists(r, v) \/ (r = run /\ v = u)
  BY <1>3, <1>4 DEF Exists
<1>6. TypeOK'
  BY <1>1, <1>3 DEF PipelineInv, TypeOK
<1>7. WorkersOK'
  BY <1>2, <1>3, <1>4 DEF PipelineInv, WorkersOK, Exists
<1>8. HandoverOK'
  <2> SUFFICES ASSUME NEW v \in Upload, NotHandedOver(v)' PROVE ~Exists("process_profiled", v)'
    BY DEF HandoverOK
  <2>1. v = u \/ NotHandedOver(v)
    BY <1>1, <1>3, <1>4 DEF NotHandedOver, Run
  <2>2. ~Exists("process_profiled", v)
    BY <1>2, <2>1 DEF PipelineInv, HandoverOK, Run
  <2> QED
    BY <1>5, <2>2 DEF Run
<1>9. RequestsOK'
  BY <1>1, <1>2, <1>5 DEF PipelineInv, RequestsOK, Sent
<1>10. CompletedOK'
  BY <1>1, <1>2, <1>3, <1>4 DEF PipelineInv, CompletedOK
<1> QED
  BY <1>3, <1>6, <1>7, <1>8, <1>9, <1>10 DEF PipelineInv

\* A worker takes a task: it is in no queue any more.
LEMMA DequeuePreserves ==
    ASSUME PipelineInv, NEW w \in Worker, Dequeue(w) PROVE PipelineInv'
<1>1. /\ worker[w] = NoTask /\ UNCHANGED <<request, format, jobs, stored, lost>>
  BY DEF Dequeue
<1>2. PICK q \in Queue :
         /\ queues[q] # <<>> /\ queues' = [queues EXCEPT ![q] = Tail(@)]
         /\ worker' = [worker EXCEPT ![w] = [run |-> Head(queues[q]).run,
                                             upload |-> Head(queues[q]).upload,
                                             place |-> "start", read |-> "none"]]
  <2>1. DOMAIN QueueOrder = 1..4 /\ \A i \in 1..4 : QueueOrder[i] \in Queue
    BY DEF QueueOrder, Queue
  <2> QED
    BY <2>1 DEF Dequeue
<1>3. PICK t : t = Head(queues[q])
  OBVIOUS
<1>4. /\ QueuesOK' /\ queues' \in [Queue -> Seq(Task)]
      /\ t.run \in Run /\ t.upload \in Upload /\ Enqueued(t.run, t.upload)
      /\ \A r \in Run, v \in Upload :
            Enqueued(r, v)' <=> Enqueued(r, v) /\ ~(r = t.run /\ v = t.upload)
  BY <1>1, <1>2, <1>3, TakenTask DEF PipelineInv
<1>5. /\ worker'[w] = [run |-> t.run, upload |-> t.upload, place |-> "start", read |-> "none"]
      /\ \A v \in Worker \ {w} : worker'[v] = worker[v]
      /\ worker'[w] \in Running
  BY <1>2, <1>3, <1>4 DEF PipelineInv, TypeOK, Running, Run, Status
<1>6. \A v \in Worker : \A r, x :
         TakenBy(v, r, x)' <=> \/ TakenBy(v, r, x)
                               \/ v = w /\ r = t.run /\ x = t.upload
  BY <1>1, <1>5, NoTaskFacts DEF TakenBy
<1>7. \A x \in Upload, r \in Run : Exists(r, x)' <=> Exists(r, x)
  BY <1>4, <1>6 DEF Exists
<1>8. TypeOK'
  BY <1>1, <1>2, <1>4, <1>5 DEF PipelineInv, TypeOK
<1>9. WorkersOK'
  BY <1>4, <1>6 DEF PipelineInv, WorkersOK
<1>10. HandoverOK'
  <2>1. \A x \in Upload : NotHandedOver(x)' => NotHandedOver(x)
    <3> SUFFICES ASSUME NEW x \in Upload, NotHandedOver(x)', ~Enqueued("process_uploaded", x)
                 PROVE  NotHandedOver(x)
      BY DEF NotHandedOver
    <3>1. PICK v \in Worker : TakenBy(v, "process_uploaded", x)' /\ worker'[v].place # "failing"
      BY <1>4 DEF NotHandedOver, Run
    <3>2. v # w
      BY <1>1, <1>4, <1>6, <3>1 DEF TakenBy
    <3> QED
      BY <1>5, <1>6, <3>1, <3>2 DEF NotHandedOver
  <2> QED
    BY <1>7, <2>1 DEF PipelineInv, HandoverOK, Run
<1>11. RequestsOK'
  BY <1>1, <1>7 DEF PipelineInv, RequestsOK
<1>12. CompletedOK'
  <2> SUFFICES ASSUME NEW x \in Upload, jobs[x].status = "completed", NEW r \in Run
               PROVE  /\ request[x] \in Sent /\ ~Enqueued(r, x)'
                      /\ \A v \in Worker : TakenBy(v, r, x)' => worker'[v].place \in {"progress", "failing"}
    BY <1>1 DEF CompletedOK, Run
  <2>1. request[x] \in Sent /\ ~Enqueued(r, x) /\ x # t.upload
    BY <1>4 DEF PipelineInv, CompletedOK
  <2>2. ASSUME NEW v \in Worker, TakenBy(v, r, x)' PROVE worker'[v].place \in {"progress", "failing"}
    <3>1. v # w /\ TakenBy(v, r, x)
      BY <1>1, <1>6, <2>1, <2>2 DEF TakenBy
    <3> QED
      BY <1>5, <3>1 DEF PipelineInv, CompletedOK
  <2> QED
    BY <1>4, <2>1, <2>2
<1> QED
  BY <1>4, <1>8, <1>9, <1>10, <1>11, <1>12 DEF PipelineInv

\* What a step of a worker may do to the row of its job.
RowChange(u, row) ==
    /\ \A v \in Upload \ {u} : jobs'[v] = jobs[v]
    /\ jobs'[u] = row /\ row.path = jobs[u].path
    /\ jobs' \in [Upload -> [status: Status, path: BOOLEAN]]

LEMMA RowChanges ==
    ASSUME TypeOK, NEW u \in Upload, NEW s \in Status
    PROVE  /\ jobs' = [jobs EXCEPT ![u].status = s]
              => \E row : RowChange(u, row) /\ row.status = s
           /\ jobs' = jobs => RowChange(u, jobs[u])
<1>1. jobs[u] \in [status: Status, path: BOOLEAN]
  BY DEF TypeOK
<1>2. ASSUME jobs' = [jobs EXCEPT ![u].status = s]
      PROVE  \E row : RowChange(u, row) /\ row.status = s
  <2>1. jobs' = [jobs EXCEPT ![u] = [jobs[u] EXCEPT !.status = s]]
    BY <1>2
  <2>2. PICK row : row = [jobs[u] EXCEPT !.status = s]
    OBVIOUS
  <2>3. /\ row \in [status: Status, path: BOOLEAN]
        /\ row.status = s /\ row.path = jobs[u].path
    BY <1>1, <2>2
  <2> QED
    BY <2>1, <2>2, <2>3 DEF RowChange, TypeOK
<1>3. jobs' = jobs => RowChange(u, jobs[u])
  BY DEF RowChange, TypeOK
<1> QED
  BY <1>2, <1>3

\* A worker goes on inside its task, and completes the job from the ingest only.
LEMMA MovePreserves ==
    ASSUME PipelineInv, NEW w \in Worker, worker[w] # NoTask, worker[w].place # "failing",
           NEW place \in Place, Moves(w, place), UNCHANGED <<request, format, stored, queues, lost>>,
           NEW row, RowChange(worker[w].upload, row),
           row.status = "completed" =>
              \/ /\ worker[w].run = "process_profiled" /\ worker[w].place \in {"ingest", "upsert"}
                 /\ place = "progress"
              \/ jobs[worker[w].upload].status = "completed" /\ place \in {"progress", "failing"}
    PROVE  PipelineInv'
<1>1. PICK u, run : u = worker[w].upload /\ run = worker[w].run
  OBVIOUS
<1>2. /\ u \in Upload /\ run \in Run /\ TakenBy(w, run, u) /\ Exists(run, u)
      /\ ~Enqueued(run, u) /\ \A v \in Worker : TakenBy(v, run, u) => v = w
      /\ request[u] \in Sent
      /\ run = "process_uploaded" => NotHandedOver(u)
  BY <1>1, TaskOfWorker
<1>3. /\ worker' \in [Worker -> Running \union {NoTask}]
      /\ \A v \in Worker : \A r, x : TakenBy(v, r, x)' <=> TakenBy(v, r, x)
      /\ \A v \in Worker \ {w} : worker'[v] = worker[v]
      /\ worker'[w].place = place
  BY WorkerMoves DEF PipelineInv
<1>4. /\ \A r, x : Enqueued(r, x)' <=> Enqueued(r, x)
      /\ \A r, x : Exists(r, x)' <=> Exists(r, x)
  BY <1>3 DEF Enqueued, Exists
<1>5. TypeOK'
  BY <1>3 DEF PipelineInv, TypeOK, RowChange
<1>6. QueuesOK'
  BY DEF PipelineInv, QueuesOK, QueueOf, TargetQueue
<1>7. WorkersOK'
  BY <1>3, <1>4 DEF PipelineInv, WorkersOK
<1>8. HandoverOK'
  <2>1. \A x \in Upload : NotHandedOver(x)' => NotHandedOver(x)
    BY <1>3, <1>4 DEF NotHandedOver
  <2> QED
    BY <1>4, <2>1 DEF PipelineInv, HandoverOK
<1>9. RequestsOK'
  <2>1. \A x \in Upload : jobs'[x].path = jobs[x].path /\ (x # u => jobs'[x] = jobs[x])
    BY <1>1 DEF RowChange
  <2> QED
    BY <1>2, <1>4, <2>1 DEF PipelineInv, RequestsOK, Sent
<1>10. CompletedOK'
  <2> SUFFICES ASSUME NEW x \in Upload, jobs'[x].status = "completed", NEW r \in Run
               PROVE  /\ request[x] \in Sent /\ ~Enqueued(r, x)
                      /\ \A v \in Worker : TakenBy(v, r, x) => worker'[v].place \in {"progress", "failing"}
    BY <1>3, <1>4 DEF CompletedOK, Run
  <2>1. CASE x # u
    <3>1. jobs[x].status = "completed"
      BY <1>1, <2>1 DEF RowChange
    <3> QED
      BY <1>1, <1>3, <2>1, <3>1 DEF PipelineInv, CompletedOK, TakenBy
  <2>2. CASE x = u /\ jobs[u].status = "completed" /\ place \in {"progress", "failing"}
    BY <1>3, <2>2 DEF PipelineInv, CompletedOK
  <2>3. CASE x = u /\ run = "process_profiled" /\ place = "progress"
    <3>1. ~NotHandedOver(u)
      BY <1>2, <2>3 DEF PipelineInv, HandoverOK
    <3>2. CASE r = run
      BY <1>2, <1>3, <2>3, <3>2
    <3>3. CASE r = "process_uploaded"
      BY <1>2, <1>3, <2>3, <3>1, <3>3 DEF NotHandedOver
    <3> QED
      BY <2>3, <3>2, <3>3 DEF Run
  <2>4. x = u => row.status = "completed"
    BY <1>1 DEF RowChange
  <2> QED
    BY <1>1, <2>1, <2>2, <2>3, <2>4 DEF At
<1> QED
  BY <1>5, <1>6, <1>7, <1>8, <1>9, <1>10 DEF PipelineInv

\* A worker is done with its task, and completes nothing by that.
LEMMA EndPreserves ==
    ASSUME PipelineInv, NEW w \in Worker, worker[w] # NoTask, EndTask(w),
           UNCHANGED <<request, format, stored, queues>>, lost' \subseteq Upload,
           NEW row, RowChange(worker[w].upload, row),
           row.status = "completed" => jobs[worker[w].upload].status = "completed"
    PROVE  PipelineInv'
<1>1. PICK u : u = worker[w].upload
  OBVIOUS
<1>2. u \in Upload /\ request[u] \in Sent
  BY <1>1, TaskOfWorker
<1>3. /\ worker' \in [Worker -> Running \union {NoTask}]
      /\ \A v \in Worker : \A r, x : TakenBy(v, r, x)' <=> TakenBy(v, r, x) /\ v # w
      /\ \A v \in Worker \ {w} : worker'[v] = worker[v]
  BY WorkerEnds DEF PipelineInv
<1>4. /\ \A r, x : Enqueued(r, x)' <=> Enqueued(r, x)
      /\ \A r, x : Exists(r, x)' => Exists(r, x)
  BY <1>3 DEF Enqueued, Exists
<1>5. TypeOK'
  BY <1>3 DEF PipelineInv, TypeOK, RowChange
<1>6. QueuesOK'
  BY DEF PipelineInv, QueuesOK, QueueOf, TargetQueue
<1>7. WorkersOK'
  BY <1>3, <1>4 DEF PipelineInv, WorkersOK
<1>8. HandoverOK'
  <2>1. \A x \in Upload : NotHandedOver(x)' => NotHandedOver(x)
    BY <1>3, <1>4 DEF NotHandedOver
  <2> QED
    BY <1>4, <2>1 DEF PipelineInv, HandoverOK
<1>9. /\ \A x \in Upload : jobs'[x].path = jobs[x].path /\ (x # u => jobs'[x] = jobs[x])
      /\ \A x \in Upload : jobs'[x].status = "completed" => jobs[x].status = "completed"
  BY <1>1 DEF RowChange
<1>10. RequestsOK'
  BY <1>2, <1>4, <1>9 DEF PipelineInv, RequestsOK, Sent
<1>11. CompletedOK'
  BY <1>3, <1>4, <1>9 DEF PipelineInv, CompletedOK
<1> QED
  BY <1>5, <1>6, <1>7, <1>8, <1>10, <1>11 DEF PipelineInv

\* The first task puts the second one in its queue, and is done or about to
\* fail.
LEMMA HandoverPreserves ==
    ASSUME PipelineInv, NEW w \in Worker, At(w, "process_uploaded", "enqueue"),
           Push(TargetQueue(worker[w].upload), "process_profiled", worker[w].upload),
           EndTask(w) \/ Goto(w, "failing"), UNCHANGED <<request, format, jobs, stored, lost>>
    PROVE  PipelineInv'
<1> DEFINE first == "process_uploaded"
           second == "process_profiled"
<1>0. worker[w] # NoTask
  BY DEF At, NoTask
<1>1. PICK u : u = worker[w].upload
  OBVIOUS
<1>2. /\ u \in Upload /\ TakenBy(w, first, u) /\ NotHandedOver(u)
      /\ ~Enqueued(first, u) /\ \A v \in Worker : TakenBy(v, first, u) => v = w
      /\ jobs[u].path /\ u \in stored /\ request[u] \in Sent /\ jobs[u].status # "completed"
  BY <1>0, <1>1, TaskOfWorker DEF At
<1>3. ~Exists(second, u)
  BY <1>2 DEF PipelineInv, HandoverOK
<1>4. /\ worker' \in [Worker -> Running \union {NoTask}]
      /\ \A v \in Worker : \A r, x : TakenBy(v, r, x)' => TakenBy(v, r, x)
      /\ \A v \in Worker \ {w} : worker'[v] = worker[v]
      /\ \A r, x : TakenBy(w, r, x)' => worker'[w].place = "failing"
  BY <1>0, WorkerMoves, WorkerEnds DEF PipelineInv, Moves, Place
<1>5. /\ QueuesOK' /\ queues' \in [Queue -> Seq(Task)]
      /\ \A r \in Run, x \in Upload :
            Enqueued(r, x)' <=> Enqueued(r, x) \/ (r = second /\ x = u)
  <2>1. second \in Run /\ QueueOf(second, u) = TargetQueue(worker[w].upload) /\ ~Enqueued(second, u)
    BY <1>1, <1>3 DEF Run, QueueOf, Exists
  <2> QED
    BY <1>1, <1>2, <2>1, PushedTask DEF PipelineInv
<1>6. \A r \in Run, x \in Upload : Exists(r, x)' => Exists(r, x) \/ (r = second /\ x = u)
  BY <1>4, <1>5 DEF Exists
<1>7. TypeOK'
  BY <1>4, <1>5 DEF PipelineInv, TypeOK
<1>8. WorkersOK'
  BY <1>3, <1>4, <1>5 DEF PipelineInv, WorkersOK, Exists
<1>9. HandoverOK'
  <2> SUFFICES ASSUME NEW x \in Upload, NotHandedOver(x)' PROVE ~Exists(second, x)'
    BY DEF HandoverOK
  <2>1. NotHandedOver(x) /\ x # u
    <3>1. CASE Enqueued(first, x)'
      BY <1>2, <1>5, <3>1 DEF NotHandedOver, Run
    <3>2. CASE ~Enqueued(first, x)'
      <4>1. PICK v \in Worker : TakenBy(v, first, x)' /\ worker'[v].place # "failing"
        BY <3>2 DEF NotHandedOver
      <4>2. v # w /\ TakenBy(v, first, x) /\ worker[v].place # "failing"
        BY <1>4, <4>1
      <4> QED
        BY <1>2, <4>2 DEF NotHandedOver
    <3> QED
      BY <3>1, <3>2
  <2> QED
    BY <1>6, <2>1 DEF PipelineInv, HandoverOK, Run
<1>10. RequestsOK'
  BY <1>2, <1>6 DEF PipelineInv, RequestsOK
<1>11. CompletedOK'
  <2> SUFFICES ASSUME NEW x \in Upload, jobs[x].status = "completed", NEW r \in Run
               PROVE  /\ request[x] \in Sent /\ ~Enqueued(r, x)'
                      /\ \A v \in Worker : TakenBy(v, r, x)' => worker'[v].place \in {"progress", "failing"}
    BY DEF CompletedOK, Run
  <2> QED
    BY <1>2, <1>4, <1>5 DEF PipelineInv, CompletedOK
<1> QED
  BY <1>5, <1>7, <1>8, <1>9, <1>10, <1>11 DEF PipelineInv

\* The invariant is inductive.
LEMMA NextPreserves == ASSUME PipelineInv, [Next]_vars PROVE PipelineInv'
<1>1. CASE UNCHANGED vars
  <2>1. /\ \A r, x : Enqueued(r, x)' <=> Enqueued(r, x)
        /\ \A v, r, x : TakenBy(v, r, x)' <=> TakenBy(v, r, x)
    BY <1>1 DEF vars, Enqueued, TakenBy
  <2>2. /\ \A r, x : Exists(r, x)' <=> Exists(r, x)
        /\ \A x : NotHandedOver(x)' <=> NotHandedOver(x)
    BY <1>1, <2>1 DEF vars, Exists, NotHandedOver
  <2> QED
    BY <1>1, <2>1, <2>2
       DEF vars, PipelineInv, TypeOK, QueuesOK, QueueOf, TargetQueue, WorkersOK, HandoverOK,
           RequestsOK, CompletedOK
<1>2. ASSUME NEW u \in Upload, CreateJob(u) \/ RequestStep(u) \/ RequestCrash(u) PROVE PipelineInv'
  BY <1>2, RequestPreserves, SendPreserves DEF RequestStep
<1>3. ASSUME NEW w \in Worker, WorkerStep(w) \/ TaskTimeout(w) \/ WorkerCrash(w), ~Dequeue(w)
      PROVE  PipelineInv'
  <2> DEFINE u == worker[w].upload
  <2>1. worker[w] # NoTask
    BY <1>3
       DEF WorkerStep, StartTask, Route, EnqueueProfiled, EnqueueProfiledFails, Extract, CommitIngest,
           Ingest, LastProgress, FailTask, FailTaskFails, TaskTimeout, WorkerCrash, At, NoTask
  <2>2. /\ u \in Upload /\ TypeOK
        /\ jobs[u].status = "completed" => worker[w].place \in {"progress", "failing"}
        /\ jobs[u].status \in Status /\ worker[w] \in Running
    BY <2>1, TaskOfWorker DEF PipelineInv, TypeOK
  <2>3. RowChange(u, jobs[u]) \/ jobs' # jobs
    BY <2>2, RowChanges
  <2>4. CASE StartTask(w)
    BY <2>1, <2>2, <2>4, RowChanges, MovePreserves DEF StartTask, Moves, Place, Status
  <2>5. CASE Route(w) \/ Extract(w)
    BY <2>1, <2>2, <2>3, <2>5, MovePreserves DEF Route, Extract, At, Moves, Place
  <2>6. CASE TaskTimeout(w)
    BY <2>1, <2>2, <2>3, <2>6, MovePreserves DEF TaskTimeout, Moves, Place
  <2>7. CASE Ingest(w)
    BY <2>1, <2>2, <2>3, <2>7, RowChanges, MovePreserves DEF Ingest, At, Moves, Place, Status
  <2>13. CASE CommitIngest(w)
    <3>1. CommittedStatus(w) \in Status /\ CommittedStatus(w) # "completed"
      BY <2>2, <2>13 DEF CommitIngest, CommittedStatus, At, Status
    <3> QED
      BY <2>1, <2>2, <2>13, <3>1, RowChanges, MovePreserves
         DEF CommitIngest, At, Moves, Place, Status
  <2>8. CASE LastProgress(w)
    BY <2>1, <2>2, <2>3, <2>8, MovePreserves, EndPreserves
       DEF LastProgress, At, Moves, Place, PipelineInv, TypeOK
  <2>9. CASE FailTask(w)
    BY <2>1, <2>2, <2>3, <2>9, RowChanges, EndPreserves
       DEF FailTask, MarkFailed, PipelineInv, TypeOK, Status
  <2>10. CASE FailTaskFails(w) \/ WorkerCrash(w)
    BY <2>1, <2>2, <2>3, <2>10, EndPreserves DEF FailTaskFails, WorkerCrash, PipelineInv, TypeOK
  <2>11. CASE EnqueueProfiled(w)
    BY <2>11, HandoverPreserves DEF EnqueueProfiled
  <2>12. CASE EnqueueProfiledFails(w)
    BY <2>1, <2>2, <2>3, <2>12, MovePreserves, HandoverPreserves
       DEF EnqueueProfiledFails, At, Moves, Place
  <2> QED
    BY <1>3, <2>4, <2>5, <2>6, <2>7, <2>8, <2>9, <2>10, <2>11, <2>12, <2>13
       DEF WorkerStep
<1> QED
  BY <1>1, <1>2, <1>3, DequeuePreserves DEF Next, Quiet

-----------------------------------------------------------------------------
(* The properties.                                                         *)

\* A set of at most one element.
LEMMA AtMostOne ==
    ASSUME NEW S, \A x, y \in S : x = y
    PROVE  Cardinality(S) = IF S = {} THEN 0 ELSE 1
<1>1. CASE S = {}
  BY <1>1, FS_EmptySet
<1>2. CASE S # {}
  <2>1. PICK x \in S : S = {x}
    BY <1>2
  <2> QED
    BY <1>2, <2>1, FS_Singleton
<1> QED
  BY <1>1, <1>2

\* What Queued and InWork hold of a task.
LEMMA TaskSets ==
    ASSUME PipelineInv, NEW run \in Run, NEW u \in Upload
    PROVE  /\ Cardinality(Queued(run, u)) = IF Queued(run, u) = {} THEN 0 ELSE 1
           /\ Cardinality(InWork(run, u)) = IF InWork(run, u) = {} THEN 0 ELSE 1
           /\ Queued(run, u) # {} => Enqueued(run, u)
           /\ InWork(run, u) # {} => \E w \in Worker : TakenBy(w, run, u)
<1>1. \A x \in Queued(run, u) : /\ x[1] \in Queue /\ x = <<x[1], x[2]>>
                                /\ x[2] \in DOMAIN queues[x[1]]
                                /\ queues[x[1]][x[2]] = [run |-> run, upload |-> u]
  BY DEF Queued
<1>2. Queued(run, u) # {} => Enqueued(run, u)
  BY <1>1 DEF Enqueued, Holds
<1>3. \A x, y \in Queued(run, u) : x = y
  <2> SUFFICES ASSUME NEW x \in Queued(run, u), NEW y \in Queued(run, u) PROVE x = y
    OBVIOUS
  <2>1. x[1] = QueueOf(run, u) /\ y[1] = QueueOf(run, u)
    BY <1>1 DEF PipelineInv, QueuesOK, Holds
  <2>2. x[2] = y[2]
    BY <1>1, <2>1 DEF PipelineInv, QueuesOK, OnceEach
  <2> QED
    BY <1>1, <2>1, <2>2
<1>4. /\ \A x, y \in InWork(run, u) : x = y
      /\ InWork(run, u) # {} => \E w \in Worker : TakenBy(w, run, u)
  BY DEF InWork, TakenBy, PipelineInv, WorkersOK
<1> QED
  BY <1>2, <1>3, <1>4, AtMostOne

\* The invariant holds in every reachable state.
THEOREM PipelineInvariant == Spec => []PipelineInv
<1>1. Init => PipelineInv
  BY InitHolds
<1>2. PipelineInv /\ [Next]_vars => PipelineInv'
  BY NextPreserves
<1> QED
  BY <1>1, <1>2, PTL DEF Spec

\* Every variable has its type.
THEOREM PipelineTypes == Spec => []TypeOK
<1>1. PipelineInv => TypeOK
  BY DEF PipelineInv
<1> QED
  BY <1>1, PipelineInvariant, PTL

\* Whatever is enqueued twice or by a request that then fails, a worker that
\* takes a task finds the path in the job and the file on disk.
THEOREM FilesAreThere == Spec => []TasksFindTheirFile
<1>1. PipelineInv => TasksFindTheirFile
  <2> SUFFICES ASSUME PipelineInv, NEW u \in Upload, NEW run \in Run, Tasks(run, u) > 0
               PROVE  jobs[u].path /\ u \in stored
    BY DEF TasksFindTheirFile, Run
  <2>1. Queued(run, u) # {} \/ InWork(run, u) # {}
    BY TaskSets DEF Tasks
  <2>2. Exists(run, u)
    BY <2>1, TaskSets DEF Exists
  <2> QED
    BY <2>2 DEF PipelineInv, RequestsOK
<1> QED
  BY <1>1, PipelineInvariant, PTL

\* No document is extracted and ingested by two tasks: the second task of an
\* upload exists at most once, in a queue or with a worker.
THEOREM OneIngestTask == Spec => []OneIngestTaskPerUpload
<1>1. PipelineInv => OneIngestTaskPerUpload
  <2> SUFFICES ASSUME PipelineInv, NEW u \in Upload PROVE Tasks("process_profiled", u) <= 1
    BY DEF OneIngestTaskPerUpload
  <2>1. "process_profiled" \in Run
    BY DEF Run
  <2>2. ~(Queued("process_profiled", u) # {} /\ InWork("process_profiled", u) # {})
    BY <2>1, TaskSets DEF PipelineInv, WorkersOK
  <2> QED
    BY <2>1, <2>2, TaskSets DEF Tasks
<1> QED
  BY <1>1, PipelineInvariant, PTL

\* No step runs a completed job again: what is left of its tasks can only
\* record a failure.
THEOREM CompletedStays == Spec => CompletedJobsStaySettled
<1>1. ASSUME PipelineInv, [Next]_vars, NEW u \in Upload, jobs[u].status = "completed"
      PROVE  jobs'[u].status \in {"completed", "failed"}
  <2>0. /\ jobs[u] \in [status: Status, path: BOOLEAN]
        /\ jobs \in [Upload -> [status: Status, path: BOOLEAN]]
        /\ request[u] \in Sent
    BY <1>1 DEF PipelineInv, TypeOK, CompletedOK
  <2>1. ASSUME NEW v \in Upload, CreateJob(v) \/ RequestStep(v) \/ RequestCrash(v)
        PROVE  jobs'[u].status \in {"completed", "failed"}
    BY <1>1, <2>0, <2>1
       DEF CreateJob, RequestStep, RequestCrash, SaveUpload, SaveFails, TooLarge, StorePath, Accept,
           EnqueueFails, Refuse, MarkFailed, Sent
  <2>2. ASSUME NEW w \in Worker, StartTask(w) PROVE jobs'[u].status \in {"completed", "failed"}
    <3>1. worker[w] # NoTask
      BY <2>2 DEF StartTask, NoTask
    <3>2. worker[w].upload # u
      BY <1>1, <2>2, <3>1, TaskOfWorker DEF StartTask
    <3> QED
      BY <1>1, <2>0, <2>2, <3>2 DEF StartTask
  <2>5. ASSUME NEW w \in Worker, CommitIngest(w) PROVE jobs'[u].status \in {"completed", "failed"}
    <3>1. worker[w] # NoTask
      BY <2>5 DEF CommitIngest, At, NoTask
    <3>2. worker[w].upload # u
      BY <1>1, <2>5, <3>1, TaskOfWorker DEF CommitIngest, At
    <3> QED
      BY <1>1, <2>0, <2>5, <3>2 DEF CommitIngest
  <2>3. ASSUME NEW w \in Worker, WorkerStep(w) \/ TaskTimeout(w) \/ WorkerCrash(w),
               ~StartTask(w), ~CommitIngest(w)
        PROVE  jobs'[u].status \in {"completed", "failed"}
    BY <1>1, <2>0, <2>3
       DEF WorkerStep, Dequeue, Route, EnqueueProfiled, EnqueueProfiledFails, Extract, Ingest,
           LastProgress, FailTask, FailTaskFails, MarkFailed, TaskTimeout, WorkerCrash
  <2>4. CASE UNCHANGED vars
    BY <1>1, <2>4 DEF vars
  <2> QED
    BY <1>1, <2>1, <2>2, <2>3, <2>4, <2>5 DEF Next, Quiet
<1>2. PipelineInv /\ [Next]_vars
      => [\A u \in Upload : jobs[u].status = "completed"
                            => jobs'[u].status \in {"completed", "failed"}]_vars
  BY <1>1
<1> QED
  BY <1>2, PipelineInvariant, PTL DEF Spec, CompletedJobsStaySettled
=============================================================================
