-------------------------------- MODULE Capture --------------------------------
(***************************************************************************)
(* One capture (Capture of internal/cdphar/capture.go): the main goroutine *)
(* navigates, freezes the recorder at the browser's clock, drains late     *)
(* extra info, stops and archives; the listener hands it the browser's     *)
(* events, or buffers them while the clock is being read; workers fetch    *)
(* the response bodies.                                                    *)
(*                                                                         *)
(* taskMu makes each listener call one step; the main goroutine holds it   *)
(* over all of "replay", during which the listener waits.  Connecting to   *)
(* the browser comes before all this and is left out, and so is the layout *)
(* of the archive.  The context may expire at any time.                    *)
(*                                                                         *)
(* The buffer lets the browser get ahead of the recorder.  Instance B is   *)
(* the browser itself; the variables of Browser, and ahead, are history:   *)
(* how far the recorder has seen it, and will have after each event that   *)
(* is buffered.  Of a capture that cannot succeed any more there is none.  *)
(***************************************************************************)
EXTENDS Recorder

CONSTANTS Workers,   \* maxConcurrentFetches goroutines
          QueueSize  \* maxPendingFetches

ASSUME CaptureAssumption ==
  IsFiniteSet(Workers) /\ Workers # {} /\ QueueSize \in Nat

VARIABLES
  sentBase, sentExtra, sentEarly, clock,  \* the browser itself
  ahead,     \* history: how far it had got, per buffered event
  pc,        \* where the main goroutine is
  failed,    \* has chromedp.Run failed?
  expired,   \* is captureCtx done?
  freezing, accept, buffer,
  queue,     \* taskQueue
  work,      \* per worker: its task or NoTask
  gone,      \* the workers that have returned
  answers    \* what came of each task that is over

controlVars == <<pc, failed, expired, freezing, accept, buffer, queue, work,
                 gone, answers>>
sentVars == <<sentBase, sentExtra, sentEarly, clock>>
seenVars == <<browserVars, ahead>>
captureVars == <<seenVars, recorderVars, sentVars, controlVars>>

B == INSTANCE Browser WITH
       baseAt <- sentBase, extraAt <- sentExtra, earlyAt <- sentEarly, clockRead <- clock

Position == [base |-> sentBase, extra |-> sentExtra, early |-> sentEarly]
Seen     == [base |-> baseAt, extra |-> extraAt, early |-> earlyAt]

\* After the step, the recorder has seen the browser up to position p, and
\* up to those of later once it has handled what is buffered.
See(p, later) ==
  LET broken == failed' \/ limitErr'
      q == IF broken THEN Position' ELSE p
  IN /\ baseAt' = q.base /\ extraAt' = q.extra /\ earlyAt' = q.early
     /\ ahead' = IF broken THEN <<>> ELSE later
     /\ UNCHANGED <<script, clockRead>>

NoTask == [id |-> "none", entry |-> 0]
Over == pc \in {"done", "failed"}

CaptureInit ==
  /\ Init /\ B!BrowserInit /\ ahead = <<>>
  /\ pc = "run" /\ failed = FALSE /\ expired = FALSE
  /\ freezing = FALSE /\ accept = TRUE /\ buffer = <<>>
  /\ queue = <<>> /\ work = [w \in Workers |-> NoTask] /\ gone = {} /\ answers = {}

\* An answer to a task: the hop whose body came back, 0 for an error, and
\* whether the expired context caused the error.
Answer(task, hop, cut) == [task |-> task, hop |-> hop, cut |-> cut]
-------------------------------------------------------------------------------
(* Events.                                                                 *)

\* The fetch tasks a step makes: at most one, as only a last hop gets any.
NewTasks ==
  {t \in UNION {[id : {r}, entry : DOMAIN chains'[r].entries] : r \in Ids} :
     chains'[t.id].entries[t.entry].asks >
       IF t.entry \in DOMAIN chains[t.id].entries
       THEN chains[t.id].entries[t.entry].asks ELSE 0}

\* scheduleLocked: a full queue turns the task into an error at once.
ScheduleLockedOrDrop ==
  IF NewTasks = {} \/ Len(queue) >= QueueSize THEN UNCHANGED <<queue, answers>>
  ELSE \E t \in NewTasks : queue' = Append(queue, t) /\ UNCHANGED answers
ScheduleLocked ==
  IF NewTasks = {} THEN UNCHANGED <<queue, answers>>
  ELSE \E t \in NewTasks :
         IF Len(queue) < QueueSize
         THEN queue' = Append(queue, t) /\ UNCHANGED answers
         ELSE answers' = answers \cup {Answer(t, 0, FALSE)} /\ UNCHANGED queue

ProcessEventAlways(e, buffered) ==
  HandleEvent(e, buffered) /\ ScheduleLocked
ProcessEventLocked(e, buffered) ==
  IF ~accept THEN Ignore /\ UNCHANGED <<queue, answers>>
  ELSE HandleEvent(e, buffered) /\ ScheduleLocked

\* While freezing, events are only buffered; they may exceed the buffer.
Buffer(e) ==
  /\ UNCHANGED <<queue, answers>>
  /\ \/ Ignore /\ buffer' = Append(buffer, e)
     \/ Exceed /\ UNCHANGED buffer
  /\ See(Seen, Append(ahead, Position'))

ListenUnbuffered(e) ==
  ProcessEventLocked(e, FALSE) /\ See(Position', <<>>) /\ UNCHANGED buffer
Listen(e) ==
  IF accept /\ freezing THEN Buffer(e)
  ELSE ProcessEventLocked(e, FALSE) /\ See(Position', <<>>) /\ UNCHANGED buffer

Deliver(r) ==
  /\ ~Over /\ pc # "replay"
  /\ UNCHANGED <<pc, failed, expired, freezing, accept, work, gone>>
  /\ \/ \E isLate \in BOOLEAN :
          B!SendBase(r, isLate) /\ Listen(B!BaseEvent(r, B!NextBase(r), isLate))
     \/ \E k \in ExtraKinds : B!SendExtra(r, k) /\ Listen(B!NextExtra(r, k))
-------------------------------------------------------------------------------
(* The main goroutine.                                                     *)

Main(from, to) == pc = from /\ pc' = to
Quiet == UNCHANGED <<seenVars, recorderVars, sentVars, queue, work, gone,
                     answers>>

\* The navigation and the wait are over: freezeAtCutoff begins.
BeginFreeze ==
  /\ Main("run", "metrics")
  /\ freezing' = TRUE
  /\ Quiet /\ UNCHANGED <<failed, expired, accept, buffer>>

\* The browser reads its clock for GetMetrics; the answer is on its way.
MetricsRead ==
  /\ Main("metrics", "cutoff")
  /\ B!ReadClock
  /\ UNCHANGED <<seenVars, recorderVars, failed, expired, freezing, accept,
                 buffer, queue, work, gone, answers>>

\* The answer has come: freeze, then replay what was buffered.
Cutoff ==
  /\ Main("cutoff", "replay")
  /\ freezing' = FALSE
  /\ ReadClock /\ FreezeAtMonotonic
  /\ UNCHANGED <<ahead, sentVars, failed, expired, accept, buffer, queue, work,
                 gone, answers>>

ReplayNewestFirst ==
  LET n == Len(buffer) IN
  /\ pc = "replay" /\ buffer # <<>>
  /\ UNCHANGED <<sentVars, pc, failed, expired, freezing, accept, work, gone>>
  /\ ProcessEventLocked(buffer[n], TRUE)
  /\ buffer' = SubSeq(buffer, 1, n - 1)
  /\ See(IF ahead = <<>> THEN Position ELSE ahead[n], SubSeq(ahead, 1, n - 1))
Replay ==
  /\ pc = "replay" /\ buffer # <<>>
  /\ UNCHANGED <<sentVars, pc, failed, expired, freezing, accept, work, gone>>
  /\ ProcessEventLocked(Head(buffer), TRUE)
  /\ buffer' = Tail(buffer)
  /\ See(IF ahead = <<>> THEN Position ELSE Head(ahead), Tail(ahead))

Replayed ==
  /\ buffer = <<>> /\ Main("replay", "drain")
  /\ Quiet /\ UNCHANGED <<failed, expired, freezing, accept, buffer>>

\* An action of chromedp.Run fails, the clock's reading included.
RunFails ==
  /\ pc \in {"run", "metrics", "cutoff"} /\ pc' = "stop"
  /\ failed' = TRUE /\ freezing' = FALSE /\ buffer' = <<>>
  /\ UNCHANGED <<recorderVars, sentVars, expired, accept, queue, work, gone,
                 answers>>
  /\ See(Position, <<>>)

Expire ==
  /\ ~Over /\ expired' = TRUE
  /\ Quiet /\ UNCHANGED <<pc, failed, freezing, accept, buffer>>

\* waitForExtraInfo ends when nothing is missing, when its timer fires or when
\* the context expires: at any time.
WaitForExtraInfo ==
  /\ Main("drain", "stop")
  /\ chains' = [r \in Ids |-> Reconcile(chains[r])]
  /\ UNCHANGED <<seenVars, sentVars, frozen, limitErr, frozenExtras,
                 orphanCount, postCutoff, dropped, failed, expired, freezing,
                 accept, buffer, queue, work, gone, answers>>

\* stopAndWaitForTasks: no more events, no more tasks.
StopTasksLeavingOpen ==
  /\ Main("stop", "wait")
  /\ Quiet /\ UNCHANGED <<failed, expired, freezing, accept, buffer>>
StopTasks ==
  /\ Main("stop", "wait")
  /\ accept' = FALSE
  /\ Quiet /\ UNCHANGED <<failed, expired, freezing, buffer>>

TasksDoneEarly == queue = <<>>
TasksDone == gone = Workers
MarkNothing == UNCHANGED recorderVars
Mark == MarkMissingExtraInfo

TasksStopped ==
  /\ TasksDone
  /\ \/ Main("wait", "failed") /\ failed /\ UNCHANGED recorderVars
     \/ Main("wait", "mark") /\ ~failed /\ Mark
  /\ UNCHANGED <<seenVars, sentVars, failed, expired, freezing, accept,
                 buffer, queue, work, gone, answers>>

\* The archive is built only if nothing cut the capture short; its validation
\* may still refuse it.
BrokenUnlessLimit == limitErr
Broken == expired \/ limitErr
Finish ==
  /\ \/ Main("mark", "failed")
     \/ Main("mark", "done") /\ ~Broken
  /\ Quiet /\ UNCHANGED <<failed, expired, freezing, accept, buffer>>
-------------------------------------------------------------------------------
(* The workers.                                                            *)

Worker(w, task) ==
  /\ w \notin gone
  /\ work' = [work EXCEPT ![w] = task]
  /\ UNCHANGED <<sentVars, pc, failed, expired, freezing, accept, buffer>>

Take(w) ==
  /\ work[w] = NoTask /\ queue # <<>>
  /\ Worker(w, Head(queue))
  /\ queue' = Tail(queue)
  /\ UNCHANGED <<seenVars, recorderVars, gone, answers>>

\* runFetchTask and setResponseBody: an error, the body the browser has for
\* the request ID now, or one that exceeds the retention limit, as every body
\* does once a limit has been exceeded.
Fetch(w) ==
  /\ work[w] # NoTask
  /\ Worker(w, NoTask)
  /\ \/ \E hop \in {0} \cup B!BodyHops(work[w].id) :
          /\ hop # 0 => ~limitErr
          /\ answers' = answers \cup
                          {Answer(work[w], hop, hop = 0 /\ expired)}
          /\ Ignore
     \/ Exceed /\ answers' = answers \cup {Answer(work[w], 0, FALSE)}
  /\ See(Seen, ahead)
  /\ UNCHANGED <<queue, gone>>

\* The queue is closed and empty.
Leave(w) ==
  /\ work[w] = NoTask /\ queue = <<>> /\ ~accept
  /\ Worker(w, NoTask) /\ gone' = gone \cup {w}
  /\ UNCHANGED <<seenVars, recorderVars, queue, answers>>
-------------------------------------------------------------------------------
MainStep ==
  \/ BeginFreeze \/ MetricsRead \/ Cutoff \/ Replay \/ Replayed \/ RunFails
  \/ WaitForExtraInfo \/ StopTasks \/ TasksStopped \/ Finish

WorkerStep(w) == Take(w) \/ Fetch(w) \/ Leave(w)

CaptureNext ==
  \/ \E r \in Ids : Deliver(r)
  \/ \E w \in Workers : WorkerStep(w)
  \/ MainStep
  \/ Expire

CaptureSpec == CaptureInit /\ [][CaptureNext]_captureVars

\* The main goroutine and the workers run when they can: requests to the
\* browser return at the latest when the context expires, and the drain has a
\* timer.  Nothing is assumed of the events.
FairSpec ==
  /\ CaptureSpec
  /\ WF_captureVars(MainStep)
  /\ \A w \in Workers : WF_captureVars(WorkerStep(w))
-------------------------------------------------------------------------------
(* Properties.                                                               *)

Task == [id : Ids, entry : Nat \ {0}]

\* The goroutines' shared state has the shape its declarations give it.
CaptureTypeOK ==
  /\ pc \in {"run", "metrics", "cutoff", "replay", "drain", "stop", "wait",
             "mark", "done", "failed"}
  /\ failed \in BOOLEAN /\ expired \in BOOLEAN
  /\ freezing \in BOOLEAN /\ accept \in BOOLEAN
  /\ queue \in Seq(Task) /\ Len(queue) <= QueueSize
  /\ work \in [Workers -> Task \cup {NoTask}] /\ gone \subseteq Workers
  /\ \A a \in answers : a.task \in Task /\ a.hop \in Nat /\ a.cut \in BOOLEAN

\* As long as no buffer has been thrown away, which no archive follows, a
\* body ends up with the hop it is the body of, although GetResponseBody
\* only takes the request ID, which all hops of a redirect share, and is
\* answered when a worker gets to it.
BodyBelongsToHop ==
  ~failed => \A a \in answers : a.hop \in {0, a.task.entry}

\* In a state of the right shape, every fetch task is in the queue, with one
\* worker, or answered once; when the archive is built, all are answered
\* (stopAndWaitForTasks).
TasksAccounted ==
  CaptureTypeOK /\ \A r \in Ids : \A i \in Entries(r) :
    LET t == [id |-> r, entry |-> i]
        answered == Cardinality({a \in answers : a.task = t})
        pending == Cardinality({n \in DOMAIN queue : queue[n] = t})
                   + Cardinality({w \in Workers : work[w] = t})
    IN /\ chains[r].entries[i].asks = answered + pending
       /\ pc \in {"mark", "done"} => pending = 0

\* Until a run fails or a limit is exceeded, the buffer and the replay do not
\* show: the recorder takes the steps of one that the browser feeds directly,
\* until the capture stops listening and only marks what is missing.
ImplementsRecorder ==
  [][\/ failed' \/ limitErr' \/ Next
     \/ ~accept /\ (Ignore \/ MarkMissingExtraInfo)]_vars

\* Buffering while the clock is read changes nothing of what the cutoff lets
\* in: neither is an event before it lost nor one after it recorded, on which
\* side of the freeze they reached the listener.
CutoffSurvivesBuffering ==
  accept /\ buffer = <<>> /\ ~failed /\ ~limitErr =>
    /\ baseAt = sentBase /\ extraAt = sentExtra /\ earlyAt = sentEarly
    /\ IntakeIsTheCutoff

\* Once stopAndWaitForTasks has closed the queue nothing is sent on it, and
\* the chains change only when the main goroutine marks them.
NothingAfterStop ==
  [][~accept => /\ Len(queue') <= Len(queue)
                /\ chains' # chains => pc = "wait"]_captureVars

\* A capture that was cut short, by a limit, a failure or the context, in
\* whatever step, writes no archive (docs/browser-session.md:94): no archive
\* lacks a body because the context had expired.
NoPartialArchive ==
  pc = "done" => ~limitErr /\ ~failed /\ \A a \in answers : ~a.cut

\* What an archive does not say is incomplete has all its extra info.
ArchiveIsHonest ==
  pc = "done" =>
    \A r \in Ids \ dropped : \A i \in Entries(r) : \A k \in ExtraKinds :
      ~chains[r].entries[i].incomplete /\ HasExtra(script[r], i, k)
        => chains[r].entries[i].extra[k].hop = i

\* No archived response silently lacks its body: it was fetched, or there is
\* an error for it, or the entry is marked as incomplete.
NoSilentlyMissingBody ==
  pc = "done" /\ IncludeBodies =>
    \A r \in Ids \ dropped : \A i \in Entries(r) :
      LET e == chains[r].entries[i]
      IN e.finished /\ e.response /\ ~script[r].hops[i].noBody =>
           \/ e.bodyError \/ e.incomplete
           \/ \E a \in answers : a.task = [id |-> r, entry |-> i]

\* Every capture ends: the queue is closed, the workers leave, nobody waits
\* for somebody who waits.
Termination == <>Over
===============================================================================
