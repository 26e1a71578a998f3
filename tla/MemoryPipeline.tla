--------------------------- MODULE MemoryPipeline ---------------------------
(***************************************************************************)
(* The pipeline of the memory store: webhook handlers push alerts into a   *)
(* bounded channel (pkg/store/provider/memory), Dispatcher.Run pulls them  *)
(* in batches and processes each in a goroutine behind a bounded worker    *)
(* queue (pkg/dispatcher/dispatcher.go), the history stage runs after it;  *)
(* SIGTERM closes the store and the process ends when Run returns (Main).  *)
(***************************************************************************)
EXTENDS Naturals, Sequences, FiniteSets, Functions

CONSTANTS Handlers,        \* requests in flight
          Requests,        \* the alerts of each, a sequence
          QueueLen, BatchSize, Workers,
          MaxRetries,      \* history: retries after the first try
          MaxBatches       \* every alert in a batch of its own, and the last one

Alerts == UNION {Range(Requests[h]) : h \in Handlers}

\* A request without alerts pushes nothing; every alert is one of its own.
ASSUME MemoryConstants ==
    /\ QueueLen \in Nat \ {0} /\ BatchSize \in Nat \ {0} /\ Workers \in Nat \ {0}
    /\ MaxRetries \in Nat
    /\ Requests \in [Handlers -> Seq(Alerts) \ {<<>>}]
    /\ \A h \in Handlers : /\ IsInjective(Requests[h])
                            /\ \A g \in Handlers \ {h} : Range(Requests[g]) \cap Range(Requests[h]) = {}

VARIABLES handler,         \* [at, next] of each request
          channel, store,  \* the channel, and "open", "closing" or "closed"
          run,             \* Dispatcher.Run: [at, batch]
          batches          \* processAlerts: [alerts, at, history, tries, inline]

memoryVars == <<handler, channel, store, run, batches>>

MemoryInit ==
    /\ handler = [h \in Handlers |-> [at |-> "idle", next |-> 1]]
    /\ channel = <<>> /\ store = "open"
    /\ run = [at |-> "pulling", batch |-> <<>>]
    /\ batches = <<>>

Alive == run.at # "exited"
-----------------------------------------------------------------------------
(***************************************************************************)
(* Alert, for one request.                                                 *)
(***************************************************************************)
Respond(h, a) == handler' = [handler EXCEPT ![h].at = a]

Accepting(h) ==
    /\ Alive /\ handler[h].at = "idle"
    /\ Respond(h, IF store = "open" THEN "pushing" ELSE "refused")
    /\ UNCHANGED <<channel, store, run, batches>>

\* A send on the closed channel panics; net/http drops the connection.
PushAlert(h) ==
    /\ Alive /\ handler[h].at = "pushing"
    /\ IF store = "closed"
       THEN Respond(h, "broken") /\ UNCHANGED channel
       ELSE /\ Len(channel) < QueueLen
            /\ channel' = Append(channel, Requests[h][handler[h].next])
            /\ handler' = [handler EXCEPT ![h] =
                   [at |-> IF @.next = Len(Requests[h]) THEN "ok" ELSE "pushing", next |-> @.next + 1]]
    /\ UNCHANGED <<store, run, batches>>

PushTimeout(h) ==
    /\ Alive /\ handler[h].at = "pushing" /\ store # "closed" /\ Len(channel) = QueueLen
    /\ Respond(h, "refused")
    /\ UNCHANGED <<channel, store, run, batches>>
-----------------------------------------------------------------------------
(***************************************************************************)
(* Dispatcher.Run.                                                         *)
(***************************************************************************)
Batch(alerts, inline) ==
    [alerts |-> alerts, at |-> IF alerts = <<>> THEN "done" ELSE "waiting",
     history |-> "none", tries |-> 0, inline |-> inline]

Receive ==
    /\ run.at = "pulling" /\ channel # <<>>
    /\ LET got == Append(run.batch, Head(channel))
       IN  IF Len(got) >= BatchSize
           THEN batches' = Append(batches, Batch(got, FALSE)) /\ run' = [run EXCEPT !.batch = <<>>]
           ELSE run' = [run EXCEPT !.batch = got] /\ UNCHANGED batches
    /\ channel' = Tail(channel)
    /\ UNCHANGED <<handler, store>>

BatchWait ==
    /\ run.at = "pulling" /\ run.batch # <<>>
    /\ batches' = Append(batches, Batch(run.batch, FALSE))
    /\ run' = [run EXCEPT !.batch = <<>>]
    /\ UNCHANGED <<handler, channel, store>>

\* Mutant: a closed store is taken to be empty.
StoreClosedEarly ==
    /\ run.at = "pulling" /\ store = "closed"
    /\ run' = [at |-> "last", batch |-> <<>>]
    /\ batches' = Append(batches, Batch(run.batch, TRUE))
    /\ UNCHANGED <<handler, channel, store>>

\* The channel is closed and empty: the rest is processed inline ...
StoreClosed ==
    /\ run.at = "pulling" /\ store = "closed" /\ channel = <<>>
    /\ run' = [at |-> "last", batch |-> <<>>]
    /\ batches' = Append(batches, Batch(run.batch, TRUE))
    /\ UNCHANGED <<handler, channel, store>>

BatchOver(b) == b.at \in {"done", "dropped", "timeout", "leaked"}

\* ... and Run returns, Main with it.
RunReturns ==
    /\ run.at = "last" /\ \A i \in DOMAIN batches : batches[i].inline => BatchOver(batches[i])
    /\ run' = [run EXCEPT !.at = "exited"]
    /\ UNCHANGED <<handler, channel, store, batches>>
-----------------------------------------------------------------------------
(***************************************************************************)
(* processAlerts, its worker and the history stage.                        *)
(***************************************************************************)
Held == Cardinality({i \in DOMAIN batches : batches[i].at = "working"})
Turn(i, a) ==
    /\ Alive /\ batches' = [batches EXCEPT ![i].at = a]
    /\ UNCHANGED <<handler, channel, store, run>>

getWorker(i) == batches[i].at = "waiting" /\ Held < Workers /\ Turn(i, "working")

\* The worker queue stayed full: the batch is dropped.
ScheduleTimeout(i) == batches[i].at = "waiting" /\ Held >= Workers /\ Turn(i, "dropped")

\* The pipeline returns; history gets its output whatever became of the wait.
PipelineReturns(i) ==
    /\ Alive /\ batches[i].at \in {"working", "timeout"}
    /\ batches' = [batches EXCEPT ![i].at = IF @ = "working" THEN "done" ELSE "leaked",
                                  ![i].history = "due"]
    /\ UNCHANGED <<handler, channel, store, run>>

\* processAlerts gives up waiting and its place; the worker goes on, and will
\* stay behind at its unbuffered stop channel.
WorkerTimeout(i) == batches[i].at = "working" /\ Turn(i, "timeout")

\* Exec of the history stage: up to MaxRetries more tries.
History(i) ==
    /\ Alive /\ batches[i].history = "due"
    /\ \E ok \in BOOLEAN :
          batches' = [batches EXCEPT ![i].tries = @ + 1, ![i].history =
              IF ok THEN "written" ELSE IF batches[i].tries = MaxRetries THEN "lost" ELSE "due"]
    /\ UNCHANGED <<handler, channel, store, run>>
-----------------------------------------------------------------------------
\* AlertStore.Close: the flag first, then the channel.
Close ==
    /\ Alive /\ store = "open" /\ store' = "closing"
    /\ UNCHANGED <<handler, channel, run, batches>>

CloseChannel ==
    /\ Alive /\ store = "closing" /\ store' = "closed"
    /\ UNCHANGED <<handler, channel, run, batches>>

Process(i) == getWorker(i) \/ ScheduleTimeout(i) \/ WorkerTimeout(i)

MemoryNext ==
    \/ \E h \in Handlers : Accepting(h) \/ PushAlert(h) \/ PushTimeout(h)
    \/ Receive \/ BatchWait \/ StoreClosed \/ RunReturns
    \/ \E i \in DOMAIN batches : Process(i) \/ PipelineReturns(i) \/ History(i)
    \/ Close \/ CloseChannel

MemorySpec == MemoryInit /\ [][MemoryNext]_memoryVars

\* Timers fire and goroutines run; nothing makes a pipeline return in time.
MemoryFairness ==
    /\ WF_memoryVars(Receive) /\ WF_memoryVars(BatchWait) /\ WF_memoryVars(StoreClosed) /\ WF_memoryVars(RunReturns)
    /\ WF_memoryVars(CloseChannel)
    /\ \A h \in Handlers : WF_memoryVars(PushAlert(h) \/ PushTimeout(h))
    /\ \A i \in 1..MaxBatches : WF_memoryVars(i \in DOMAIN batches /\ Process(i))
-----------------------------------------------------------------------------
Pushed == {a \in Alerts : \E h \in Handlers : \E i \in 1 .. (handler[h].next - 1) : a = Requests[h][i]}
InBatch(i) == Range(batches[i].alerts)

\* An alert the store has taken is in the channel, in the batch being pulled
\* or in one batch, once; and a request answered with 200 has all of its
\* alerts there, also when the store is closed while it is being pushed.
AcceptedOnce ==
    /\ Pushed = Range(channel) \cup Range(run.batch) \cup UNION {InBatch(i) : i \in DOMAIN batches}
    /\ IsInjective(channel) /\ IsInjective(run.batch) /\ Range(channel) \cap Range(run.batch) = {}
    /\ \A i \in DOMAIN batches :
          /\ IsInjective(batches[i].alerts)
          /\ InBatch(i) \cap (Range(channel) \cup Range(run.batch)) = {}
          /\ \A k \in DOMAIN batches \ {i} : InBatch(i) \cap InBatch(k) = {}
    /\ \A h \in Handlers : handler[h].at = "ok" => Range(Requests[h]) \subseteq Pushed

\* No alert is acknowledged and left in the channel by a Run that returned.
DrainedBeforeExit == run.at = "exited" => channel = <<>> /\ run.batch = <<>>

\* "Dispatcher should process remaining alerts, then exit."
RemainingAreProcessed == run.at = "exited" => \A i \in DOMAIN batches : BatchOver(batches[i])

\* Every batch is processed, dropped or timed out while the process lives, and
\* once the store is closed Run returns, although pipelines may hang.
BatchSettles ==
    \A i \in 1..MaxBatches : (i \in DOMAIN batches) ~> (~Alive \/ (i \in DOMAIN batches /\ BatchOver(batches[i])))

\* Closing the store ends the dispatcher.
DispatcherReturns == (store = "closing") ~> ~Alive

\* While requests push, batches are pulled and the store is closed, an acknowledged
\* alert is put into a batch once and none is left in the channel when Run returns.
\* A batch that is still waiting then is lost: see RemainingAreProcessed.
AlertsAreKept == AcceptedOnce /\ DrainedBeforeExit
=============================================================================
