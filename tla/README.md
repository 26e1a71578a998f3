# A verification of notification-manager

notification-manager takes alerts over HTTP, decides who gets them, and posts
them to chat platforms, mail servers and webhooks. In its durable mode an
accepted notification becomes a frozen plan in a local bbolt database (the
*spool*), from which a pool of workers sends it; an executor attaches
annotations to the posted cards and reports receipts; an operator hands the
stable Service from one sender to the next.

The promise that matters most is about cards in a chat: an acknowledged alert is
not lost, and a card is not posted twice because a process died, an answer got
lost or a commit failed. This project states that promise and the promises of
the parts around it as TLA+ specifications of the code, checks them with TLC on
small instances, and proves the central ones with TLAPS for every value of the
parameters.

Paths are relative to the repository (`src/` in `PROJECT.json`). `PROJECT.json`
maps every definition to the lines it models and lists the hazards of the code
with the properties that would catch them.

## 1. The system and its modules

```
 HTTP ─ IntakeGateway ─ PipelineStages ─ FrozenPlan ─┐          ReceiverKinds
            │ (memory mode)                          │          ConfigController
      MemoryPipeline                      NotificationSpool + DeliveryProfiles
            │                                        │
            └────────── notifiers ──────── DurableDispatcher ── DeliveryLedger
   FeishuNotifier ChannelNotifiers                   │            (abstract)
   MessageSplit Throttle TokenCache             SuccessRelay
                                                     │ HTTP
   SenderHandoff (operator)          executor: ReceiptOutbox CardWriter
                                     ExecutorScopes AnnotationContract
                                     DeliveryIdentity
```

### Durable delivery

| Module | Models | State and actions |
|---|---|---|
| `DeliveryProfiles` | `pkg/notification_spool/profiles.go` | `registered`, `pstate`; `RegisterProfiles`, `ControlProfile`, the admission and pause predicates. No Next of its own: the spool extends it, in whose transactions these run. |
| `NotificationSpool` | `store.go`, `maintenance.go`, `health.go` of that package | one variable per bucket, the open handle, the disk, the clock; one action per Store operation, since each is one bbolt transaction. |
| `DurableDispatcher` | `pkg/dispatcher/durable.go`, `SendFrozen`, `pkg/utils/delivery.go`, shutdown, `cmd/notification-spool-recovery` | extends the spool. `agent` holds the program counter and claim of every worker and of the tool, `senders` the goroutines inside Notify (orphans too), `net`, `replies`, `accepted` the platform. |
| `DeliveryLedger` | what durable delivery promises | per target a verdict, the cards posted and the sends granted. |
| `DispatcherLedger` | the refinement mapping | see section 4. |
| `IntakeGateway` | `pkg/webhook/v1`, `pkg/deliveryprofiles`, startup of `cmd/notification-manager` | extends the spool. `boot` is Main's progress, `req` the requests in progress with the snapshot they carry, `view` what operators have read. |
| `FrozenPlan` | `ApplyProfile`, `Freeze`, `BindFrozenProfile`, `FreezeHistory`, the checks of `SendFrozen` | the cluster (receivers, Config, Secret, lagging copy), one plan, one card. Edits happen between any two steps. |

`DurableDispatcher` and `IntakeGateway` compose their processes with the real
actions of the spool, not with a summary of it: a worker's claim *is*
`ClaimEntry`, an acknowledged request *is* a `Submit`.

### The manager

| Module | Models | State and actions |
|---|---|---|
| `SenderHandoff` | `controllers/notificationmanager_controller.go`, `sender_handoff.go` | API objects and the informer's copies of them; Reconcile reads one object at a time and writes with optimistic concurrency. |
| `ConfigController` | `pkg/controller/controller.go` | informer caches and event queues, the task channel, reload goroutines, receivers and configs by tenant. |
| `ReceiverKinds` | `apis/v2beta2`, `pkg/internal`, constructors of `pkg/notify/notifier` | a resource through admission, decoding, lookup, validation, opening and reconfiguration, for the ten kinds. |
| `PipelineStages` | `pkg/silence`, `route`, `filter`, `aggregation`, `stage`, selectors | one batch through the stages, against a reference definition of who must get it. |
| `MemoryPipeline` | `pkg/store/provider/memory`, `pkg/dispatcher/dispatcher.go` | handlers, bounded channel, batches behind the worker queue, close and exit. |
| `FeishuNotifier` | `pkg/notify/notifier/feishu` | one Notify: a retry loop per target, the collection of results, the platform. |
| `ChannelNotifiers` | the other notifiers, `pkg/async/group.go` | one Notify: a goroutine per part and target, Wait, the end of the context. |
| `MessageSplit` | `Template.Split`, WeChat's recipient batches | the loops, a step per iteration. |
| `Throttle` | `dingtalk/throttle.go` | limiter, mutex held over the sleep, callers, clock. |
| `TokenCache` | `notifier/token.go` as WeChat uses it | tokens by key, the mutex, the goroutines that calls leave behind. |

### The executor and its contracts

| Module | Models | State and actions |
|---|---|---|
| `SuccessRelay` | `pkg/jevshadow/relay.go`, `relay_gaps.go` | queue, counters, gap journal, both goroutines and shutdown, one step per atomic operation. |
| `ReceiptOutbox` | `receipt_outbox.go`, `observation.go` | a receipt as file in `pending/`, `completed/`, `dead-letter/`, in memory and on disk; crash, power loss, failed writes. |
| `CardWriter` | `card_writer.go`, `card_state.go`, `executor_lease.go`, the PATCH of `feishu.go` | threads, locks, binding cache, state file, what a power loss leaves of it and what a start moved to `dead-letter/`, the card on the platform. |
| `ExecutorScopes` | `delivery_scopes.go`, scope checks of `service.go`, `feedback.go` | scope files and bindings over restarts with an edited configuration. |
| `AnnotationContract` | schemas, validation, stored form and rendering in `service.go` | one component from the wire to the card. |
| `DeliveryIdentity` | `receipt.go`, `canonical_identity.go`, stamping in `pkg/notify/notify.go` | dispatches of a fan-out and the receipts they produce. |

`Absence` declares `Nil`, `Notifiers` states what all notifiers promise. The `MC*`
modules give constants their values. `SpoolInvariant` defines the inductive
invariant of the spool; `*_proofs` and `DispatcherTheorems` hold the theorems, those
about the parts of the manager in `Manager_proofs` and `Notifier_proofs`, those about
what the parts agree on in `Contracts_proofs`.

### How the code is read

- A Store operation that returns an error rolls its transaction back; a rejected
  call is therefore a step that is not taken. A failed *commit* stores nothing
  and raises the outage signal (`WriteFails`); a caller that reacts to it
  (worker, sender, request) takes `WriteFails` together with its own reaction.
- The bbolt file lock makes at most one process hold a Store: manager or
  recovery tool. `handle.owner` counts opens and stands for the owner UUID; an
  attempt ID is the attempt number.
- Target IDs are hashes; `Rank` is their order in the bucket, an arbitrary
  injective function. A target is an intake and an item of its plan; `Deps` are
  an item's `DependencyRevisions`.
- `Claim` scans `ready` in key order and decodes every row into one variable
  declared outside the loop (`store.go:380`). Fields with `omitempty` survive
  from a skipped row. `DecodedProfile`, `DecodedOutcome` and `DecodedEvidence`
  model just that, so pause, validation and the stored row see what the code
  sees. The dependencies may be inherited too; they are only read of rows in
  `blocked`, which are never claimed.
- `acceptDurable` gives a key the repeat interval when it contains `:am:`
  (`handler.go:474`). The modelled Idempotency-Keys do not.
- The notify stage stamps the time of a dispatch on an alert that has none
  (`notify.go:86`); the modelled alerts bring none.
- Clocks are coarse counters and move at any moment. Backoffs and deadlines are
  flags that elapse at any moment, which covers every length.
- The `audit` bucket is reduced to `grants`: how often an operator sent a
  target back to be retried. `key` in an intake row and `fresh` in a request are
  auxiliary: the code does not store them, no guard reads them.
- Platforms, executor and Jev are environments: a request in flight may be
  accepted, refused or lost at any time, also after its sender gave up, and an
  answer may never arrive.
- A file is durable once its directory is synced: a write fails before its
  rename or after it, and a power loss leaves any content since the last sync.
- A card's state file that a start cannot read or validate is moved to
  `dead-letter/` (`card_state.go:160`), whatever made it unreadable, or left where
  it is when it cannot be moved. `quarantined` remembers what was moved; no guard
  reads it. Executors that write one card have a directory in common: with
  none in common they would not share the state file either (`CardConstants`).
- A receiver or config is held with its resource version, except that
  `discord.NewReceiver` sets none: `GetResourceVersion` of a Discord receiver is 0
  (`DiscordReceivers`). A resource with several channels is read through the entry
  that map iteration finds first; one that has Discord among them counts as a
  Discord receiver.
- A hash over a canonical encoding is the encoded value; times are counted in
  half microseconds where the code truncates to microseconds; probabilities are
  whole percents. A rendered alert is its size. A regular expression is the set
  of values it matches.
- `waitSendBudget` is a grant or a timeout. The byte capacity of the spool is a
  rejection that may happen at any time.

## 2. Runs

Bounds are constants of the modules and appear as conjuncts of the actions they
limit (`MaxTime`, `MaxAttempts`, `MaxOpens`, `MaxRevision`, `MaxFaults`,
`MaxEdits`, ...). `CHECK_DEADLOCK FALSE` everywhere: an instance stops when its
bounds are used up, and requests, batches and notifications end.

A run may take several *parts* or *scenarios*: the initial state chooses one and
only that one moves. They share no state, so this is the same as checking them
one after the other.

| Run | Parts or scenarios | Shows |
|---|---|---|
| `spool_history` | | One plan of two originals and their history through every order of intake, claims, completions, reconciliation, disk faults and two opens, the second with another limit. Two originals separate "any" from "all" and a first release from a second. |
| `spool_lanes` | `lanes`, `capacity`, `repeat` | Two lanes with unprofiled rows in one queue, in a hash order that makes `Claim` skip rows; intake and the retry of a dead letter competing for the last place; repeats of a key with an interval and of one without, over three ticks, a reopening and cleanup. |
| `dispatcher_once` | | Two workers (symmetric), the recovery tool, three opens, two attempts, pauses, a failing disk, and a platform that accepts, refuses, loses or delays. Two attempts are enough for a second card, three opens for a crash, a decision of the operator and a second manager. The same run checks that the dispatcher implements the ledger. |
| `dispatcher_shutdown` | | A draining manager ends, with history that stays blocked, work left Sending by a failed completion and a disk that never recovers; the outage signal clears under the periodic cleanup alone. |
| `gateway` | `restart`, `notifications` | Two copies of one alert against control operations of two operators (symmetric), SIGTERM, crashes at every point of startup and a restart with the same or another configured version; two notifications of different content, with and without an Idempotency-Key, on a lane that operators prepare and activate, with disk faults. |
| `executor` | `relay`, `outbox`, `card`, `lease`, `scopes` | A full relay queue, an oversized delivery and a full gap channel against shutdown; two receipts over failed writes and crashes; a succession of revisions on one card by two threads with a crash, a failed write or a quarantine of the state file, and a power loss (two bindings: a thread holds one at most); two executors that name the same directories in opposite orders; three scopes over two restarts with edited owners. |
| `executor_progress` | `relay`, `stuck`, `outbox`, `lease` | What must end does: see Fairness. In `stuck` the relay's goroutines and the executor stand still. |
| `manager` | `handoff`, `controller`, `moves`, `memory`, `feishu`, `channels`, `throttle`, `token`, `split` | Three changes of the wanted sender over a cache in which every object may lag; four edits of a receiver, a Discord receiver and a config with a channel of one place and a reload (`moves`: without deletions); two requests through a queue of one; every kind of Feishu receiver and every other channel, with none to two parts, and lost, limited and uncoded answers; three callers of a limiter with threshold 1 and 2; two users of one token; all notifications of up to three alerts with sizes around the limit. |
| `control_progress` | `handoff`, `controller`, `memory` | Liveness of the control loops and of the pipeline. |
| `notifiers_progress` | `feishu`, `channels`, `token`, `split` | Liveness of the notifiers. |
| `contracts` | `annotation`, `identity`, `kinds`, `settings`, `stages`, `scoped`, `team` | Pure algorithms against reference definitions, over every wire object, alert, resource and policy of the small sets in `MCContracts`, and the frozen plan on both lanes under edits of the cluster. |
| `spool_own_outcome` | | A violation, see Findings. |

The passing runs take from a few seconds to about three minutes with two workers.
Every property has a mutant: a plausible error in one modelled function (a
dropped index update, a missing release, a retry after a transport error, a
revision that is not compared) under which the same run finds it violated. The
mutants stand next to the definitions they change.

A property of a run is one idea, and often a named conjunction of the facts that
make it up: `SentOnce` of the manager is the promise of each notifier,
`NothingIsUndone` of the executor that of each file. The conjuncts have names and
comments of their own, next to the code they are about.

| Run | Properties |
|---|---|
| `spool_history` | `IndexesExact`, `HistoryWaitsForOriginal`, `SendingIsOwned` |
| `spool_lanes` | `CapacityRespected`, `IntentsKeepOnePlan`, `PauseIsPerLane`, `ClaimsTakeTheirOwn` |
| `dispatcher_once` | `AtMostOnce`, `ClaimsStayValid`, `PauseQuiesces`, `ImplementsLedger` |
| `dispatcher_shutdown` | `ShutdownCompletes`, `OutageClears` |
| `gateway` | `AckedIsStored`, `RevisionIdentifiesState`, `NoAdmissionAcrossControl`, `StartupIsSafe` |
| `executor` | `RelayAccounts`, `ReceiptsAreKept`, `CardIsAccounted`, `OneOwnerPerDir`, `CardsKeepTheirScope`, `NothingIsUndone` |
| `executor_progress` | `ExecutorGoesOn` |
| `manager` | `ReceiversAreHeld`, `AlertsAreKept`, `SuccessMeansDelivered`, `SentOnce`, `RateRespected`, `FetchedOnce`, `SplitLosesNothing`, `HandoverKeepsASender`, `NeverOlder` |
| `control_progress` | `ControlSettles` |
| `notifiers_progress` | `NotifiersEnd` |
| `contracts` | `AnnotationsAreSound`, `IdentitiesCorrelate`, `AcceptedIsUsable`, `StagesAreRight`, `PlanIsKept` |
| `spool_own_outcome` | `OwnOutcome` |

Some facts of `manager` hold under a premise that the instance sets and that
the code does not guarantee; section 5 says what happens without it.
`NoneMissing` and `HeldOnce` (in `ReceiversAreHeld`) and `NeverOlder` are checked
with one spec of the manager, and speak of what keeps its version: of a Discord
receiver only that it is held. `SuccessMeansDelivered` names the answers that the
code takes for a success and that are none, and exempts exactly those: an error
status whose body has no code, to a Feishu chat bot outside a frozen plan
(`Misread`); the reply of a mail server to the end of a message, which nobody reads
(`Through`); a message that WeChat or a DingTalk conversation cannot split, for
which they return `nil` without having sent. A notification of which `Split` leaves
nothing starts no sender and returns `nil`; there is nothing then that should have
been delivered, and `SplitLosesNothing` says that this only happens when every alert
is too large by itself. `RateRespected` is about `Allow` alone: a chat bot also sends
what `Allow` refused (`DroppedIsNotSent` in section 5). `AckedIsDisplayed` and
`CardNeverRewinds` (in `CardIsAccounted` and `NothingIsUndone`) hold up to the first
quarantine of the card's state: then the platform keeps a card that the executor
no longer knows (`DisplayedIsKnown` says that the file in `dead-letter/` still does),
the next capture starts at revision 0, and its first PATCH drops the older
annotations. `AcceptedIsUsable` leaves out the five forms that admission does not look
at (`OnlyValidateSees`).

### Fairness

Weak fairness stands for the Go scheduler: a goroutine that can go on does.
Strong fairness appears only where several goroutines wait for one mutex or one
channel: Go's mutexes are starvation-free (starvation mode) and senders blocked
on a channel are served in order. No platform, executor, API server client or
disk is assumed to answer, succeed or recover.

The facts are conjuncts of `ExecutorGoesOn`, `ControlSettles` and `NotifiersEnd`,
and the two properties of `dispatcher_shutdown`.

| Fact | Assumed |
|---|---|
| `ShutdownCompletes`, `OutageClears` | each worker's steps and sends, sender goroutines, exit, time, and the maintenance ticker of `runDurable`. Notify returns at the latest when its context ends. Nothing is assumed of intake: a replica that is not ready gets none. |
| `ScheduledRelayStops` | relay, gap writer, offers, the shutdown deadline. |
| `OfferReturns`, `ShutdownReturns` | only the offering goroutines, shutdown and its deadline: they must not depend on the relay (`stuck`). |
| `EveryReceiptSettles`, `CloseReturns` | restart after a crash, the worker's loop, elapsing backoffs. |
| `HandlerReturns`, `SomeExecutorServes` | handlers, starting processes, strongly fair locking of a binding. |
| `HandoverIsRealised` | Reconcile is retried, informers catch up, Deployments roll out; flaps are bounded. |
| `ChangesSettle` | the task loop; strongly fair sends into its channel. |
| `BatchSettles`, `DispatcherReturns` | receive, timers, handlers, batch goroutines; a pipeline may hang until its timeout. |
| `FeishuSendersEnd`, `NotifyReturns`, `SendersEnd` | senders, collection of results, the end of the context; an answer may never come. |
| `CallsReturn` | the deadline of a call, the mutex of the token service. |
| `MessageSplitEnds` | the loops run. |

## 3. Proofs

Constants are only assumed to satisfy the named `ASSUME`s of their modules:

- the spool: finite sets of intakes and items, an injective hash order, a
  positive repeat interval (`SpoolConstants`, `ProfileConstants`);
- the dispatcher: the tool's goroutine is no worker, the grace period is a number,
  manager and tool use limits that are allowed (`DispatcherConstants`);
- the gateway: direct and keyless requests go to one formal lane, since
  `webhook.go:53` routes them to no other, and the test lane only admits
  Alertmanager alerts (`GatewayConstants`);
- the executor: `Nil` is no process, binding, request, receipt or delivery, an
  annotation's revision is a number (`service.go:830` parses it as one), executors
  that write the same card have a directory in common, and the
  marker of an empty binding file is no identity (`CardConstants`,
  `MissingState`, `ScopeConstants`, `OutboxConstants`, `RelayConstants`);
- the handover: the API's objects and phases are not `Nil`
  (`HandoffConstants`); the controller: an object is a kind and a name, and not
  `Nil` (`ControllerConstants`);
- the memory pipeline: every alert of every request is one of its own, and no
  request is empty (`MemoryConstants`): an alert that is sent twice is two alerts;
- the notifiers: `Nil` is no answer of a platform (`FeishuConstants`), and a
  notification has finitely many targets and any number of parts, none included
  (`NotifierConstants`); the limiter: positive settings (`ThrottleConstants`); the
  tokens: `Nil` is no call (`TokenConstants`); the ledger and the annotations: nothing;
- the identities: a group that is sent has alerts, and within a fanout an alert's
  fingerprint stands for one start in every channel of its group (`IdentityConstants`);
- the receiver kinds: `spec.receivers` names message types that the channel
  documents, and only the kinds whose resource can leave a mandatory part out do so
  (`OptionConstants`, `KindConstants`);
- the stages: a silence has a matcher, which its CRD requires
  (`apis/v2beta2/silence_types.go:31`; `Matches` would dereference it), the policy
  is one of the three documented ones, and routers name receivers that there are
  (`StageConstants`);
- the plan: profiles are registered under their lane and version, a Config has one
  of the three forms of credentials, and no receiver is called like the history
  targets (`PlanConstants`).

`USE Zenon` stands at the head of each of these modules: Zenon is asked first, and
a leaf that needs arithmetic, records or many cases cites SMT.

Names of TLC's bounds (`MaxOpens`, `MaxAttempts`, `MaxFaults`...) stay parameters:
a theorem holds for every value of them.

| Theorem | Statement |
|---|---|
| **NotificationSpool_proofs** | |
| `SpoolInvariant` | `SpoolSpec => []SpoolInv` |
| `TypeCorrect` | `SpoolTypeOK` always |
| `IndexesAreExact` | `IndexesExact` always |
| `HistoryWaits` | `HistoryWaitsForOriginal` always |
| `CapacityHolds` | `CapacityRespected` always: `ActiveCountExact` and `ActiveWithinLimit` |
| `AttemptsAreOwned` | `SendingIsOwned` always |
| `IntentsAreUnique` | `IntentsKeepOnePlan` always: `PlansAreWhole` and `OnePlanPerIntent` |
| `PauseStaysInItsLane` | `PauseIsPerLane` always |
| `SkippedRowsDoNotLeak` | `ClaimsTakeTheirOwn`: the action properties `PausedNeverClaimed` (`PauseStopsClaims`) and `FrozenProvenance` (`ProvenanceIsFrozen`) |
| **DispatcherTheorems** | |
| `DispatcherInvariant` | `DispatcherSpec => []DispatcherInv` |
| `DispatcherRunsTheSpool` | `DispatcherSpec => SpoolSpec`: every theorem about the spool holds of the dispatcher |
| `ClaimsAreValid` | `ClaimsStayValid` always |
| `CardsAreSentOnce` | `AtMostOnce` always |
| `PausedLanesQuiesce` | `PauseQuiesces` |
| `DispatcherImplementsLedger` | `ImplementsLedger`: the refinement of section 4 |
| **IntakeGateway_proofs** | |
| `GatewayInvariant` | `GatewaySpec => []GatewayInv` |
| `GatewayRunsTheSpool` | `GatewaySpec => SpoolSpec` |
| `AcknowledgedIsStored` | `AckedIsStored` always |
| `RevisionsIdentifyStates` | `RevisionIdentifiesState` always |
| `AdmissionsAreCurrent` | `NoAdmissionAcrossControl` |
| `StartupSafe` | `StartupIsSafe` |
| **Executor_proofs** | |
| `ScopesInvariant`, `ScopesAreKept` | `ScopesInv`, `CardsKeepTheirScope` always |
| `CardInvariant`, `CardsAreAccounted` | `CardInv`, `CardIsAccounted` always |
| `DirectoriesHaveOneOwner` | `OneOwnerPerDir` always |
| `CardsMoveOn` | `CardNeverRewinds` |
| `OutboxInvariant`, `CompletionsAreTrue` | `OutboxInv` always; what is completed was accepted with its observation, attempts are bounded, power loss or not |
| `AcknowledgedReceiptsAreKept` | without power loss, `ReceiptsAreKept` always |
| `TerminalReceiptsAreFinal`, `ConfirmationsStay` | without power loss, `TerminalIsFinal`, and with the cards `NothingIsUndone` |
| **Manager_proofs** | |
| `RelayInvariant`, `RelayAccountsForAll` | `RelayInv`, `RelayAccounts` always |
| `ControllerInvariant`, `ReceiversAreHeldOnce` | if nothing is deleted and the manager has one spec (`Steady`), `ControllerInv` and `HeldOnce` always, and every step is `KeepsNewest`, for all but Discord receivers |
| `ReceiversArrive` | if also the tenant selector is set (`Selecting`), `NoneMissing` always |
| `LedgerSendsOnce`, `LedgerIsFinal` | the ledger posts at most once plus its grants, and nothing after a verdict of the platform without a grant |
| **Notifier_proofs** | |
| `HandoffInvariant`, `HandoverIsOrdered` | `HandoffInv` always; `RetiredAfterHandover` and `RemovalSwitchesNothing`, whichever copies lag |
| `HandoverIsSafe` | `HandoverKeepsASender`, whichever copies lag |
| `MemoryInvariant`, `AcceptedAlertsAreKept` | `MemoryInv`, `AlertsAreKept` always |
| `FeishuInvariant`, `NotifyInvariant` | `FeishuInv`, `NotifyInv` always |
| `SuccessIsTrue`, `RetriesSendOnce` | `SuccessMeansDelivered`, `SentOnce` always |
| `TokenInvariant`, `TokensAreShared` | if no agent ID is a secret of its corporation (`KeysApart`), `TokenInv`, `FetchedOnce` always |
| `RateIsRespected`, `SleepersOwnTheQueue` | `RateRespected`, `SleeperOwnsTheQueue` always |
| **Contracts_proofs** | |
| `AcceptedAnnotationsAreSound` | `StoredFormDecodes`, `PoolReachesThreshold`, `ExceptionKeepsOriginal` always |
| `IdentitiesTellDeliveriesApart` | `ReceiptsCorrelate`, `RepeatsStaySeparate` always |
| `KindsInvariant`, `AcceptedReceiversAreUsable` | `KindsInv`, `AcceptedIsUsable` always |
| `StagesInvariant`, `StagesNotifyTheRight` | `StagesInv`, `StagesAreRight` always |
| `PlanInvariant`, `AcceptedPlanIsKept` | `PlanInv`, `PlanIsKept` always |

**Spool.** The invariants are proved together, since they need each other: the
index of a row tells that it is due, a due row is counted, a whole plan has its
originals. `SpoolInv` (module `SpoolInvariant`) adds three facts that none of
them implies:

- `PlansOwned`: an intake lists only targets of its own, and an absent one
  none. Without it a new plan could overwrite rows of an old one.
- `LimitAllowed`: the limit of an open Store is one that a process may
  configure. It links the check in `submit` and `Resolve` to the bound.
- `KeysLeadToLatest`: a dedupe key leads to the *latest* plan of its intent, and
  earlier ones are complete and an interval older. `submit` compares with one
  plan only; this is why that is enough for all of them.

The module goes from the attempts (`Finish` and `Resolve` share `Conclude`, one
rewritten row and the history it releases) over `CleanupCompleted` (only
settled, whole plans are erased, so no index, counter or waiting history notices)
to `submit`. Frame lemmas (`IndexFrame`, `HistoryFrame`, `CounterFrame`,
`PlansFrame`, `KeysFrame`) say which rows each conjunct looks at, so that an
action's proof is about what it disturbs. For the two action properties,
`ClaimDecodesOwn` shows that the row `Claim` stores has its own profile: a
profile inherited from a skipped row belongs to a paused lane, so that the scan
would have gone on.

**Dispatcher.** `DispatcherInv` adds to `SpoolInv`:

- `CountsInv`: a row counts its attempts, an absent row is empty, opens are
  numbered. An erased row that came back would reuse attempt numbers.
- `ClosedInv`, `AgentsInv`, `SendersInv`: a goroutine holds a claim from the
  claim to its `Finish`, two never hold one target, Notify waits for exactly one
  live sender of its claim, and a sender that was left behind has not sent.
- `MessagesInv`: whatever is on the wire belongs to a claim that was handed out,
  for a row that still counts it or that left a tombstone.
- `AccountsInv`: cards posted or under way (`Spent`) are at most one plus the
  operator's grants, and no more than the grants while the row may be claimed
  again; a verdict, stored or on its way, is true. `AtMostOnce` alone is not
  inductive: it says nothing of requests that have left.

What the spool does in a step is summarised as an effect on the rows (`Opened`,
`Taken`, `Concluded`, `Swept`, `Added`, `Quiet`). `DurableDispatcher_proofs` shows
that the dispatcher keeps its invariant, and that a step is one of the ledger,
whenever the operation has its effect (`SpoolStepFacts`, a premise of these
lemmas); `DispatcherTheorems` proves that premise of every step from the
invariant of the spool, and draws the conclusions, in which it no longer occurs.

**Gateway.** `GatewayInv` relates the three holders of an old state to the
present one: a request's snapshot is of its own lane and not newer than the
state, and as old as the last control operation unless it is fresh
(`RequestsInv`); what an operator has seen equals the state at its revision
(`ViewsInv`); Main's bootstrap version is the one the state still names
(`BootInv`). `PlansInv` says that the rows of a plan carry the provenance its
dedupe key promises: a request that is answered with an existing plan gets one
of its own lane and version.

**Executor.** Scopes: files that start-up has passed are bound to what it
serves, and a binding never changes once it has an identity. Cards: every content
that the state file has or may come back to after a crash (`limbo`) accounts for
the card, and while a PATCH may still arrive all of them hold its intent
(`ContentsInv`); the holder of the message lock has the only content
(`HolderInv`). A start may move the file away under all this. It has its directories
then, so no handler of another executor is at work, and none of its own is yet
(`ServingInv`, which is why executors of one card must share a directory): what the
card shows, or a PATCH may still make it show, is accounted for by what went to
`dead-letter/`. Outbox: what the worker carries is pending until it is moved,
what is left of a drain is pending, and a pending entry was tried as often as
retries and interrupted burials allow. The theorems on kept and final receipts
have the premise `~PowerLoss`: with it the code does lose an acknowledged
receipt (`AckedIsDurable` in section 5).

**Relay.** `RelayInv` says where a delivery is. It is in one place at most:
queue, relay's hand, gap channel, writer's hand, journal (`PlacesInv`); one that
was offered is in such a place, confirmed, or a loss shows in the counters
(`FoundInv`); what shutdown cancelled within its budget stays drained
(`ShutdownInv`); the counters are exact up to the one step in which a sender or
the goroutine is about to count (`CountsInv`). Reconciliation may be reported
only when all places are empty and no loss shows.

**Handover.** `HandoffInv` says what Reconcile has made sure of at each of its
steps: before it retires the original the Service has left it, before it puts
the Service back the original was up *in the cache* (`OriginalInv`). That copy may be
outdated, but it is not from before the original was retired: a rollback updates the
original first, with a request that is always sent because the cached Deployment has
defaults that `mutateDeployment` leaves out, and the API server refuses it when the
copy is outdated.

**Controller.** A task of an object (in an informer's queue, in the channel, in a
reload that feeds) and the object itself are versions of one thing: equal
versions have equal labels, none is newer than the object, the task that adds it
is the oldest (`SourcesInv`). An entry is such a version under its tenant, and the
only one of its name where the version is kept (`HeldInv`); and what is not held in its latest version is on its way
(`ArrivalInv`): in a task, or in a reload that has yet to list its kind. A
deletion or another spec breaks the first two, as section 5 shows. `nmChange`
reloads a kind when a setting that it depends on differs from the spec before,
which is empty at first; a tenant selector (`Selecting`) is such a setting for both
kinds, and only arrival needs it.

**Memory pipeline.** `MemoryInv` is `AcceptedOnce` (the alerts pushed so far are
those of the channel, of the batch under way and of the batches, each once) with
how far a handler has come (`ProgressInv`): an alert that is about to be pushed
is nowhere yet.

**Notifiers.** For Feishu, `TargetInv` ties what a sender knows to what the
platform did: a request that was retried delivered nothing, and an error `nil`
means one delivery or an answer that was misread. `NotifyInv` does the same for the other channels and adds
what Wait relies on (`CountsInv`): unless the limiter drops messages, the values
in `stopCh` and those Wait has taken are together the senders that are done, and
as long as it took no error, all of those did well. So Wait returns `nil` only
after enough senders, and because they delivered, for any number of parts and
targets.

**Tokens.** As long as no fetch failed, no token aged and no context ended,
goroutines work for the call that holds the mutex, and ask the platform only where
there is no token for the key (`Undisturbed`). `invalidToken` builds its key from
the agent ID and `getToken` from the secret: `KeysApart` says that these differ,
otherwise an invalidation would hit a token that others still use.

**Ledger.** `LedgerInv` is `LedgerAtMostOnce` with types: what may be posted in
each verdict is already the induction hypothesis.

**Throttle.** The queue holds the latest allowed calls, all of them or
`threshold` many (`QueueIsRecent`); they are ordered, and any `threshold`
consecutive ones span a unit; a sleeper holds the mutex and will wake no earlier
than a unit after the head of that queue. The mutex is what makes the waiting
time, computed before the sleep, still right after it.

**Annotations.** An accepted component is the decoded form of something that
`validate` accepted (`AnnotationInv`). The fields `MarshalJSON` leaves out decode to
the value they had, and those of the other schema to nothing (`MarshalDecodes`); the
state file is read into the union of both schemas, without the required fields of the
HTTP decoder.

**Identities.** `IdentityInv` gives every receipt one of three forms, the stamped
attempt, the message of a production card, the fallback over its members, and each
form tells dispatch and group (`IdentityTells`; the fallback because a group is not
empty). What is new in a step therefore never meets what is old, and within one
fanout the copies for two channels differ in their `receiver` label only
(`FanoutCorrelates`).

**Receiver kinds.** `Built` states in one record which fields of a resource each
kind keeps, where the code has a constructor per kind; `KindsInv` follows it through
admission, the controller's lookup and `New`. `SettingsChosen` does the same for the
settings, and `AdmittedValidates` goes through the kinds once.

**Stages.** After each stage the data is a function of the input and the world:
unmuted, routed to a receiver, wanted by it, grouped (`StagesInv`). It also says
that nobody was forgotten: a receiver that routing chooses for an alert has a packet
of its hash with every such alert, and a batch that ended early had nothing to send. With valid
selectors `Matches` decides (`ValidDecides`), so `= TRUE`, which the code's error
paths make necessary, becomes truth.

**Plan.** `PlanInv` relates a stored target to the plan that was routed, not to the
cluster: it is an `Original` of an entry (one address of its receiver, the content
rendered then, the application resolved then) or a history copy (`Copies`) whose
`waits` are exactly the originals of its alert. This needs that ApplyProfile, Freeze
and BindFrozenProfile each change only their own fields (`TestOverlay`,
`DestinationIsOne`, `BoundTargets`), and `PlanTargets` joins them. Of the checks of
`SendFrozen`, those on owner, destination, payload and the single test chat hold for every
such target, the scope check for those of the test lane because preparation made it
(`ProfilesInv`), and a check that passes ties the secret to the accepted application.

## 4. Refinement

`DispatcherLedger` reads a ledger off the dispatcher: a row's state and the
origin of its outcome give the verdict, the platform's counter the posted cards,
`grants` the granted sends. Every step of workers, tool, platform, crash and disk
fault is a legal change of a verdict, a posting that is still allowed, a grant,
or invisible: `dispatcher_once` checks this `ImplementsLedger` and
`DispatcherImplementsLedger` proves it. With the two theorems about the ledger
this gives "at most once, unless an operator said so" in terms a reader of the
spool's rows can check, and that an answer which was stored is the last word even
for orphaned senders. The run keeps the clock at zero; the proof does not, and
it covers a step the run does not reach: cleanup also forgets a target that its
plan left out, whose verdict is `none`.

Only model-checked, for the bounds above:

- all liveness properties: fairness and `ENABLED` are out of the prover's reach;
- `SplitLosesNothing`, `EventIsTheOccurrence` (in `IdentitiesCorrelate`) and
  `RoundedJudgmentsAccepted` (in `AnnotationsAreSound`): what the loop of `Split`,
  the sorted encoding of labels (`SortedPairs`) and a fold over percents (`Total`)
  compute for every input needs induction over data; the other conjuncts of the two
  properties are proved;
- `ReceiversAreHeld` and `NeverOlder` as the run states them, for an instance in
  which objects may be deleted but are not: `ReceiversAreHeldOnce` and
  `ReceiversArrive` prove their parts `HeldOnce`, `KeepsNewest` and `NoneMissing`
  where none can be. With deletions, `NoneMissing` is only checked.

## 5. Findings and deviations

`spool_own_outcome`: `Claim`'s shared decoding variable also carries `Outcome`
and `Evidence` (both `omitempty`). A pending row claimed after a retryable row
of a paused lane was skipped is stored with the skipped row's evidence, against
"Each destination owns its own outcome." (`pkg/notify/durable.go:121`). `Finish`
overwrites it; a crash before `Finish` leaves it on the row that an operator
then has to judge. The same variable does *not* leak a profile:
`PausedNeverClaimed` and `FrozenProvenance` hold and are proved.

The models show further places where the code does not do what its own text
says. Each is a property defined in its module but in no run; TLC finds it
violated when it is added to the named configuration with `Taken` reduced to the
part. The models follow the code.

| Property (configuration, part) | The code | Its text |
|---|---|---|
| `RelayLossIsObservable` (MCExecutor, `relay`) | `offer` returns without a count or a gap once closing is set (`pkg/jevshadow/relay.go:134`), while reconciliation is reported complete | "Relay loss is observable" (`relay.go:199`) |
| `AckedIsDurable` (MCExecutor, `outbox`, `PowerLoss = TRUE`) | a second Enqueue finds the entry of a failed directory sync by Stat and acknowledges it unsynced (`receipt_outbox.go:144`) | "acknowledges only durable card binding plus receipt outbox acceptance" (`relay.go:238`) |
| `RefusedMeansChanged` (MCExecutor, `scopes`) | a crash between creating and writing `scope-binding.json` (`delivery_scopes.go:231`) leaves an empty file that every start reads as a changed scope | "Reusing that key with different owner, domain, app or destinations fails" (`delivery_scopes.go:207`) |
| `AcceptedRenders` (MCContracts, `annotation`) | facts with an unavailable model, a routing answer and no pool reason are accepted (`service.go:950`); rendering dereferences the nil reason (`service.go:1121`) | "TestPolicyFactsV1AlwaysShowsOperatorRuleWithOrWithoutModel" (`service_test.go:466`) |
| `TemplateIsOptional` (MCContracts, `kinds`) | building a Telegram or Discord receiver dereferences its optional template (`pkg/internal/telegram/types.go:37`, `discord/types.go:33`) | "If the global template is not set, it will use default." (`apis/v2beta2/receiver_types.go:335`) |
| `EmailRenderedByType` (MCContracts, `settings`) | the conditions are inverted (`email/email.go:163`) | "`tmplType` - The type of the email content" (`docs/crds/receiver.md:134`) |
| `BrokenSelectorReturnsAll` (MCContracts, `stages`, `Receivers <- AnyReceivers`) | a selector that fails fails the batch (`pkg/filter/filter.go:99`) | "if the selector is not correct, return all of the alerts" (`filter.go:88`) |
| `RemainingAreProcessed` (MCManager, `memory`) | Run returns while batches of `go d.processAlerts` still run, and Main exits (`pkg/dispatcher/dispatcher.go:57`) | "dispatcher should process remaining alerts, then exit" (`dispatcher.go:55`) |
| `RetriedOnLimitOnly` (MCManager, `feishu`) | the chat bot also retries on BadRequestCode (`feishu/feishu.go:454`) | "There is only one case that triggers the retry mechanism" (`feishu.go:466`) |
| `WaitBounded` (MCManager, `throttle`, `Prompt = TRUE`, `MaxTime = 6`, `MaxCalls = 5`) | Allow sleeps with the mutex held, and the wait for the mutex is not counted (`dingtalk/throttle.go:133`) | "if the actual waiting time is more than `maxWaitTime`, it will not wait" (`throttle.go:98`) |
| `ExpiredIsReplaced` (MCManager, `token`) | the token is invalidated under CorpID and AgentID (`wechat/wechat.go:504`) and stored under CorpID and secret (`wechat.go:500`) | "AccessToken is expired" (`wechat.go:260`) |
| `DroppedIsNotSent` (MCManager, `channels`) | after Allow refused, the sender goes on (`dingtalk/dingtalk.go:385`) | "message to chatbot dropped because of flow control" (`dingtalk.go:384`) |
| `OneAfterAnother` (MCManager, `channels`) | every part has a goroutine (`pushover/pushover.go:248`) | "each message is sent one after another" (`pushover.go:132`) |
| `DroppedIsNotReported` (MCManager, `split`) | an alert too large alone stays in the alerts of the slice before it (`pkg/template/template.go:293`) | "drop this alert" (`template.go:284`) |
| `NoneLeftOver` (MCManager, `controller`) | a reload feeds what it listed before a deletion was handled (`pkg/controller/controller.go:362`) | "receiver create/update/delete operations" (`controller.go:81`) |
| `NoneMissing` (MCManager, `controller`, `Specs <- ByUserOrOrg`) | the old entry is deleted only for an update (`controller.go:527`); after the tenant key changed a receiver may be under two tenants and a reload may replace the newer one | "Reload all configs and receivers" (`controller.go:331`) |
| `NewerIsKept` (MCManager, `moves`) | a Discord receiver is stored without its version (`pkg/internal/discord/types.go:24`), so that a late task replaces a newer one, and a late "add" leaves it under two tenants (`controller.go:516`) | "A newer receiver had added" (`controller.go:517`) |
| `LoggedWasDelivered` (MCManager, `feishu`) | outside a frozen plan a chat bot passes over an error status that has a body, and a body without a code decodes to code 0 (`feishu/feishu.go:432`, `932`) | "chatbot message sent successfully" (`feishu.go:444`) |

Limits of the design that no property covers: history whose originals all end as
dead letters stays blocked until someone acts (`store.go:646`); a spool that
still holds unprofiled rows from before profiles were enabled can fail every
`Claim` while a paused test row is ahead of them (`profiles.go:234`); a fetch
left behind by an ended call may store an older token over a newer one
(`token.go:92`); a quarantined card state loses the annotations it had
(`card_state.go:160`); a batch of the memory pipeline that still waits when Run
returns is lost with the process.

## 6. Not modelled

- Sidecars and the adapter: independent programs that fetch tenants or export to
  other sinks.
- Generated CRD code: declarations, copies and conversions without behaviour.
- `CanonicalAMIntent`: a hash over sorted, normalised JSON. A model would be the
  identity on the normal form; intents are model values.
- The reservation clock of `waitSendBudget`: rate arithmetic over wall-clock
  time, abstracted to a grant or a timeout.
- Template rendering and the wire formats of the platforms, the SMS providers
  included: text in, text out. A request is sent, answered, refused or lost.
- The static (file) controller, the cluster name lookup and the listing
  endpoints, which read only.
- The contents of the operator's Deployment (containers, sidecar, volumes).
- The translation of Feishu card callbacks; their scope and principals are in
  `ExecutorScopes`.
