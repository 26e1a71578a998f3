----------------------------- MODULE CardWriter -----------------------------
(***************************************************************************)
(* The card writer of the executor: the fence between executor processes   *)
(* (executor_lease.go), the capture of a sent card, and the annotation of  *)
(* that card (service.go, card_writer.go) over its state file              *)
(* (card_state.go) and the Feishu PATCH (feishu.go).                       *)
(*                                                                         *)
(* The model follows one message.  file is the state file a process sees;  *)
(* limbo holds the contents a power loss may leave, since a rename is      *)
(* durable once its directory is synced.  A write fails before its rename  *)
(* or after it.  A PATCH without an answer is applied, lost or still       *)
(* under way.  Other messages appear by what they do to the cache: they    *)
(* evict the binding of this one.  A binding is its mutex, the rest of it  *)
(* is reloaded under the message lock.  A start that cannot read the file  *)
(* moves it to dead-letter/, after which the card is as good as unknown.   *)
(***************************************************************************)
EXTENDS Absence, Naturals, Sequences, FiniteSets

CONSTANTS Procs, Threads, Bindings,
          Requests,        \* records [key, component, revision]
          Stores,          \* Procs -> <<ReceiptOutboxDir, CardStateDir>>, as numbers;
                           \* the executors of one card share a directory
          MaxCardFaults,   \* bound: file operations that fail
          MaxCardCrashes,  \* bound: process deaths
          CardPowerLoss    \* a death may also lose unsynced renames

ASSUME CardConstants ==
    /\ Nil \notin Procs \cup Bindings \cup Requests /\ Stores \in [Procs -> Nat \X Nat]
    /\ \A p, q \in Procs : {Stores[p][1], Stores[p][2]} \cap {Stores[q][1], Stores[q][2]} # {}
    /\ \A r \in Requests : r.revision \in Nat
    /\ MaxCardFaults \in Nat /\ MaxCardCrashes \in Nat /\ CardPowerLoss \in BOOLEAN

VARIABLES process,         \* off, acquiring, failing, serving
          held,            \* flocks on .executor-owner.lock of each process
          cache,           \* the binding s.cards has for the message
          thread,          \* the request handlers
          file, limbo,     \* cardPersistentState
          quarantined,     \* the contents that went to dead-letter/, as a history
          card,            \* the annotations the platform shows
          patches,         \* PATCH requests that may still arrive
          acked,           \* requests answered 200
          receipt,         \* the outbox has the delivery receipt
          cardFaults, deaths

cardVars == <<process, held, cache, thread, file, limbo, quarantined, card, patches, acked,
              receipt, cardFaults, deaths>>

Revisions == {r.revision : r \in Requests}
Cards == SUBSET {[component |-> r.component, revision |-> r.revision] : r \in Requests}
PatchStates == {"none", "sending", "confirmed", "failed", "unknown"}
CardState == [revision : {0} \cup Revisions, annotations : Cards,
              applied : SUBSET Requests, state : PatchStates, pending : Requests \cup {Nil}]

\* A missing file is none of these.
ASSUME MissingState == Nil \notin CardState

\* validateCardPersistentState, which Save and every read apply.
ValidCardState(s) ==
    /\ s.pending # Nil <=> s.state \in {"sending", "unknown"}
    /\ s.state = "confirmed" => s.revision > 0
    /\ \A a \in s.annotations : a.revision <= s.revision
    /\ s.pending # Nil => s.pending.revision = s.revision + 1

\* Mutant: the directories are taken in the order of the configuration.
LeaseOrderAsConfigured(p) == Stores[p]

\* sort.Strings and the directories seen.
LeaseOrder(p) ==
    LET a == Stores[p][1]
        b == Stores[p][2]
    IN  IF a = b THEN <<a>> ELSE IF a < b THEN <<a, b>> ELSE <<b, a>>

Idle == [at |-> "idle", proc |-> Nil, req |-> Nil, binding |-> Nil, answer |-> "none"]

\* Every content the state file may have after a power loss is one that its
\* validation accepts; the rest have their types.
CardTypeOK ==
    /\ process \in [Procs -> {"off", "acquiring", "failing", "serving"}]
    /\ \A p \in Procs : held[p] \in 0..Len(LeaseOrder(p))
    /\ cache \in [Procs -> Bindings \cup {Nil}]
    /\ thread \in [Threads ->
          [at : {"idle", "bound", "locked", "patch", "save"}, proc : Procs \cup {Nil},
           req : Requests \cup {Nil}, binding : Bindings \cup {Nil},
           answer : {"none", "ok", "rejected", "unknown"}]]
    /\ \A s \in limbo \cup {file} : s # Nil => s \in CardState /\ ValidCardState(s)
    /\ quarantined \subseteq CardState
    /\ card \in Cards /\ patches \subseteq Cards
    /\ acked \subseteq Requests /\ receipt \in BOOLEAN
    /\ cardFaults \in 0..MaxCardFaults /\ deaths \in 0..MaxCardCrashes

CardInit ==
    /\ process = [p \in Procs |-> "off"] /\ held = [p \in Procs |-> 0]
    /\ cache = [p \in Procs |-> Nil] /\ thread = [t \in Threads |-> Idle]
    /\ file = Nil /\ limbo = {Nil} /\ quarantined = {} /\ card = {} /\ patches = {}
    /\ acked = {} /\ receipt = FALSE /\ cardFaults = 0 /\ deaths = 0
-----------------------------------------------------------------------------
(***************************************************************************)
(* AcquireExecutorLease: the locks are taken in the order of the           *)
(* directories, without waiting, and all are dropped when one is taken.    *)
(***************************************************************************)
ProcessOnly ==
    UNCHANGED <<thread, file, limbo, quarantined, card, patches, acked, receipt, cardFaults>>

Fences(p) == {LeaseOrder(p)[i] : i \in 1..held[p]}

Launch(p) ==
    /\ process[p] = "off"
    /\ process' = [process EXCEPT ![p] = "acquiring"]
    /\ UNCHANGED <<held, cache, deaths>> /\ ProcessOnly

\* Mutant: a lock another process holds is no obstacle.
LeaseFreeAlways(p) == TRUE

LeaseFree(p) == \A q \in Procs \ {p} : LeaseOrder(p)[held[p] + 1] \notin Fences(q)

FlockDirectory(p) ==
    /\ process[p] = "acquiring" /\ held[p] < Len(LeaseOrder(p))
    /\ IF LeaseFree(p)
       THEN /\ held' = [held EXCEPT ![p] = @ + 1]
            /\ UNCHANGED process
       ELSE /\ process' = [process EXCEPT ![p] = "failing"]
            /\ UNCHANGED held
    /\ UNCHANGED <<cache, deaths>> /\ ProcessOnly

\* closeAll, and the exit of the executor.
CloseAll(p) ==
    /\ process[p] = "failing"
    /\ process' = [process EXCEPT ![p] = "off"] /\ held' = [held EXCEPT ![p] = 0]
    /\ UNCHANGED <<cache, deaths>> /\ ProcessOnly

InUse(p) == {thread[t].binding : t \in {u \in Threads : thread[u].proc = p}}
Fresh(p, b) == b \notin InUse(p)

CacheBinding(p) ==
    IF cache[p] # Nil THEN UNCHANGED cache
    ELSE \E b \in Bindings : Fresh(p, b) /\ cache' = [cache EXCEPT ![p] = b]

\* quarantine: a file that LoadRecent cannot read, decode or validate is renamed
\* into dead-letter/, and the sync of its directory may fail after that.
quarantine ==
    /\ file # Nil /\ cardFaults < MaxCardFaults /\ cardFaults' = cardFaults + 1
    /\ file' = Nil /\ limbo' \in {{Nil}, limbo \cup {file, Nil}}
    /\ quarantined' = quarantined \cup {file}

\* New: LoadRecent fills the cache, up to MaxCards, then the listener starts; a
\* file that can neither be read nor moved is left where it is.
StartService(p) ==
    /\ process[p] = "acquiring" /\ held[p] = Len(LeaseOrder(p))
    /\ process' = [process EXCEPT ![p] = "serving"]
    /\ \/ /\ (file # Nil /\ CacheBinding(p)) \/ UNCHANGED cache
          /\ UNCHANGED <<file, limbo, quarantined, cardFaults>>
       \/ quarantine /\ UNCHANGED cache
    /\ UNCHANGED <<held, deaths, thread, card, patches, acked, receipt>>

\* The kernel drops the flocks of a dead process; its handlers are gone, a
\* PATCH of theirs may still arrive.
Die(p) ==
    /\ process[p] # "off" /\ deaths < MaxCardCrashes
    /\ deaths' = deaths + 1
    /\ process' = [process EXCEPT ![p] = "off"] /\ held' = [held EXCEPT ![p] = 0]
    /\ cache' = [cache EXCEPT ![p] = Nil]
    /\ thread' = [t \in Threads |-> IF thread[t].proc = p THEN Idle ELSE thread[t]]
    /\ file' \in IF CardPowerLoss THEN limbo \cup {file} ELSE {file}
    /\ limbo' = IF CardPowerLoss THEN {file'} ELSE limbo
    /\ UNCHANGED <<quarantined, card, patches, acked, receipt, cardFaults>>

Evict(p) ==
    /\ process[p] = "serving" /\ cache[p] # Nil
    /\ cache' = [cache EXCEPT ![p] = Nil]
    /\ UNCHANGED <<process, held, deaths>> /\ ProcessOnly
-----------------------------------------------------------------------------
(***************************************************************************)
(* writeCardStateFile: ok, an error before the rename, or an error in the  *)
(* sync after it.                                                          *)
(***************************************************************************)
Saved(state) == file' = state /\ limbo' = {state} /\ UNCHANGED cardFaults

SaveFails(state) ==
    /\ cardFaults < MaxCardFaults /\ cardFaults' = cardFaults + 1
    /\ \/ UNCHANGED <<file, limbo>>
       \/ file' = state /\ limbo' = limbo \cup {file, state}

\* The flock of WithMessageLock, per message and held by a handler's own
\* descriptor, in whichever process it runs.
MessageLocked == \E t \in Threads : thread[t].at \in {"patch", "save"}

Captured == [revision |-> 0, annotations |-> {}, applied |-> {}, state |-> "none",
             pending |-> Nil]

\* captureCardBinding keeps the state of a card it knows, saves that of a new
\* one, and caches the binding.
captureCardBinding(p) ==
    /\ IF file = Nil THEN Saved(Captured) ELSE UNCHANGED <<file, limbo, cardFaults>>
    /\ CacheBinding(p)

\* captureDurable, from HandleSuccessfulDelivery: the receipt is enqueued
\* (ReceiptOutbox) after the binding, which may fail as well.
CaptureDurable(p) ==
    /\ process[p] = "serving" /\ ~MessageLocked
    /\ \/ captureCardBinding(p) /\ receipt' \in {receipt, TRUE}
       \/ file = Nil /\ SaveFails(Captured) /\ UNCHANGED <<receipt, cache>>
    /\ UNCHANGED <<process, held, thread, quarantined, card, patches, acked, deaths>>
-----------------------------------------------------------------------------
(***************************************************************************)
(* HandleAnnotation.  A request that fails authorisation, decoding or the  *)
(* check of its key is answered before any of these steps.                 *)
(***************************************************************************)
HandlerOnly == UNCHANGED <<process, held, quarantined, receipt, deaths>>
Step(t, at) == thread' = [thread EXCEPT ![t].at = at]
Reply(t) == thread' = [thread EXCEPT ![t] = Idle]

\* getCardBinding: the cached binding, or a new one over the loaded state.
getCardBinding(t, p, r) ==
    /\ thread[t].at = "idle" /\ process[p] = "serving" /\ file # Nil
    /\ \E b \in Bindings :
          /\ IF cache[p] # Nil THEN b = cache[p] ELSE Fresh(p, b)
          /\ cache' = [cache EXCEPT ![p] = b]
          /\ thread' = [thread EXCEPT ![t] =
                [Idle EXCEPT !.at = "bound", !.proc = p, !.req = r, !.binding = b]]
    /\ UNCHANGED <<file, limbo, card, patches, acked, cardFaults>> /\ HandlerOnly

\* The registered patcher, or the one the resolver finds, if any.
resolveCardPatcher(t) == Step(t, "locked") \/ Reply(t)

\* binding.mu.Lock.
LockBinding(t) ==
    /\ thread[t].at = "bound"
    /\ \A u \in Threads \ {t} :
          ~(thread[u].proc = thread[t].proc /\ thread[u].binding = thread[t].binding
              /\ thread[u].at \in {"locked", "patch", "save"})
    /\ resolveCardPatcher(t)
    /\ UNCHANGED <<cache, file, limbo, card, patches, acked, cardFaults>> /\ HandlerOnly

Ambiguous == file.pending # Nil \/ file.state = "unknown"

Applied(r) == \E a \in file.applied : a.key = r.key

Intent(r) == [file EXCEPT !.state = "sending", !.pending = r]

TurnedAway == MessageLocked \/ file = Nil

\* The flock and applyPersistentAnnotation up to the PATCH.  The message lock
\* is not waited for: a handler that finds it taken answers 429.
Decide(t) ==
    LET r == thread[t].req IN
    /\ thread[t].at = "locked"
    /\ \/ TurnedAway /\ Reply(t)
          /\ UNCHANGED <<file, limbo, acked, cardFaults>>
       \/ /\ ~MessageLocked /\ file # Nil /\ Ambiguous /\ Reply(t)
          /\ UNCHANGED acked
          /\ IF file.state = "sending"
             THEN Saved([file EXCEPT !.state = "unknown"])
                  \/ SaveFails([file EXCEPT !.state = "unknown"])
             ELSE UNCHANGED <<file, limbo, cardFaults>>
       \/ /\ ~MessageLocked /\ file # Nil /\ ~Ambiguous /\ Applied(r) /\ Reply(t)
          /\ acked' = IF r \in file.applied THEN acked \cup {r} ELSE acked
          /\ UNCHANGED <<file, limbo, cardFaults>>
       \/ /\ ~MessageLocked /\ file # Nil /\ ~Ambiguous /\ ~Applied(r)
          /\ UNCHANGED acked
          /\ \/ /\ r.revision # file.revision + 1 /\ Reply(t)
                /\ UNCHANGED <<file, limbo, cardFaults>>
             \/ r.revision = file.revision + 1 /\ Saved(Intent(r)) /\ Step(t, "patch")
             \/ r.revision = file.revision + 1 /\ SaveFails(Intent(r)) /\ Reply(t)
    /\ UNCHANGED <<cache, card, patches>> /\ HandlerOnly

Annotation(r) == [component |-> r.component, revision |-> r.revision]

\* renderCard of the annotations with the component of r replaced.
Rendered(annotations, r) ==
    {a \in annotations : a.component # r.component} \cup {Annotation(r)}

Answered(t, answer) ==
    thread' = [thread EXCEPT ![t].at = "save", ![t].answer = answer]

\* The PATCH: 200 with code 0; an answer that says it was not applied; or no
\* usable answer (timeout, 202, 408, 429, 5xx, broken body).
patchInteractiveCard(t) ==
    /\ thread[t].at = "patch"
    /\ \/ card' = Rendered(file.annotations, thread[t].req) /\ UNCHANGED patches
          /\ (Answered(t, "ok") \/ Answered(t, "unknown"))
       \/ UNCHANGED <<card, patches>> /\ Answered(t, "rejected")
       \/ patches' = patches \cup {Rendered(file.annotations, thread[t].req)}
          /\ UNCHANGED card /\ Answered(t, "unknown")
    /\ UNCHANGED <<cache, file, limbo, acked, cardFaults>> /\ HandlerOnly

PatchArrives ==
    /\ \E c \in patches : card' = c /\ patches' = patches \ {c}
    /\ UNCHANGED <<process, held, cache, thread, file, limbo, quarantined, acked, receipt,
                   cardFaults, deaths>>

PatchIsLost ==
    /\ \E c \in patches : patches' = patches \ {c}
    /\ UNCHANGED <<process, held, cache, thread, file, limbo, quarantined, card, acked, receipt,
                   cardFaults, deaths>>

Confirmed(r) ==
    [file EXCEPT !.annotations = Rendered(@, r), !.revision = r.revision,
                 !.applied = @ \cup {r}, !.state = "confirmed", !.pending = Nil]

\* classifyPatchFailure: only a known rejection clears the intent.
PatchResult(t) ==
    CASE thread[t].answer = "ok" -> Confirmed(thread[t].req)
      [] thread[t].answer = "rejected" -> [file EXCEPT !.state = "failed", !.pending = Nil]
      [] OTHER -> [file EXCEPT !.state = "unknown"]

\* Mutant: the result is answered although its save failed.
SaveResultUnchecked(t) ==
    /\ thread[t].at = "save" /\ Reply(t)
    /\ Saved(PatchResult(t)) \/ SaveFails(PatchResult(t))
    /\ acked' = IF thread[t].answer # "unknown" THEN acked \cup {thread[t].req} ELSE acked
    /\ UNCHANGED <<cache, card, patches>> /\ HandlerOnly

SaveResult(t) ==
    /\ thread[t].at = "save" /\ Reply(t)
    /\ \/ Saved(PatchResult(t))
          /\ acked' = IF thread[t].answer = "ok" THEN acked \cup {thread[t].req} ELSE acked
       \/ SaveFails(PatchResult(t)) /\ UNCHANGED acked
    /\ UNCHANGED <<cache, card, patches>> /\ HandlerOnly

Handling(t) == LockBinding(t) \/ Decide(t) \/ patchInteractiveCard(t) \/ SaveResult(t)
Starting(p) == Launch(p) \/ FlockDirectory(p) \/ CloseAll(p) \/ StartService(p)

CardNext ==
    \/ \E p \in Procs : Starting(p) \/ Die(p) \/ Evict(p) \/ CaptureDurable(p)
    \/ \E t \in Threads, p \in Procs, r \in Requests : getCardBinding(t, p, r)
    \/ \E t \in Threads : Handling(t)
    \/ PatchArrives \/ PatchIsLost

CardSpec == CardInit /\ [][CardNext]_cardVars

\* Handlers are goroutines, and sync.Mutex starves none of those that wait for
\* it; an executor that exits is started again.
CardFairness ==
    /\ \A t \in Threads : WF_cardVars(Handling(t)) /\ SF_cardVars(LockBinding(t))
    /\ \A p \in Procs : WF_cardVars(Starting(p))
-----------------------------------------------------------------------------
\* The cards that a content of the state file accounts for: the confirmed
\* annotations, and those with the pending intent.
AccountedBy(s) ==
    IF s = Nil THEN {{}}
    ELSE {s.annotations} \cup {Rendered(s.annotations, r) : r \in {s.pending} \ {Nil}}

DeadLetters == UNION {AccountedBy(s) : s \in quarantined}

\* The card on the platform is always one the state file accounts for, or one that
\* a state file in dead-letter/ did: after a quarantine the platform keeps showing
\* what the executor no longer knows, until the next PATCH replaces it.
DisplayedIsKnown == card \in AccountedBy(file) \cup DeadLetters

\* A request answered 200 is on the card, or a later revision of its component
\* is: no crash, late PATCH or retry takes an acknowledged annotation away.  Only
\* the quarantine of its state file lets a PATCH do so.
AckedIsDisplayed ==
    quarantined = {} =>
        \A r \in acked : \E a \in card :
            a.component = r.component /\ a.revision >= r.revision

\* No full card is sent while an earlier one may still reach the platform, except
\* one whose intent went to dead-letter/ with its state file.
NoBlindReplay ==
    (\E t \in Threads : thread[t].at = "patch") => patches \subseteq DeadLetters

\* Two executors that serve never share a persistent directory.
OneOwnerPerDir ==
    \A p, q \in Procs :
        p # q /\ process[p] = "serving" /\ process[q] = "serving"
          => Fences(p) \cap Fences(q) = {}

\* The receipt that tells Jev of a card exists only once the card can be
\* annotated: its state was saved first.  Only a quarantine, or a power loss after
\* a save whose sync had failed, takes the state back.
ReceiptHasBinding ==
    receipt => file # Nil \/ quarantined # {} \/ (CardPowerLoss /\ deaths > 0 /\ cardFaults > 0)

\* The card never goes back to an older annotation of a component, unless its
\* state was quarantined: then the revisions start again from 0.
CardNeverRewinds ==
    [][quarantined = {} =>
         \A a \in card : \E b \in card' :
            b.component = a.component /\ b.revision >= a.revision]_cardVars

\* A handler answers: neither the binding mutex nor the message lock keeps it.
HandlerReturns ==
    \A t \in Threads : thread[t].at # "idle" ~> thread[t].at = "idle"

\* Executors that start together do not keep driving each other away: the
\* order of the directories lets one of them win.
SomeExecutorServes ==
    (\E p \in Procs : process[p] = "acquiring") ~> (\E p \in Procs : process[p] = "serving")

\* State file, acknowledgements and receipts agree with the card on the platform,
\* whatever became of a PATCH, of a write or of the file itself.
CardIsAccounted ==
    CardTypeOK /\ DisplayedIsKnown /\ AckedIsDisplayed /\ NoBlindReplay /\ ReceiptHasBinding
=============================================================================
