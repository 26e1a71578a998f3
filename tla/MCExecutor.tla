----------------------------- MODULE MCExecutor -----------------------------
(***************************************************************************)
(* Instances of the executor's parts: the relay that feeds it, its receipt *)
(* outbox, its card writer and its delivery scopes.  They share no state,  *)
(* so that one run takes them one at a time: `part` moves, the others stay *)
(* as they start.                                                          *)
(***************************************************************************)
EXTENDS SuccessRelay, ReceiptOutbox, CardWriter, ExecutorScopes, TLC

CONSTANTS Taken,           \* what the run takes
          e1, e2, b1, b2, ownerA, ownerB, m1, m2

VARIABLE part

\* Two revisions of one component, and a second body under the first key.
Succession == {[key |-> "k1", component |-> "c1", revision |-> 1],
               [key |-> "k2", component |-> "c1", revision |-> 2],
               [key |-> "k1", component |-> "c2", revision |-> 1]}
OneRequest == {[key |-> "k1", component |-> "c1", revision |-> 1]}

\* Two executors on the same volumes; the second names them the other way.
SharedStores == (e1 :> <<1, 2>>) @@ (e2 :> <<2, 1>>)

ThreeScopes == {<<"test", 1>>, <<"formal", 1>>, <<"formal", 2>>}
TwoCards == {[message |-> m1, key |-> <<"test", 1>>, owner |-> ownerA],
             [message |-> m2, key |-> <<"formal", 1>>, owner |-> ownerB]}
OneEach == [k \in Keys |-> ownerA]

Symmetry == Permutations(Deliveries \ Oversized) \cup Permutations(Bindings)

executorVars == <<relayVars, outboxVars, cardVars, scopeVars, part>>

ExecutorInit ==
    /\ part \in Taken
    /\ newRelay /\ OutboxInit /\ CardInit
    /\ ScopesInit /\ (part = "scopes" \/ declared = OneEach)

\* "card": one executor and a succession of annotations; "lease": two that
\* start together, and one annotation.
CardScenario ==
    /\ part = "card" => process'[e2] = "off"
    /\ part = "lease" => \A t \in Threads : thread'[t].req \in OneRequest \cup {Nil}

ExecutorNext ==
    /\ UNCHANGED part
    /\ \/ part \in {"relay", "stuck"} /\ RelayNext /\ UNCHANGED <<outboxVars, cardVars, scopeVars>>
       \/ part = "outbox" /\ OutboxNext /\ UNCHANGED <<relayVars, cardVars, scopeVars>>
       \/ /\ part \in {"card", "lease"} /\ CardNext /\ CardScenario
          /\ UNCHANGED <<relayVars, outboxVars, scopeVars>>
       \/ part = "scopes" /\ ScopesNext /\ UNCHANGED <<relayVars, outboxVars, cardVars>>

ExecutorSpec == ExecutorInit /\ [][ExecutorNext]_executorVars

ExecutorFairSpec ==
    /\ ExecutorSpec
    /\ \/ <>[](part = "relay") /\ RelayFairness
       \/ <>[](part = "stuck") /\ StuckRelayFairness
       \/ <>[](part = "outbox") /\ OutboxFairness
       \/ <>[](part = "lease") /\ CardFairness
-----------------------------------------------------------------------------
\* A relay whose goroutines are scheduled stops once it is cancelled; in "stuck"
\* they are not.
ScheduledRelayStops == part = "relay" => RelayStops

\* What is confirmed stays confirmed: receipts in their final directory, and the
\* latest annotation of a card.
NothingIsUndone == TerminalIsFinal /\ CardNeverRewinds

\* Whatever stands still or crashes, what waits for the executor's parts is served:
\* offers and shutdown of the relay return, receipts settle, handlers answer, and
\* of executors that start together one gets to serve.
ExecutorGoesOn ==
    /\ ScheduledRelayStops /\ OfferReturns /\ ShutdownReturns
    /\ EveryReceiptSettles /\ CloseReturns
    /\ HandlerReturns /\ SomeExecutorServes
=============================================================================
