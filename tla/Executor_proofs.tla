--------------------------- MODULE Executor_proofs ---------------------------
(***************************************************************************)
(* The delivery scopes, the leases and card states and the receipt outbox  *)
(* of the executor keep their invariants, for any number of processes,     *)
(* requests, receipts, faults and crashes.                                 *)
(***************************************************************************)
EXTENDS MCExecutor, TLAPS

\* Zenon is asked first; a leaf that needs arithmetic, records or many cases cites SMT.
USE Zenon

(***************************************************************************)
(* ExecutorScopes.  What is out of todo is bound to what is served, and a  *)
(* binding never changes once it has an identity: so the cards under a key *)
(* carry the identity that its card root is bound to.                      *)
(***************************************************************************)
Scopes == [Keys -> Identities \cup {Nil}]

ScopesTypeOK ==
    /\ executor \in [at : {"off", "binding", "writing", "serving"}, scopes : Scopes,
                     todo : SUBSET Files, file : Files \cup {Nil}]
    /\ declared \in Scopes
    /\ bound \in [Files -> Identities \cup {Nil, "empty"}]
    /\ cards \in [Keys -> SUBSET Messages]

BindingsInv ==
    /\ executor.at # "off" =>
         \A f \in Files : executor.scopes[f[2]] # Nil /\ f \notin executor.todo =>
                            bound[f] = executor.scopes[f[2]]
    /\ executor.at = "writing" =>
         executor.file \in executor.todo /\ bound[executor.file] = "empty"
    /\ executor.at = "serving" => executor.todo = {}

CardsInv ==
    \A k \in Keys : \A m \in cards[k] :
        /\ k = Envelope(m).key
        /\ Envelope(m).owner \in Identities /\ bound[<<"card", k>>] = Envelope(m).owner

ScopesInv == ScopesTypeOK /\ BindingsInv /\ CardsInv /\ OldCardsKeepTheirPrincipals

\* The envelope of a message is the one it was sent with.
LEMMA EnvelopeOf == ASSUME NEW e \in Envelopes PROVE Envelope(e.message) = e
<1>1. \E f \in Envelopes : f.message = e.message
  OBVIOUS
<1>2. Envelope(e.message) \in Envelopes /\ Envelope(e.message).message = e.message
  BY <1>1 DEF Envelope
<1> QED BY <1>2, ScopeConstants

\* The card a served message is found under has the scope it was sent with.
LEMMA FoundUnderItsScope ==
    ASSUME ScopesInv, executor.at = "serving", NEW k \in Keys, NEW m \in cards[k]
    PROVE  k = Envelope(m).key /\ executor.scopes[k] \in {Nil, Envelope(m).owner}
<1>1. <<"card", k>> \in Files /\ <<"card", k>>[2] = k
  BY DEF Files, Roots
<1>2. executor.scopes[k] # Nil => bound[<<"card", k>>] = executor.scopes[k]
  BY <1>1 DEF ScopesInv, BindingsInv
<1> QED BY <1>2 DEF ScopesInv, CardsInv

\* No card and no request is touched by a step that leaves what is bound alone.
LEMMA CardsFrame ==
    ASSUME ScopesInv, UNCHANGED <<cards, used>>,
           \A f \in Files : bound[f] \in Identities => bound'[f] = bound[f]
    PROVE  CardsInv' /\ OldCardsKeepTheirPrincipals'
<1>1. \A k \in Keys : <<"card", k>> \in Files
  BY DEF Files, Roots
<1>2. ASSUME NEW k \in Keys, NEW m \in cards'[k]
      PROVE  /\ k = Envelope(m).key
             /\ Envelope(m).owner \in Identities /\ bound'[<<"card", k>>] = Envelope(m).owner
  BY <1>1 DEF ScopesInv, CardsInv
<1>3. CardsInv'
  BY <1>2 DEF CardsInv, Envelope
<1> QED BY <1>3 DEF ScopesInv, OldCardsKeepTheirPrincipals, Envelope

\* Loading, binding, serving and stopping keep the invariant.
LEMMA ScopesStart ==
    ASSUME ScopesInv,
           EditScopes \/ LoadDeliveryScopes \/ Serve \/ Stop \/ UNCHANGED scopeVars
    PROVE  ScopesInv'
<1>0. Off \in [at : {"off", "binding", "writing", "serving"}, scopes : Scopes,
               todo : SUBSET Files, file : Files \cup {Nil}]
      /\ Off.at = "off"
  BY DEF Off, Scopes
<1>1. CASE EditScopes
  <2>1. ScopesTypeOK' /\ BindingsInv'
    BY <1>1 DEF EditScopes, NoRequest, ScopesInv, ScopesTypeOK, BindingsInv, Scopes
  <2> QED BY <1>1, <2>1, CardsFrame DEF EditScopes, NoRequest, ScopesInv
<1>2. CASE LoadDeliveryScopes
  <2>1. ScopesTypeOK'
    BY <1>2 DEF LoadDeliveryScopes, NoRequest, ScopesInv, ScopesTypeOK
  <2>2. BindingsInv'
    BY <1>2 DEF LoadDeliveryScopes, BindingsInv
  <2> QED BY <1>2, <2>1, <2>2, CardsFrame DEF LoadDeliveryScopes, NoRequest, ScopesInv
<1>3. CASE Serve
  <2>1. ScopesTypeOK' /\ BindingsInv'
    BY <1>3 DEF Serve, NoRequest, ScopesInv, ScopesTypeOK, BindingsInv
  <2> QED BY <1>3, <2>1, CardsFrame DEF Serve, NoRequest, ScopesInv
<1>4. CASE Stop
  <2>1. ScopesTypeOK' /\ BindingsInv'
    BY <1>0, <1>4 DEF Stop, NoRequest, ScopesInv, ScopesTypeOK, BindingsInv
  <2> QED BY <1>4, <2>1, CardsFrame DEF Stop, NoRequest, ScopesInv
<1>5. CASE UNCHANGED scopeVars
  <2>1. ScopesTypeOK' /\ BindingsInv'
    BY <1>5 DEF scopeVars, ScopesInv, ScopesTypeOK, BindingsInv
  <2> QED BY <1>5, <2>1, CardsFrame DEF scopeVars, ScopesInv
<1> QED BY <1>1, <1>2, <1>3, <1>4, <1>5

\* bindScopeDirectory keeps the invariant: only a missing file is created, and
\* only the file of this start is filled.
LEMMA ScopesBind ==
    ASSUME ScopesInv, NEW f \in Files, ReadBinding(f) \/ CreateBinding(f) \/ WriteBinding(f)
    PROVE  ScopesInv'
<1>0. Off \in [at : {"off", "binding", "writing", "serving"}, scopes : Scopes,
               todo : SUBSET Files, file : Files \cup {Nil}]
      /\ Off.at = "off"
  BY DEF Off, Scopes
<1>a. f[2] \in Keys
  BY DEF Files
<1>b. executor.scopes[f[2]] \in Identities \cup {Nil}
  BY <1>a DEF ScopesInv, ScopesTypeOK, Scopes
<1>1. CASE ReadBinding(f)
  <2>1. ScopesTypeOK' /\ BindingsInv'
    BY SMT, <1>0, <1>1 DEF ReadBinding, SameIdentity, NoRequest, ScopesInv, ScopesTypeOK, BindingsInv
  <2> QED BY <1>1, <2>1, CardsFrame DEF ReadBinding, NoRequest, ScopesInv
<1>2. CASE CreateBinding(f)
  <2>1. f \in executor.todo
    BY <1>2 DEF CreateBinding, Turn
  <2>2. ScopesTypeOK'
    BY <1>2 DEF CreateBinding, NoRequest, ScopesInv, ScopesTypeOK
  <2>3. BindingsInv'
    BY <1>2, <2>1 DEF CreateBinding, ScopesInv, ScopesTypeOK, BindingsInv
  <2>4. \A g \in Files : bound[g] \in Identities => bound'[g] = bound[g]
    BY <1>2, ScopeConstants DEF CreateBinding, ScopesInv, ScopesTypeOK
  <2> QED BY <1>2, <2>2, <2>3, <2>4, CardsFrame DEF CreateBinding, NoRequest, ScopesInv
<1>3. CASE WriteBinding(f)
  <2>0. /\ executor.at = "writing" /\ executor.file = f
        /\ UNCHANGED <<declared, cards>>
        /\ \/ /\ bound' = [bound EXCEPT ![f] = executor.scopes[f[2]]]
              /\ executor' = [executor EXCEPT !.at = "binding", !.file = Nil, !.todo = @ \ {f}]
           \/ executor' = Off /\ UNCHANGED bound
    BY <1>3 DEF WriteBinding, NoRequest
  <2>a. ASSUME executor' = Off /\ UNCHANGED bound PROVE ScopesTypeOK' /\ BindingsInv'
    BY <1>0, <2>0, <2>a DEF ScopesInv, ScopesTypeOK, BindingsInv
  <2>b. ASSUME /\ bound' = [bound EXCEPT ![f] = executor.scopes[f[2]]]
               /\ executor' = [executor EXCEPT !.at = "binding", !.file = Nil, !.todo = @ \ {f}]
        PROVE  ScopesTypeOK' /\ BindingsInv'
    <3>1. /\ executor'.at = "binding" /\ executor'.scopes = executor.scopes
          /\ executor'.todo = executor.todo \ {f}
          /\ executor' \in [at : {"off", "binding", "writing", "serving"}, scopes : Scopes,
                            todo : SUBSET Files, file : Files \cup {Nil}]
      BY <2>b DEF ScopesInv, ScopesTypeOK
    <3>2. bound' \in [Files -> Identities \cup {Nil, "empty"}]
      BY <1>b, <2>b DEF ScopesInv, ScopesTypeOK
    <3>3. ScopesTypeOK'
      BY <2>0, <3>1, <3>2 DEF ScopesInv, ScopesTypeOK
    <3>4. \A g \in Files : bound'[g] = IF g = f THEN executor.scopes[f[2]] ELSE bound[g]
      BY <2>b DEF ScopesInv, ScopesTypeOK
    <3>5. BindingsInv'
      BY ZenonT(30), <2>0, <3>1, <3>4 DEF ScopesInv, BindingsInv
    <3> QED BY <3>3, <3>5
  <2>1. ScopesTypeOK' /\ BindingsInv'
    BY <2>0, <2>a, <2>b
  <2>3. \A g \in Files : bound[g] \in Identities => bound'[g] = bound[g]
    BY ZenonT(30), <1>3, ScopeConstants DEF WriteBinding, ScopesInv, ScopesTypeOK, BindingsInv
  <2> QED BY <1>3, <2>1, <2>3, CardsFrame DEF WriteBinding, NoRequest, ScopesInv
<1> QED BY <1>1, <1>2, <1>3

\* Deliveries, annotations and feedback keep the invariant.
LEMMA ScopesServe ==
    ASSUME ScopesInv,
           \/ \E e \in Envelopes : HandleSuccessfulDelivery(e)
           \/ \E m \in Messages, k \in Keys : HandleAnnotation(m, k)
           \/ \E m \in Messages, c \in Identities : HandleCardFeedback(m, c)
    PROVE  ScopesInv'
<1>0. executor.at = "serving" /\ UNCHANGED <<declared, bound, first, executor>>
  BY DEF HandleSuccessfulDelivery, HandleAnnotation, HandleCardFeedback, ScopesOnly
<1>1. BindingsInv'
  BY <1>0 DEF ScopesInv, BindingsInv
<1>2. ASSUME NEW e \in Envelopes, HandleSuccessfulDelivery(e) PROVE ScopesInv'
  <2>1. PICK k \in Keys : /\ k = e.key /\ executor.scopes[k] # Nil /\ executor.scopes[k] = e.owner
                          /\ cards' = [cards EXCEPT ![k] = @ \cup {e.message}]
    BY <1>2 DEF HandleSuccessfulDelivery, ScopeService
  <2>2. /\ <<"card", k>> \in Files /\ <<"card", k>>[2] = k /\ e.message \in Messages
        /\ executor.scopes[k] \in Identities
    BY <2>1 DEF Files, Roots, Messages, ScopesInv, ScopesTypeOK, Scopes
  <2>3. bound[<<"card", k>>] = e.owner
    BY <1>0, <2>1, <2>2 DEF ScopesInv, BindingsInv
  <2>4. ScopesTypeOK'
    BY <1>0, <2>1, <2>2 DEF ScopesInv, ScopesTypeOK
  <2>5. ASSUME NEW j \in Keys, NEW m \in cards'[j]
        PROVE  /\ j = Envelope(m).key
               /\ Envelope(m).owner \in Identities /\ bound'[<<"card", j>>] = Envelope(m).owner
    <3>1. CASE m \in cards[j]
      BY <1>0, <3>1 DEF ScopesInv, CardsInv
    <3>2. CASE m \notin cards[j]
      <4>1. j = k /\ m = e.message
        BY <2>1, <2>5, <3>2 DEF ScopesInv, ScopesTypeOK
      <4> QED BY <1>0, <2>1, <2>2, <2>3, <4>1, EnvelopeOf
    <3> QED BY <3>1, <3>2
  <2>6. CardsInv'
    BY <2>5 DEF CardsInv, Envelope
  <2>7. OldCardsKeepTheirPrincipals'
    BY <1>2 DEF HandleSuccessfulDelivery, ScopesInv, OldCardsKeepTheirPrincipals, Envelope
  <2> QED BY <1>1, <2>4, <2>6, <2>7 DEF ScopesInv
<1>3. ASSUME UNCHANGED cards, NEW m, NEW k \in Keys, MessageScope(m) = {k},
             used' = used \cup {[message |-> m, with |-> k, as |-> executor.scopes[k]]}
      PROVE  ScopesInv'
  <2>1. m \in cards[k] /\ executor.scopes[k] # Nil
    BY <1>3 DEF MessageScope
  <2>2. k = Envelope(m).key /\ executor.scopes[k] = Envelope(m).owner
    BY <1>0, <2>1, FoundUnderItsScope
  <2>3. OldCardsKeepTheirPrincipals'
    BY SMT, <1>3, <2>2 DEF ScopesInv, OldCardsKeepTheirPrincipals, Envelope
  <2>4. ScopesTypeOK' /\ CardsInv'
    BY SMT, <1>0, <1>3 DEF ScopesInv, ScopesTypeOK, CardsInv, Envelope
  <2> QED BY <1>1, <2>3, <2>4 DEF ScopesInv
<1>4. ASSUME NEW m \in Messages, NEW k \in Keys, HandleAnnotation(m, k) PROVE ScopesInv'
  BY <1>3, <1>4 DEF HandleAnnotation
<1>5. ASSUME NEW m \in Messages, NEW c \in Identities, HandleCardFeedback(m, c) PROVE ScopesInv'
  BY <1>3, <1>5 DEF HandleCardFeedback
<1> QED BY <1>2, <1>4, <1>5

\* The inductive invariant of the delivery scopes.
THEOREM ScopesInvariant == ScopesSpec => []ScopesInv
<1>1. ScopesInit => ScopesInv
  BY SMT DEF ScopesInit, ScopesInv, ScopesTypeOK, BindingsInv, CardsInv, OldCardsKeepTheirPrincipals,
         Off, Scopes
<1>2. ScopesInv /\ [ScopesNext]_scopeVars => ScopesInv'
  BY ScopesStart, ScopesBind, ScopesServe DEF ScopesNext
<1> QED BY <1>1, <1>2, PTL DEF ScopesSpec

\* A card is served, annotated and answered under the profile version, the owner
\* and the principals it was sent with, whatever the scopes file is edited to.
THEOREM ScopesAreKept == ScopesSpec => []CardsKeepTheirScope
<1>1. ScopesInv => ServingMeansBound
  BY DEF ScopesInv, BindingsInv, ServingMeansBound
<1>2. ScopesInv => HistoryKeepsItsScope
  BY FoundUnderItsScope DEF HistoryKeepsItsScope
<1>3. ScopesInv => CardsKeepTheirScope
  BY <1>1, <1>2 DEF ScopesInv, CardsKeepTheirScope
<1> QED BY <1>3, ScopesInvariant, PTL
-----------------------------------------------------------------------------
(***************************************************************************)
(* CardWriter.  Every content that the state file has or may come back to  *)
(* accounts for the card, or a dead letter does; a PATCH that may arrive   *)
(* is of the intent that all of them have, or of a dead letter; a handler  *)
(* that holds the message lock has the only content.  A state file is      *)
(* quarantined while no handler is at work: those of a process that serves *)
(* are fenced off by its locks.                                            *)
(***************************************************************************)
Covers(c, r) == \E a \in c : a.component = r.component /\ a.revision >= r.revision

Shown(s) == card \in AccountedBy(s) \cup DeadLetters

SoundState(s) ==
    s # Nil => s \in CardState /\ ValidCardState(s) /\ \A r \in s.applied : Covers(s.annotations, r)

PendingCards(s) ==
    IF s = Nil THEN {} ELSE {Rendered(s.annotations, r) : r \in {s.pending} \ {Nil}}

Expects(s) == patches \subseteq PendingCards(s) \cup DeadLetters

ContentsInv ==
    /\ \A s \in limbo \cup {file} : SoundState(s) /\ Shown(s) /\ Expects(s)
    /\ file # Nil /\ Nil \in limbo => cardFaults > 0

Holds(t) == thread[t].at \in {"patch", "save"}

\* The card is c, and no PATCH is under way, but for what dead letters account for.
Shows(c) == card \in {c} \cup DeadLetters /\ patches \subseteq DeadLetters

HolderInv ==
    \A t \in Threads :
        /\ thread[t].at # "idle" => thread[t].req \in Requests
        /\ Holds(t) =>
             /\ file # Nil /\ limbo = {file} /\ file.pending = thread[t].req
             /\ \A u \in Threads : Holds(u) => u = t
        /\ thread[t].at = "patch" => Shows(file.annotations)
        /\ thread[t].at = "save" =>
             /\ thread[t].answer = "ok" => Shows(Rendered(file.annotations, thread[t].req))
             /\ thread[t].answer = "rejected" => Shows(file.annotations)

AcksInv ==
    quarantined = {} => \A r \in acked : Covers(card, r) /\ \A c \in patches : Covers(c, r)

FencesInv ==
    /\ held \in [Procs -> Nat]
    /\ \A p, q \in Procs : p # q => Fences(p) \cap Fences(q) = {}

Busy(t) ==
    thread[t].at # "idle" => thread[t].proc \in Procs /\ process[thread[t].proc] = "serving"

ServingInv ==
    /\ \A t \in Threads : Busy(t)
    /\ \A p \in Procs : process[p] = "serving" => held[p] = Len(LeaseOrder(p))

CardInv ==
    /\ CardTypeOK /\ ContentsInv /\ HolderInv /\ AcksInv /\ ReceiptHasBinding
    /\ FencesInv /\ ServingInv

\* What a content accounts for, by its fields.
LEMMA Accounting ==
    ASSUME NEW s
    PROVE  /\ s = Nil => AccountedBy(s) = {{}} /\ PendingCards(s) = {}
           /\ s # Nil /\ s.pending = Nil =>
                AccountedBy(s) = {s.annotations} /\ PendingCards(s) = {}
           /\ s # Nil /\ s.pending # Nil =>
                /\ AccountedBy(s) = {s.annotations, Rendered(s.annotations, s.pending)}
                /\ PendingCards(s) = {Rendered(s.annotations, s.pending)}
           /\ PendingCards(s) \subseteq AccountedBy(s)
<1>1. CASE s = Nil
  BY <1>1 DEF AccountedBy, PendingCards
<1>2. CASE s # Nil /\ s.pending = Nil
  <2>1. {Rendered(s.annotations, r) : r \in {s.pending} \ {Nil}} = {}
    BY <1>2
  <2> QED BY <1>2, <2>1 DEF AccountedBy, PendingCards
<1>3. CASE s # Nil /\ s.pending # Nil
  <2>1. {Rendered(s.annotations, r) : r \in {s.pending} \ {Nil}}
          = {Rendered(s.annotations, s.pending)}
    BY <1>3
  <2> QED BY <1>3, <2>1 DEF AccountedBy, PendingCards
<1> QED BY <1>1, <1>2, <1>3

\* Dead letters stay; without any there is no other account of the card.
LEMMA Letters ==
    /\ quarantined = {} => DeadLetters = {}
    /\ UNCHANGED quarantined => DeadLetters' = DeadLetters
    /\ \A s : quarantined' = quarantined \cup {s} => DeadLetters' = DeadLetters \cup AccountedBy(s)
<1>1. quarantined = {} => DeadLetters = {}
  BY DEF DeadLetters
<1>2. UNCHANGED quarantined => DeadLetters' = DeadLetters
  BY DEF DeadLetters
<1>3. ASSUME NEW s, quarantined' = quarantined \cup {s}
      PROVE  DeadLetters' = DeadLetters \cup AccountedBy(s)
  BY <1>3 DEF DeadLetters
<1> QED BY <1>1, <1>2, <1>3

\* The directories to lock are finitely many: one, or two that differ.
LEMMA LeaseOrderLen == ASSUME NEW p \in Procs PROVE Len(LeaseOrder(p)) \in Nat
  BY CardConstants DEF LeaseOrder

Handler == [at : {"idle", "bound", "locked", "patch", "save"}, proc : Procs \cup {Nil},
            req : Requests \cup {Nil}, binding : Bindings \cup {Nil},
            answer : {"none", "ok", "rejected", "unknown"}]

\* The parts of the type invariant that concern no content.
LEMMA CardTypes ==
    CardTypeOK <=>
      /\ process \in [Procs -> {"off", "acquiring", "failing", "serving"}]
      /\ \A p \in Procs : held[p] \in 0..Len(LeaseOrder(p))
      /\ cache \in [Procs -> Bindings \cup {Nil}]
      /\ thread \in [Threads -> Handler]
      /\ \A s \in limbo \cup {file} : s # Nil => s \in CardState /\ ValidCardState(s)
      /\ quarantined \subseteq CardState
      /\ card \in Cards /\ patches \subseteq Cards
      /\ acked \subseteq Requests /\ receipt \in BOOLEAN
      /\ cardFaults \in 0..MaxCardFaults /\ deaths \in 0..MaxCardCrashes
  BY DEF CardTypeOK, Handler

\* A new annotation covers what was on the card: its revision is the next one.
LEMMA RenderedCovers ==
    ASSUME NEW s \in CardState, ValidCardState(s), NEW r \in Requests, r.revision = s.revision + 1
    PROVE  /\ Rendered(s.annotations, r) \in Cards
           /\ Covers(Rendered(s.annotations, r), r)
           /\ \A a \in s.annotations : \E b \in Rendered(s.annotations, r) :
                b.component = a.component /\ b.revision >= a.revision
           /\ \A q \in Requests : Covers(s.annotations, q) => Covers(Rendered(s.annotations, r), q)
           /\ \A a \in Rendered(s.annotations, r) : a.revision <= r.revision
<1>1. /\ s.revision \in Nat /\ r.revision \in Nat /\ s.annotations \in Cards
      /\ \A a \in s.annotations : a.revision \in Nat /\ a.revision <= s.revision
  BY SMT, CardConstants DEF CardState, Revisions, Cards, ValidCardState
<1>2. Annotation(r) \in Rendered(s.annotations, r)
  BY DEF Rendered
<1>3. Annotation(r).component = r.component /\ Annotation(r).revision = r.revision
  BY DEF Annotation
<1>4. Rendered(s.annotations, r) \in Cards
  BY <1>1 DEF Rendered, Cards, Annotation
<1>5. ASSUME NEW a \in s.annotations
      PROVE  \E b \in Rendered(s.annotations, r) :
               b.component = a.component /\ b.revision >= a.revision
  <2>1. CASE a.component = r.component
    BY SMT, <1>1, <1>2, <1>3, <2>1
  <2>2. CASE a.component # r.component
    <3>1. a \in Rendered(s.annotations, r)
      BY <2>2 DEF Rendered
    <3> QED BY SMT, <1>1, <3>1
  <2> QED BY <2>1, <2>2
<1>6. \A a \in Rendered(s.annotations, r) : a.revision \in Nat /\ a.revision <= r.revision
  BY SMT, <1>1, <1>3 DEF Rendered
<1>7. ASSUME NEW q \in Requests, Covers(s.annotations, q)
      PROVE  Covers(Rendered(s.annotations, r), q)
  <2>1. PICK a \in s.annotations : a.component = q.component /\ a.revision >= q.revision
    BY <1>7 DEF Covers
  <2>2. PICK b \in Rendered(s.annotations, r) : b.component = a.component /\ b.revision >= a.revision
    BY <1>5
  <2>3. q.revision \in Nat /\ b.revision \in Nat /\ a.revision \in Nat
    BY <1>1, <1>6, CardConstants
  <2>4. b.component = q.component /\ b.revision >= q.revision
    BY SMT, <2>1, <2>2, <2>3
  <2> QED BY <2>4 DEF Covers
<1>8. Covers(Rendered(s.annotations, r), r)
  BY SMT, <1>1, <1>2, <1>3 DEF Covers
<1> QED BY <1>4, <1>5, <1>6, <1>7, <1>8

\* The content that a capture saves is valid.
LEMMA CapturedSound ==
    /\ SoundState(Captured) /\ Captured # Nil
    /\ Captured.pending = Nil /\ Captured.annotations = {}
<1>1. Captured \in CardState
  BY DEF Captured, CardState, Cards, PatchStates
<1>2. /\ ValidCardState(Captured) /\ Captured.applied = {}
      /\ Captured.pending = Nil /\ Captured.annotations = {}
  BY DEF Captured, ValidCardState
<1> QED BY <1>1, <1>2, MissingState DEF SoundState

\* The contents that an intent and the answers to a PATCH leave are valid.
LEMMA SoundContents ==
    ASSUME SoundState(file), file # Nil
    PROVE  /\ file.pending # Nil => SoundState([file EXCEPT !.state = "unknown"])
           /\ SoundState([file EXCEPT !.state = "failed", !.pending = Nil])
           /\ \A r \in Requests : r.revision = file.revision + 1 =>
                SoundState(Intent(r)) /\ SoundState(Confirmed(r))
<1>1. /\ file \in CardState /\ ValidCardState(file)
      /\ \A q \in file.applied : q \in Requests /\ Covers(file.annotations, q)
  BY DEF SoundState, CardState
<1>3. ASSUME file.pending # Nil PROVE SoundState([file EXCEPT !.state = "unknown"])
  <2>1. PICK s : s = [file EXCEPT !.state = "unknown"]
    OBVIOUS
  <2>2. /\ s \in CardState /\ s.state = "unknown" /\ s.pending = file.pending
        /\ s.annotations = file.annotations /\ s.applied = file.applied
        /\ s.revision = file.revision
    BY <1>1, <2>1 DEF CardState, PatchStates
  <2>3. ValidCardState(s)
    BY <1>1, <1>3, <2>2 DEF ValidCardState
  <2> QED BY <1>1, <2>1, <2>2, <2>3 DEF SoundState
<1>4. SoundState([file EXCEPT !.state = "failed", !.pending = Nil])
  <2>1. PICK s : s = [file EXCEPT !.state = "failed", !.pending = Nil]
    OBVIOUS
  <2>2. /\ s \in CardState /\ s.state = "failed" /\ s.pending = Nil
        /\ s.annotations = file.annotations /\ s.applied = file.applied
        /\ s.revision = file.revision
    BY <1>1, <2>1 DEF CardState, PatchStates
  <2>3. ValidCardState(s)
    BY <1>1, <2>2 DEF ValidCardState
  <2> QED BY <1>1, <2>1, <2>2, <2>3 DEF SoundState
<1>5. ASSUME NEW r \in Requests, r.revision = file.revision + 1 PROVE SoundState(Intent(r))
  <2>1. PICK s : s = Intent(r)
    OBVIOUS
  <2>2. /\ s \in CardState /\ s.state = "sending" /\ s.pending = r
        /\ s.annotations = file.annotations /\ s.applied = file.applied
        /\ s.revision = file.revision
    BY <1>1, <2>1 DEF CardState, PatchStates, Intent
  <2>3. ValidCardState(s)
    BY <1>1, <1>5, <2>2, CardConstants DEF ValidCardState
  <2> QED BY <1>1, <2>1, <2>2, <2>3 DEF SoundState
<1>6. ASSUME NEW r \in Requests, r.revision = file.revision + 1 PROVE SoundState(Confirmed(r))
  <2>1. PICK s : s = Confirmed(r)
    OBVIOUS
  <2>2. /\ Rendered(file.annotations, r) \in Cards
        /\ Covers(Rendered(file.annotations, r), r)
        /\ \A q \in Requests : Covers(file.annotations, q) => Covers(Rendered(file.annotations, r), q)
        /\ \A a \in Rendered(file.annotations, r) : a.revision <= r.revision
    BY <1>1, <1>6, RenderedCovers
  <2>3. /\ s \in CardState /\ s.state = "confirmed" /\ s.pending = Nil
        /\ s.annotations = Rendered(file.annotations, r) /\ s.applied = file.applied \cup {r}
        /\ s.revision = r.revision
    BY <1>1, <2>1, <2>2 DEF CardState, PatchStates, Confirmed, Revisions
  <2>4. file.revision \in Nat
    BY SMT, <1>1, CardConstants DEF CardState, Revisions
  <2>5. ValidCardState(s)
    BY SMT, <1>6, <2>2, <2>3, <2>4 DEF ValidCardState
  <2> QED BY <1>1, <2>1, <2>2, <2>3, <2>5 DEF SoundState
<1> QED BY <1>3, <1>4, <1>5, <1>6

\* What the contents that the handlers write have.
LEMMA ContentFields ==
    ASSUME SoundState(file), file # Nil, NEW r
    PROVE  /\ [file EXCEPT !.state = "unknown"].pending = file.pending
           /\ [file EXCEPT !.state = "unknown"].annotations = file.annotations
           /\ [file EXCEPT !.state = "unknown"] # Nil
           /\ [file EXCEPT !.state = "failed", !.pending = Nil].pending = Nil
           /\ [file EXCEPT !.state = "failed", !.pending = Nil].annotations = file.annotations
           /\ [file EXCEPT !.state = "failed", !.pending = Nil] # Nil
           /\ r \in Requests =>
                /\ Intent(r).pending = r /\ Intent(r).annotations = file.annotations
                /\ Intent(r) # Nil
           /\ r \in Requests /\ r.revision = file.revision + 1 =>
                /\ Confirmed(r).pending = Nil /\ Confirmed(r) # Nil
                /\ Confirmed(r).annotations = Rendered(file.annotations, r)
<1>1. file \in CardState /\ ValidCardState(file)
  BY DEF SoundState
<1>2. /\ [file EXCEPT !.state = "unknown"] \in CardState
      /\ [file EXCEPT !.state = "failed", !.pending = Nil] \in CardState
      /\ r \in Requests => Intent(r) \in CardState
  BY <1>1 DEF CardState, PatchStates, Intent
<1>3. r \in Requests /\ r.revision = file.revision + 1 => Confirmed(r) \in CardState
  <2>1. r \in Requests /\ r.revision = file.revision + 1 => Rendered(file.annotations, r) \in Cards
    BY <1>1, RenderedCovers
  <2> QED BY <1>1, <2>1 DEF CardState, PatchStates, Confirmed, Revisions
<1>4. /\ [file EXCEPT !.state = "unknown"].pending = file.pending
      /\ [file EXCEPT !.state = "unknown"].annotations = file.annotations
      /\ [file EXCEPT !.state = "failed", !.pending = Nil].pending = Nil
      /\ [file EXCEPT !.state = "failed", !.pending = Nil].annotations = file.annotations
      /\ Intent(r).pending = r /\ Intent(r).annotations = file.annotations
      /\ Confirmed(r).pending = Nil
      /\ Confirmed(r).annotations = Rendered(file.annotations, r)
  BY <1>1 DEF CardState, Intent, Confirmed
<1> QED BY <1>2, <1>3, <1>4, MissingState

\* A write of a content that accounts for the card, successful or not, leaves
\* only contents that do.
LEMMA WriteContents ==
    ASSUME ContentsInv, cardFaults \in 0..MaxCardFaults,
           UNCHANGED <<card, patches, quarantined>>, NEW s, SoundState(s), Shown(s), Expects(s), Saved(s) \/ SaveFails(s), s # Nil
    PROVE  ContentsInv' /\ cardFaults' \in 0..MaxCardFaults /\ cardFaults' >= cardFaults
           /\ file' \in {file, s}
<1>0. MaxCardFaults \in Nat
  BY CardConstants
<1>1. /\ cardFaults' \in 0..MaxCardFaults /\ cardFaults' >= cardFaults /\ file' \in {file, s}
      /\ limbo' \subseteq limbo \cup {file, s}
      /\ cardFaults' > 0 \/ UNCHANGED <<file, limbo>> \/ limbo' = {s}
  BY SMT, <1>0 DEF Saved, SaveFails
<1>2. ASSUME NEW x \in limbo' \cup {file'} PROVE SoundState(x) /\ Shown(x)' /\ Expects(x)'
  BY <1>1, <1>2, Letters DEF ContentsInv, Shown, Expects
<1>3. file' # Nil /\ Nil \in limbo' => cardFaults' > 0
  BY SMT, <1>1 DEF ContentsInv
<1> QED BY <1>1, <1>2, <1>3 DEF ContentsInv, Shown, Expects, SoundState

\* Contents are left alone.
LEMMA SameContents ==
    ASSUME ContentsInv, UNCHANGED <<file, limbo, quarantined, card, patches, cardFaults>>
    PROVE  ContentsInv'
  BY Letters DEF ContentsInv, SoundState, Shown, Expects

\* Handlers that come and go without the message lock disturb no holder of it.
LEMMA HolderQuiet ==
    ASSUME HolderInv, UNCHANGED <<file, limbo, quarantined, card, patches>>,
           \A u \in Threads : \/ thread'[u] = thread[u]
                              \/ /\ thread'[u].at \notin {"patch", "save"}
                                 /\ thread'[u].at # "idle" => thread'[u].req \in Requests
    PROVE  HolderInv'
  BY Letters DEF HolderInv, Holds, Shows

\* Without a holder there is nothing to account for.
LEMMA HolderNone ==
    ASSUME HolderInv, \A u \in Threads : thread'[u].at \notin {"patch", "save"},
           \A u \in Threads : thread'[u] = thread[u] \/ thread'[u].at = "idle"
    PROVE  HolderInv'
  BY DEF HolderInv, Holds

\* Locks that are left alone.
LEMMA FencesFrame == ASSUME FencesInv, UNCHANGED held PROVE FencesInv'
  BY DEF FencesInv, Fences, LeaseOrder

\* A handler that answers is idle again.
LEMMA ReplyEffect ==
    ASSUME NEW t \in Threads, thread \in [Threads -> Handler], Reply(t)
    PROVE  /\ thread' \in [Threads -> Handler] /\ thread'[t].at = "idle"
           /\ \A u \in Threads : u # t => thread'[u] = thread[u]
           /\ \A u \in Threads : thread'[u] = thread[u] \/ thread'[u].at = "idle"
<1>1. Idle \in Handler /\ Idle.at = "idle"
  BY DEF Idle, Handler
<1> QED BY <1>1 DEF Reply

\* A handler that goes on keeps its request.
LEMMA StepEffect ==
    ASSUME NEW t \in Threads, thread \in [Threads -> Handler], NEW at \in {"locked", "patch", "save"},
           NEW answer \in {"none", "ok", "rejected", "unknown"},
           \/ Step(t, at) /\ answer = thread[t].answer
           \/ Answered(t, answer) /\ at = "save"
    PROVE  /\ thread' \in [Threads -> Handler]
           /\ thread'[t].at = at /\ thread'[t].req = thread[t].req /\ thread'[t].answer = answer
           /\ thread'[t].proc = thread[t].proc
           /\ \A u \in Threads : u # t => thread'[u] = thread[u]
  BY SMT DEF Step, Answered, Handler
-----------------------------------------------------------------------------
\* Launch, flock, closeAll, the start of the service and an eviction keep the
\* invariant; a lock is taken only when no other process has it.
LEMMA ProcessInv ==
    ASSUME CardInv, NEW p \in Procs, Starting(p) \/ Evict(p), UNCHANGED file
    PROVE  CardInv'
<1>1. UNCHANGED <<thread, file, limbo, quarantined, card, patches, acked, receipt, cardFaults, deaths>>
  BY DEF Starting, Launch, FlockDirectory, CloseAll, StartService, quarantine, Evict, ProcessOnly
<1>2. /\ process \in [Procs -> {"off", "acquiring", "failing", "serving"}]
      /\ \A q \in Procs : held[q] \in 0..Len(LeaseOrder(q))
      /\ cache \in [Procs -> Bindings \cup {Nil}]
  BY CardTypes DEF CardInv
<1>3. process' \in [Procs -> {"off", "acquiring", "failing", "serving"}]
  BY <1>2 DEF Starting, Launch, FlockDirectory, CloseAll, StartService, Evict
<1>4. cache' \in [Procs -> Bindings \cup {Nil}]
  BY <1>2 DEF Starting, Launch, FlockDirectory, CloseAll, StartService, Evict, CacheBinding
<1>5. (\A q \in Procs : held'[q] \in 0..Len(LeaseOrder(q))) /\ FencesInv'
  <2>1. CASE UNCHANGED held
    BY <1>2, <2>1, FencesFrame DEF CardInv
  <2>2. CASE held' = [held EXCEPT ![p] = 0] /\ CloseAll(p)
    <3>1. ASSUME NEW q \in Procs PROVE held'[q] \in 0..Len(LeaseOrder(q))
      BY SMT, <1>2, <2>2, LeaseOrderLen
    <3>2. held' \in [Procs -> Nat]
      BY <2>2 DEF CardInv, FencesInv
    <3>3. ASSUME NEW q \in Procs PROVE Fences(q)' \subseteq Fences(q)
      <4>1. held'[q] = IF q = p THEN 0 ELSE held[q]
        BY <2>2 DEF CardInv, FencesInv
      <4>2. Fences(q)' = {LeaseOrder(q)[i] : i \in 1..held'[q]}
        BY DEF Fences, LeaseOrder
      <4> QED BY SMT, <4>1, <4>2 DEF Fences
    <3>4. FencesInv'
      BY <3>2, <3>3 DEF CardInv, FencesInv
    <3> QED BY <3>1, <3>4
  <2>3. CASE /\ FlockDirectory(p) /\ LeaseFree(p) /\ held[p] < Len(LeaseOrder(p))
             /\ held' = [held EXCEPT ![p] = @ + 1]
    <3>1. ASSUME NEW q \in Procs PROVE held'[q] \in 0..Len(LeaseOrder(q))
      BY SMT, <1>2, <2>3, LeaseOrderLen
    <3>2. held' \in [Procs -> Nat] /\ held[p] \in Nat
      BY SMT, <2>3 DEF CardInv, FencesInv
    <3>3. ASSUME NEW q \in Procs
          PROVE  Fences(q)' = IF q = p THEN Fences(p) \cup {LeaseOrder(p)[held[p] + 1]} ELSE Fences(q)
      <4>1. held'[q] = IF q = p THEN held[p] + 1 ELSE held[q]
        BY <2>3 DEF CardInv, FencesInv
      <4>2. Fences(q)' = {LeaseOrder(q)[i] : i \in 1..held'[q]}
        BY DEF Fences, LeaseOrder
      <4>3. 1..(held[p] + 1) = (1..held[p]) \cup {held[p] + 1}
        BY SMT, <3>2
      <4> QED BY <4>1, <4>2, <4>3 DEF Fences
    <3>4. \A q \in Procs \ {p} : LeaseOrder(p)[held[p] + 1] \notin Fences(q)
      BY <2>3 DEF LeaseFree
    <3>5. FencesInv'
      BY SMT, <3>2, <3>3, <3>4 DEF CardInv, FencesInv
    <3> QED BY <3>1, <3>5
  <2> QED BY <2>1, <2>2, <2>3 DEF Starting, Launch, FlockDirectory, CloseAll, StartService, Evict
<1>6. ContentsInv' /\ HolderInv' /\ AcksInv' /\ ReceiptHasBinding'
  BY <1>1, SameContents, HolderQuiet DEF CardInv, AcksInv, Covers, ReceiptHasBinding
<1>7. CardTypeOK'
  BY <1>1, <1>3, <1>4, <1>5 DEF CardInv, CardTypeOK, LeaseOrder, ValidCardState
<1>8. ServingInv'
  <2>1. ASSUME NEW q \in Procs, q # p PROVE process'[q] = process[q] /\ held'[q] = held[q]
    BY <1>2, <2>1
       DEF Starting, Launch, FlockDirectory, CloseAll, StartService, Evict, CardInv, FencesInv
  <2>2. /\ process'[p] = "serving" => held'[p] = Len(LeaseOrder(p))
        /\ process[p] = "serving" => process'[p] = "serving"
    BY <1>2 DEF Starting, Launch, FlockDirectory, CloseAll, StartService, Evict, CardInv, FencesInv,
                ServingInv
  <2>3. ASSUME NEW t \in Threads PROVE Busy(t)'
    BY <1>1, <2>1, <2>2 DEF CardInv, ServingInv, Busy
  <2>4. ASSUME NEW q \in Procs, process'[q] = "serving" PROVE held'[q] = Len(LeaseOrder(q))
    BY <2>1, <2>2, <2>4 DEF CardInv, ServingInv
  <2> QED BY <2>3, <2>4 DEF ServingInv, LeaseOrder
<1> QED BY <1>5, <1>6, <1>7, <1>8 DEF CardInv

\* Types after a step, from those of what it changes.
LEMMA TypesAfter ==
    ASSUME CardTypeOK, ContentsInv',
           process' \in [Procs -> {"off", "acquiring", "failing", "serving"}],
           \A p \in Procs : held'[p] \in 0..Len(LeaseOrder(p)),
           cache' \in [Procs -> Bindings \cup {Nil}], thread' \in [Threads -> Handler],
           quarantined' \subseteq CardState,
           card' \in Cards, patches' \subseteq Cards, acked' \subseteq Requests,
           receipt' \in BOOLEAN, cardFaults' \in 0..MaxCardFaults, deaths' \in 0..MaxCardCrashes
    PROVE  CardTypeOK'
<1>1. \A s \in limbo' \cup {file'} : s # Nil => s \in CardState /\ ValidCardState(s)
  BY DEF ContentsInv, SoundState, ValidCardState
<1> QED BY <1>1 DEF CardTypeOK, Handler, LeaseOrder, ValidCardState

\* While a process has all its locks and does not serve yet, no handler is at
\* work: the process of one has the lock of the directory they share.
LEMMA NoneAtWork ==
    ASSUME CardInv, NEW p \in Procs, process[p] = "acquiring", held[p] = Len(LeaseOrder(p)),
           NEW t \in Threads
    PROVE  thread[t].at = "idle"
<1> SUFFICES ASSUME thread[t].at # "idle" PROVE FALSE
  OBVIOUS
<1>1. PICK q \in Procs : q = thread[t].proc /\ process[q] = "serving"
  BY DEF CardInv, ServingInv, Busy
<1>2. q # p /\ held[q] = Len(LeaseOrder(q))
  BY <1>1 DEF CardInv, ServingInv
<1>3. ASSUME NEW x \in Procs, held[x] = Len(LeaseOrder(x))
      PROVE  {Stores[x][1], Stores[x][2]} \subseteq Fences(x)
  <2>1. PICK a, b : a = Stores[x][1] /\ b = Stores[x][2]
    OBVIOUS
  <2>2. PICK o : o = LeaseOrder(x)
    OBVIOUS
  <2>3. (o = <<a>> /\ a = b) \/ o = <<a, b>> \/ o = <<b, a>>
    BY <2>1, <2>2 DEF LeaseOrder
  <2>4. \E i \in 1..Len(o) : o[i] = a
    BY SMTT(30), <2>3
  <2>5. \E i \in 1..Len(o) : o[i] = b
    BY SMT, <2>3
  <2> QED BY <1>3, <2>1, <2>2, <2>4, <2>5 DEF Fences
<1>4. Fences(p) \cap Fences(q) = {}
  BY <1>2 DEF CardInv, FencesInv
<1>5. PICK d : d \in {Stores[p][1], Stores[p][2]} /\ d \in {Stores[q][1], Stores[q][2]}
  BY ZenonT(30), CardConstants
<1>6. d \in Fences(p) /\ d \in Fences(q)
  BY <1>2, <1>3, <1>5
<1> QED BY <1>4, <1>6

\* The quarantine of the state file keeps the invariant: the dead letter accounts
\* for what the file did.
LEMMA QuarantineInv ==
    ASSUME CardInv, NEW p \in Procs, StartService(p), quarantine
    PROVE  CardInv'
<1>1. /\ UNCHANGED <<held, cache, deaths, thread, card, patches, acked, receipt>>
      /\ process[p] = "acquiring" /\ held[p] = Len(LeaseOrder(p))
      /\ process' = [process EXCEPT ![p] = "serving"]
      /\ file # Nil /\ cardFaults < MaxCardFaults /\ cardFaults' = cardFaults + 1
      /\ file' = Nil /\ limbo' \subseteq limbo \cup {file, Nil}
      /\ quarantined' = quarantined \cup {file}
  BY DEF StartService, quarantine
<1>2. /\ process \in [Procs -> {"off", "acquiring", "failing", "serving"}]
      /\ \A q \in Procs : held[q] \in 0..Len(LeaseOrder(q))
      /\ cache \in [Procs -> Bindings \cup {Nil}] /\ thread \in [Threads -> Handler]
      /\ quarantined \subseteq CardState
      /\ card \in Cards /\ patches \subseteq Cards /\ acked \subseteq Requests
      /\ receipt \in BOOLEAN /\ cardFaults \in 0..MaxCardFaults /\ deaths \in 0..MaxCardCrashes
      /\ file \in CardState
  BY <1>1, CardTypes DEF CardInv
<1>3. PICK f : f = file
  OBVIOUS
<1>4. DeadLetters' = DeadLetters \cup AccountedBy(f)
  BY <1>1, <1>3, Letters
<1>5. card \in DeadLetters' /\ patches \subseteq DeadLetters'
  BY <1>3, <1>4, Accounting DEF CardInv, ContentsInv, Shown, Expects
<1>6. ContentsInv'
  <2>1. ASSUME NEW s \in limbo' \cup {file'} PROVE SoundState(s) /\ Shown(s)' /\ Expects(s)'
    BY <1>1, <1>5, <2>1 DEF CardInv, ContentsInv, SoundState, Shown, Expects
  <2> QED BY <1>1, <2>1 DEF ContentsInv, SoundState
<1>7. \A t \in Threads : thread'[t].at = "idle"
  BY <1>1, NoneAtWork
<1>8. HolderInv' /\ \A t \in Threads : Busy(t)'
  BY <1>7 DEF HolderInv, Holds, Busy
<1>9. AcksInv' /\ ReceiptHasBinding'
  BY <1>1 DEF AcksInv, ReceiptHasBinding
<1>10. process' \in [Procs -> {"off", "acquiring", "failing", "serving"}]
  BY <1>1, <1>2
<1>11. cardFaults' \in 0..MaxCardFaults
  BY SMT, <1>1, <1>2, CardConstants
<1>12. CardTypeOK' /\ FencesInv'
  BY <1>1, <1>2, <1>6, <1>10, <1>11, TypesAfter, FencesFrame DEF CardInv
<1>13. ServingInv'
  <2>1. ASSUME NEW q \in Procs, process'[q] = "serving" PROVE held'[q] = Len(LeaseOrder(q))
    BY <1>1, <1>2, <2>1 DEF CardInv, ServingInv
  <2> QED BY <1>8, <2>1 DEF ServingInv, LeaseOrder
<1> QED BY <1>6, <1>8, <1>9, <1>12, <1>13 DEF CardInv

\* The death of a process, with or without its unsynced renames, keeps the invariant.
LEMMA DieInv ==
    ASSUME CardInv, NEW p \in Procs, Die(p)
    PROVE  CardInv'
<1>1. /\ UNCHANGED <<quarantined, card, patches, acked, receipt, cardFaults>>
      /\ deaths < MaxCardCrashes
      /\ deaths' = deaths + 1
      /\ process' = [process EXCEPT ![p] = "off"] /\ held' = [held EXCEPT ![p] = 0]
      /\ cache' = [cache EXCEPT ![p] = Nil]
      /\ thread' = [t \in Threads |-> IF thread[t].proc = p THEN Idle ELSE thread[t]]
      /\ CardPowerLoss => file' \in limbo \cup {file} /\ limbo' = {file'}
      /\ ~CardPowerLoss => UNCHANGED <<file, limbo>>
  BY CardConstants DEF Die
<1>2. /\ process \in [Procs -> {"off", "acquiring", "failing", "serving"}]
      /\ \A q \in Procs : held[q] \in 0..Len(LeaseOrder(q))
      /\ cache \in [Procs -> Bindings \cup {Nil}] /\ thread \in [Threads -> Handler]
      /\ quarantined \subseteq CardState
      /\ card \in Cards /\ patches \subseteq Cards /\ acked \subseteq Requests
      /\ receipt \in BOOLEAN /\ cardFaults \in 0..MaxCardFaults /\ deaths \in 0..MaxCardCrashes
  BY CardTypes DEF CardInv
<1>3. Idle \in Handler /\ Idle.at = "idle"
  BY DEF Idle, Handler
<1>4. /\ file' \in limbo \cup {file} /\ limbo' \subseteq limbo \cup {file}
      /\ file' # Nil /\ Nil \in limbo' => cardFaults > 0
  BY <1>1, CardConstants DEF CardInv, ContentsInv
<1>5. ContentsInv'
  BY <1>1, <1>4, Letters DEF CardInv, ContentsInv, SoundState, Shown, Expects
<1>6. thread' \in [Threads -> Handler]
      /\ \A u \in Threads : thread'[u] = thread[u] \/ thread'[u].at = "idle"
  BY <1>1, <1>2, <1>3
<1>7. HolderInv'
  <2>1. CASE \E t \in Threads : Holds(t)
    <3>1. limbo = {file}
      BY <2>1 DEF CardInv, HolderInv
    <3>2. UNCHANGED <<file, limbo>>
      BY <1>1, <3>1, CardConstants
    <3> QED BY <1>1, <1>6, <3>2, HolderQuiet DEF CardInv
  <2>2. CASE ~\E t \in Threads : Holds(t)
    BY <1>6, <2>2, HolderNone DEF CardInv, Holds
  <2> QED BY <2>1, <2>2
<1>8. AcksInv'
  BY <1>1 DEF CardInv, AcksInv, Covers
<1>9. ReceiptHasBinding'
  <2>1. cardFaults \in Nat /\ deaths' > 0
    BY SMT, <1>1, <1>2, CardConstants
  <2>2. CASE CardPowerLoss
    BY <1>1, <2>1, <2>2 DEF CardInv, ReceiptHasBinding, ContentsInv
  <2>3. CASE ~CardPowerLoss
    BY <1>1, <2>1, <2>3 DEF CardInv, ReceiptHasBinding
  <2> QED BY <2>2, <2>3
<1>10. ASSUME NEW q \in Procs PROVE held'[q] \in 0..Len(LeaseOrder(q))
  BY SMT, <1>1, <1>2, LeaseOrderLen DEF CardInv, FencesInv
<1>11. FencesInv'
  <2>1. held' \in [Procs -> Nat]
    BY <1>1 DEF CardInv, FencesInv
  <2>2. ASSUME NEW q \in Procs PROVE Fences(q)' \subseteq Fences(q)
    <3>1. held'[q] = IF q = p THEN 0 ELSE held[q]
      BY <1>1 DEF CardInv, FencesInv
    <3>2. Fences(q)' = {LeaseOrder(q)[i] : i \in 1..held'[q]}
      BY DEF Fences, LeaseOrder
    <3> QED BY SMT, <3>1, <3>2 DEF Fences
  <2> QED BY <2>1, <2>2 DEF CardInv, FencesInv
<1>12. CardTypeOK'
  <2>1. deaths' \in 0..MaxCardCrashes
    BY SMT, <1>1, <1>2, CardConstants
  <2>2. /\ process' \in [Procs -> {"off", "acquiring", "failing", "serving"}]
        /\ cache' \in [Procs -> Bindings \cup {Nil}]
    BY <1>1, <1>2
  <2> QED BY <1>1, <1>2, <1>5, <1>6, <1>10, <2>1, <2>2, TypesAfter DEF CardInv
<1>13. ServingInv'
  <2>1. ASSUME NEW q \in Procs
        PROVE  /\ process'[q] = IF q = p THEN "off" ELSE process[q]
               /\ held'[q] = IF q = p THEN 0 ELSE held[q]
    BY <1>1, <1>2 DEF CardInv, FencesInv
  <2>2. ASSUME NEW t \in Threads PROVE Busy(t)'
    <3>1. CASE thread[t].proc = p
      BY <1>1, <1>3, <3>1 DEF Busy
    <3>2. CASE thread[t].proc # p
      <4>1. thread'[t] = thread[t]
        BY <1>1, <3>2
      <4> QED BY <2>1, <3>2, <4>1 DEF CardInv, ServingInv, Busy
    <3> QED BY <3>1, <3>2
  <2>3. ASSUME NEW q \in Procs, process'[q] = "serving" PROVE held'[q] = Len(LeaseOrder(q))
    BY <2>1, <2>3 DEF CardInv, ServingInv
  <2> QED BY <2>2, <2>3 DEF ServingInv, LeaseOrder
<1> QED BY <1>5, <1>7, <1>8, <1>9, <1>11, <1>12, <1>13 DEF CardInv

\* What every step of a handler and of a capture leaves alone.
LEMMA HandlerTypes ==
    ASSUME CardInv, ContentsInv', UNCHANGED <<process, held, quarantined, deaths>>,
           \A u \in Threads : Busy(u)', cache' \in [Procs -> Bindings \cup {Nil}], thread' \in [Threads -> Handler],
           card' \in Cards, patches' \subseteq Cards, acked' \subseteq Requests,
           receipt' \in BOOLEAN, cardFaults' \in 0..MaxCardFaults
    PROVE  CardTypeOK' /\ FencesInv' /\ ServingInv'
<1>1. /\ process \in [Procs -> {"off", "acquiring", "failing", "serving"}]
      /\ \A q \in Procs : held[q] \in 0..Len(LeaseOrder(q))
      /\ quarantined \subseteq CardState
      /\ deaths \in 0..MaxCardCrashes
  BY CardTypes DEF CardInv
<1>2. CardTypeOK' /\ FencesInv'
  BY <1>1, TypesAfter, FencesFrame DEF CardInv
<1>3. ServingInv'
  BY DEF CardInv, ServingInv, LeaseOrder
<1> QED BY <1>2, <1>3

\* A handler that answers, goes on or is left alone is served by a process.
LEMMA StillBusy ==
    ASSUME CardInv, UNCHANGED process,
           \A u \in Threads :
             \/ thread'[u] = thread[u] \/ thread'[u].at = "idle"
             \/ thread[u].at # "idle" /\ thread'[u].proc = thread[u].proc
    PROVE  \A u \in Threads : Busy(u)'
  BY DEF CardInv, ServingInv, Busy

\* A capture keeps the invariant.
LEMMA CaptureInv ==
    ASSUME CardInv, NEW p \in Procs, CaptureDurable(p)
    PROVE  CardInv'
<1>1. /\ UNCHANGED <<process, held, thread, quarantined, card, patches, acked, deaths>>
      /\ \A t \in Threads : ~Holds(t)
      /\ \/ captureCardBinding(p) /\ receipt' \in {receipt, TRUE}
         \/ file = Nil /\ SaveFails(Captured) /\ UNCHANGED <<receipt, cache>>
  BY DEF CaptureDurable, MessageLocked, Holds
<1>2. /\ cache \in [Procs -> Bindings \cup {Nil}] /\ thread \in [Threads -> Handler]
      /\ card \in Cards /\ patches \subseteq Cards /\ acked \subseteq Requests
      /\ receipt \in BOOLEAN /\ cardFaults \in 0..MaxCardFaults
  BY CardTypes DEF CardInv
<1>3. PICK s : s = Captured
  OBVIOUS
<1>4. /\ \/ UNCHANGED <<file, limbo, cardFaults>>
         \/ file = Nil /\ (Saved(s) \/ SaveFails(s))
      /\ cache' \in [Procs -> Bindings \cup {Nil}] /\ receipt' \in BOOLEAN
  BY <1>1, <1>2, <1>3 DEF captureCardBinding, CacheBinding
<1>5. ContentsInv' /\ cardFaults' \in 0..MaxCardFaults /\ cardFaults' >= cardFaults
      /\ file' \in {file, s}
  <2>1. CASE UNCHANGED <<file, limbo, cardFaults>>
    BY SMT, <1>1, <1>2, <2>1, SameContents, CardConstants DEF CardInv
  <2>2. CASE file = Nil /\ (Saved(s) \/ SaveFails(s))
    <3>1. card \in {{}} \cup DeadLetters /\ patches \subseteq DeadLetters
      <4>1. Shown(file) /\ Expects(file)
        BY DEF CardInv, ContentsInv
      <4>2. AccountedBy(file) = {{}} /\ PendingCards(file) = {}
        BY <2>2, Accounting
      <4> QED BY <4>1, <4>2 DEF Shown, Expects
    <3>2. SoundState(s) /\ s # Nil /\ s.pending = Nil /\ s.annotations = {}
      BY <1>3, CapturedSound
    <3>3. AccountedBy(s) = {{}}
      BY <3>2, Accounting
    <3>4. Shown(s) /\ Expects(s)
      BY <3>1, <3>3 DEF Shown, Expects
    <3> QED BY <1>1, <1>2, <2>2, <3>2, <3>4, WriteContents DEF CardInv
  <2> QED BY <1>4, <2>1, <2>2
<1>6. HolderInv'
  BY <1>1, HolderNone DEF CardInv, Holds
<1>7. AcksInv'
  BY <1>1 DEF CardInv, AcksInv, Covers
<1>8. ReceiptHasBinding'
  <2>0. s # Nil /\ cardFaults \in Nat /\ cardFaults' \in Nat
    BY SMT, <1>2, <1>3, <1>5, CapturedSound
  <2>1. CASE captureCardBinding(p)
    <3>1. file' # Nil
      BY <1>3, <2>0, <2>1 DEF captureCardBinding, Saved
    <3> QED BY <3>1 DEF ReceiptHasBinding
  <2>2. CASE UNCHANGED receipt
    BY SMT, <1>1, <1>5, <2>0, <2>2 DEF CardInv, ReceiptHasBinding
  <2> QED BY <1>1, <2>1, <2>2
<1>9. CardTypeOK' /\ FencesInv' /\ ServingInv'
  BY <1>1, <1>2, <1>4, <1>5, StillBusy, HandlerTypes
<1> QED BY <1>5, <1>6, <1>7, <1>8, <1>9 DEF CardInv

\* A handler that finds or makes its binding, or takes the mutex of the binding,
\* keeps the invariant.
LEMMA BindInv ==
    ASSUME CardInv, NEW t \in Threads,
           (\E p \in Procs, r \in Requests : getCardBinding(t, p, r)) \/ LockBinding(t)
    PROVE  CardInv'
<1>1. UNCHANGED <<process, held, deaths, file, limbo, quarantined, card, patches, acked, receipt,
                  cardFaults>>
  BY DEF getCardBinding, LockBinding, HandlerOnly
<1>2. /\ cache \in [Procs -> Bindings \cup {Nil}] /\ thread \in [Threads -> Handler]
      /\ card \in Cards /\ patches \subseteq Cards /\ acked \subseteq Requests
      /\ receipt \in BOOLEAN /\ cardFaults \in 0..MaxCardFaults
  BY CardTypes DEF CardInv
<1>3. /\ cache' \in [Procs -> Bindings \cup {Nil}] /\ thread' \in [Threads -> Handler]
      /\ \A u \in Threads : \/ thread'[u] = thread[u]
                            \/ /\ thread'[u].at \notin {"patch", "save"}
                               /\ thread'[u].at # "idle" => thread'[u].req \in Requests
      /\ \A u \in Threads : Busy(u)'
  <2>1. CASE \E p \in Procs, r \in Requests : getCardBinding(t, p, r)
    <3>0. PICK p \in Procs, r \in Requests : getCardBinding(t, p, r)
      BY <2>1
    <3>1. PICK b \in Bindings :
            /\ cache' = [cache EXCEPT ![p] = b]
            /\ thread' = [thread EXCEPT ![t] =
                 [Idle EXCEPT !.at = "bound", !.proc = p, !.req = r, !.binding = b]]
      BY <3>0 DEF getCardBinding
    <3>2. PICK h : h = [Idle EXCEPT !.at = "bound", !.proc = p, !.req = r, !.binding = b]
      OBVIOUS
    <3>3. h \in Handler /\ h.at = "bound" /\ h.req = r /\ h.proc = p
      BY <3>2 DEF Idle, Handler
    <3>4. /\ thread' \in [Threads -> Handler] /\ thread'[t] = h
          /\ \A u \in Threads : u # t => thread'[u] = thread[u]
      BY <1>2, <3>1, <3>2, <3>3
    <3>5. cache' \in [Procs -> Bindings \cup {Nil}]
      BY <1>2, <3>1
    <3>6. process[p] = "serving"
      BY <3>0 DEF getCardBinding
    <3>7. ASSUME NEW u \in Threads PROVE Busy(u)'
      BY <1>1, <3>3, <3>4, <3>6 DEF CardInv, ServingInv, Busy
    <3> QED BY <3>3, <3>4, <3>5, <3>7
  <2>2. CASE LockBinding(t)
    <3>1. UNCHANGED cache /\ thread[t].at = "bound" /\ (Step(t, "locked") \/ Reply(t))
      BY <2>2 DEF LockBinding, resolveCardPatcher
    <3>2. thread[t].req \in Requests /\ thread[t].answer \in {"none", "ok", "rejected", "unknown"}
      BY <1>2, <3>1 DEF CardInv, HolderInv, Handler
    <3>3. CASE Step(t, "locked")
      BY ZenonT(30), <1>1, <1>2, <3>1, <3>2, <3>3, StepEffect, StillBusy
    <3>4. CASE Reply(t)
      BY <1>1, <1>2, <3>1, <3>4, ReplyEffect, StillBusy
    <3> QED BY <3>1, <3>3, <3>4
  <2> QED BY <2>1, <2>2
<1>4. ContentsInv' /\ HolderInv' /\ AcksInv' /\ ReceiptHasBinding'
  BY <1>1, <1>3, SameContents, HolderQuiet DEF CardInv, AcksInv, Covers, ReceiptHasBinding
<1>5. CardTypeOK' /\ FencesInv' /\ ServingInv'
  BY <1>1, <1>2, <1>3, <1>4, HandlerTypes
<1> QED BY <1>4, <1>5 DEF CardInv

\* The contents after a write of a handler that had the message lock to itself.
LEMMA AlteredInv ==
    ASSUME CardInv, NEW t \in Threads, NEW s, Saved(s) \/ SaveFails(s),
           SoundState(s), Shown(s), Expects(s), s # Nil, file # Nil,
           UNCHANGED <<process, held, quarantined, receipt, deaths, cache, card, patches>>,
           thread' \in [Threads -> Handler], HolderInv', \A u \in Threads : Busy(u)',
           acked' \subseteq Requests, AcksInv'
    PROVE  CardInv'
<1>1. /\ cache \in [Procs -> Bindings \cup {Nil}]
      /\ card \in Cards /\ patches \subseteq Cards
      /\ receipt \in BOOLEAN /\ cardFaults \in 0..MaxCardFaults
  BY CardTypes DEF CardInv
<1>2. ContentsInv' /\ cardFaults' \in 0..MaxCardFaults /\ file' \in {file, s}
  BY <1>1, WriteContents DEF CardInv
<1>3. ReceiptHasBinding'
  BY <1>2 DEF ReceiptHasBinding
<1>4. CardTypeOK' /\ FencesInv' /\ ServingInv'
  BY <1>1, <1>2, HandlerTypes
<1> QED BY <1>2, <1>3, <1>4 DEF CardInv

\* The decision of a handler, up to the intent, keeps the invariant.
LEMMA DecideInv ==
    ASSUME CardInv, NEW t \in Threads, Decide(t)
    PROVE  CardInv'
<1>0. PICK r : r = thread[t].req
  OBVIOUS
<1>1. /\ UNCHANGED <<process, held, quarantined, receipt, deaths, cache, card, patches>>
      /\ thread[t].at = "locked"
  BY DEF Decide, HandlerOnly
<1>2. /\ cache \in [Procs -> Bindings \cup {Nil}] /\ thread \in [Threads -> Handler]
      /\ card \in Cards /\ patches \subseteq Cards /\ acked \subseteq Requests
      /\ receipt \in BOOLEAN /\ cardFaults \in 0..MaxCardFaults
  BY CardTypes DEF CardInv
<1>3. r \in Requests /\ thread[t].answer \in {"none", "ok", "rejected", "unknown"}
  BY <1>0, <1>1, <1>2 DEF CardInv, HolderInv, Handler
<1>4. ASSUME Reply(t), UNCHANGED <<file, limbo, cardFaults>>, acked' \subseteq Requests, AcksInv'
      PROVE  CardInv'
  <2>1. thread' \in [Threads -> Handler] /\ HolderInv' /\ \A u \in Threads : Busy(u)'
    BY <1>1, <1>2, <1>4, ReplyEffect, HolderQuiet, StillBusy DEF CardInv
  <2>2. ContentsInv' /\ ReceiptHasBinding'
    BY <1>1, <1>4, SameContents DEF CardInv, ReceiptHasBinding
  <2>3. CardTypeOK' /\ FencesInv' /\ ServingInv'
    BY <1>1, <1>2, <1>4, <2>1, <2>2, HandlerTypes
  <2> QED BY <1>4, <2>1, <2>2, <2>3 DEF CardInv
<1>5. UNCHANGED acked => AcksInv'
  BY <1>1 DEF CardInv, AcksInv, Covers
<1>6. ~MessageLocked => \A u \in Threads : ~Holds(u)
  BY DEF MessageLocked, Holds
<1>7. ~MessageLocked /\ Reply(t) =>
        thread' \in [Threads -> Handler] /\ HolderInv' /\ \A u \in Threads : Busy(u)'
  BY <1>1, <1>2, <1>6, ReplyEffect, HolderNone, StillBusy DEF CardInv, Holds
<1>8. SoundState(file) /\ Shown(file) /\ Expects(file)
  BY DEF CardInv, ContentsInv
<1>9. CASE TurnedAway /\ Reply(t) /\ UNCHANGED <<file, limbo, acked, cardFaults>>
  BY <1>2, <1>4, <1>5, <1>9
<1>10. CASE /\ ~MessageLocked /\ file # Nil /\ Ambiguous /\ Reply(t) /\ UNCHANGED acked
            /\ IF file.state = "sending"
               THEN Saved([file EXCEPT !.state = "unknown"])
                    \/ SaveFails([file EXCEPT !.state = "unknown"])
               ELSE UNCHANGED <<file, limbo, cardFaults>>
  <2>1. CASE UNCHANGED <<file, limbo, cardFaults>>
    BY <1>2, <1>4, <1>5, <1>10, <2>1
  <2>2. CASE file.state = "sending"
    <3>1. PICK s : s = [file EXCEPT !.state = "unknown"]
      OBVIOUS
    <3>2. file.pending # Nil
      BY <1>8, <1>10, <2>2 DEF SoundState, ValidCardState
    <3>3. SoundState(s)
      BY <1>8, <1>10, <3>1, <3>2, SoundContents
    <3>4. s.pending = file.pending /\ s.annotations = file.annotations /\ s # Nil
      BY <1>8, <1>10, <3>1, ContentFields
    <3>5. Shown(s) /\ Expects(s)
      BY <1>8, <1>10, <3>2, <3>4, Accounting DEF Shown, Expects
    <3>6. Saved(s) \/ SaveFails(s)
      BY <1>10, <2>2, <3>1
    <3> QED BY <1>1, <1>2, <1>5, <1>7, <1>10, <3>3, <3>4, <3>5, <3>6, AlteredInv
  <2> QED BY <1>10, <2>1, <2>2
<1>11. CASE /\ ~MessageLocked /\ file # Nil /\ ~Ambiguous /\ Applied(r) /\ Reply(t)
            /\ acked' = IF r \in file.applied THEN acked \cup {r} ELSE acked
            /\ UNCHANGED <<file, limbo, cardFaults>>
  <2>1. file.pending = Nil
    BY <1>11 DEF Ambiguous
  <2>2. quarantined = {} => card = file.annotations /\ patches = {}
    BY <1>8, <1>11, <2>1, Accounting, Letters DEF Shown, Expects
  <2>3. quarantined = {} => \A q \in acked' : Covers(card, q)
    BY <1>8, <1>11, <2>2 DEF CardInv, AcksInv, SoundState
  <2>4. AcksInv'
    BY <1>1, <2>2, <2>3 DEF AcksInv, Covers
  <2>5. acked' \subseteq Requests
    BY <1>2, <1>3, <1>11
  <2> QED BY <1>4, <1>11, <2>4, <2>5
<1>12. CASE /\ ~MessageLocked /\ file # Nil /\ ~Ambiguous /\ ~Applied(r) /\ UNCHANGED acked
            /\ r.revision # file.revision + 1 /\ Reply(t) /\ UNCHANGED <<file, limbo, cardFaults>>
  BY <1>2, <1>4, <1>5, <1>12
<1>13. CASE /\ ~MessageLocked /\ file # Nil /\ ~Ambiguous /\ ~Applied(r) /\ UNCHANGED acked
            /\ r.revision = file.revision + 1
            /\ \/ Saved(Intent(r)) /\ Step(t, "patch")
               \/ SaveFails(Intent(r)) /\ Reply(t)
  <2>1. PICK s : s = Intent(r)
    OBVIOUS
  <2>2. file.pending = Nil
    BY <1>13 DEF Ambiguous
  <2>3. Shows(file.annotations)
    BY <1>8, <1>13, <2>2, Accounting DEF Shown, Expects, Shows
  <2>4. s.pending = r /\ s.annotations = file.annotations /\ s # Nil
    BY <1>3, <1>8, <1>13, <2>1, ContentFields
  <2>5. SoundState(s) /\ Shown(s) /\ Expects(s)
    <3>1. SoundState(s)
      BY <1>3, <1>8, <1>13, <2>1, SoundContents
    <3>2. s.annotations \in AccountedBy(s)
      BY <2>4, Accounting
    <3> QED BY <2>3, <2>4, <3>1, <3>2 DEF Shown, Expects, Shows
  <2>6. CASE SaveFails(s) /\ Reply(t)
    BY <1>1, <1>2, <1>5, <1>7, <1>13, <2>4, <2>5, <2>6, AlteredInv
  <2>7. CASE Saved(s) /\ Step(t, "patch")
    <3>1. /\ thread' \in [Threads -> Handler]
          /\ thread'[t].at = "patch" /\ thread'[t].req = r /\ thread'[t].proc = thread[t].proc
          /\ \A u \in Threads : u # t => thread'[u] = thread[u]
      BY <1>0, <1>2, <1>3, <2>7, StepEffect
    <3>2. file' = s /\ limbo' = {s}
      BY <2>7 DEF Saved
    <3>3. HolderInv'
      <4>1. ASSUME NEW u \in Threads
            PROVE  /\ thread'[u].at # "idle" => thread'[u].req \in Requests
                   /\ thread'[u].at # "save"
                   /\ thread'[u].at = "patch" => u = t
        BY <1>3, <1>6, <1>13, <3>1 DEF CardInv, HolderInv, Holds
      <4>2. /\ file' # Nil /\ limbo' = {file'} /\ file'.pending = r
            /\ card' \in {file'.annotations} \cup DeadLetters' /\ patches' \subseteq DeadLetters'
        BY <1>1, <2>3, <2>4, <3>2, Letters DEF Shows
      <4> QED BY <3>1, <4>1, <4>2 DEF HolderInv, Holds, Shows
    <3>4. \A u \in Threads : Busy(u)'
      BY <1>1, <3>1, StillBusy
    <3> QED BY <1>1, <1>2, <1>5, <1>13, <2>4, <2>5, <2>7, <3>1, <3>3, <3>4, AlteredInv
  <2> QED BY <1>13, <2>1, <2>6, <2>7
<1> QED BY <1>0, <1>9, <1>10, <1>11, <1>12, <1>13 DEF Decide

\* The PATCH is sent on a card that is the confirmed one, and its outcome is
\* accounted for by the intent.
LEMMA PatchInv ==
    ASSUME CardInv, NEW t \in Threads, patchInteractiveCard(t)
    PROVE  CardInv'
<1>1. /\ UNCHANGED <<process, held, quarantined, receipt, deaths, cache, file, limbo, acked, cardFaults>>
      /\ thread[t].at = "patch"
  BY DEF patchInteractiveCard, HandlerOnly
<1>2. /\ cache \in [Procs -> Bindings \cup {Nil}] /\ thread \in [Threads -> Handler]
      /\ card \in Cards /\ patches \subseteq Cards /\ acked \subseteq Requests
      /\ receipt \in BOOLEAN /\ cardFaults \in 0..MaxCardFaults
  BY CardTypes DEF CardInv
<1>3. /\ file # Nil /\ limbo = {file} /\ file.pending = thread[t].req
      /\ thread[t].req \in Requests
      /\ Shows(file.annotations)
      /\ \A u \in Threads : Holds(u) => u = t
  BY <1>1 DEF CardInv, HolderInv, Holds
<1>4. SoundState(file) /\ file \in CardState /\ ValidCardState(file)
  BY <1>3 DEF CardInv, ContentsInv, SoundState
<1>5. PICK c : c = Rendered(file.annotations, thread[t].req)
  OBVIOUS
<1>6. thread[t].req.revision = file.revision + 1
  BY <1>3, <1>4, CardConstants DEF ValidCardState
<1>7. /\ c \in Cards
      /\ \A q \in Requests : Covers(file.annotations, q) => Covers(c, q)
  BY <1>3, <1>4, <1>5, <1>6, RenderedCovers
<1>8. PICK answer \in {"ok", "rejected", "unknown"} :
        /\ Answered(t, answer)
        /\ \/ card' = c /\ UNCHANGED patches /\ answer \in {"ok", "unknown"}
           \/ UNCHANGED <<card, patches>> /\ answer = "rejected"
           \/ patches' = patches \cup {c} /\ UNCHANGED card /\ answer = "unknown"
  BY <1>5 DEF patchInteractiveCard
<1>9. /\ thread' \in [Threads -> Handler]
      /\ thread'[t].at = "save" /\ thread'[t].req = thread[t].req /\ thread'[t].answer = answer
      /\ thread'[t].proc = thread[t].proc
      /\ \A u \in Threads : u # t => thread'[u] = thread[u]
  BY <1>2, <1>8, StepEffect
<1>10. ContentsInv'
  <2>1. PICK f : f = file
    OBVIOUS
  <2>2. /\ card' \in AccountedBy(f) \cup DeadLetters'
        /\ patches' \subseteq PendingCards(f) \cup DeadLetters'
    <3>1. AccountedBy(f) = {f.annotations, c} /\ PendingCards(f) = {c}
      BY <1>3, <1>5, <2>1, CardConstants, Accounting
    <3>2. /\ card \in {f.annotations} \cup DeadLetters' /\ patches \subseteq DeadLetters'
      BY <1>1, <1>3, <2>1, Letters DEF Shows
    <3> QED BY <1>8, <3>1, <3>2
  <2>3. limbo' = {f} /\ file' = f
    BY <1>1, <1>3, <2>1
  <2>4. \A s \in limbo' \cup {file'} : SoundState(s)' /\ Shown(s)' /\ Expects(s)'
    BY <1>4, <2>1, <2>2, <2>3 DEF SoundState, Shown, Expects
  <2> QED BY <1>1, <1>3, <2>4 DEF ContentsInv
<1>11. HolderInv'
  <2>1. ASSUME NEW u \in Threads, u # t
        PROVE  ~Holds(u)' /\ (thread'[u].at # "idle" => thread'[u].req \in Requests)
    BY <1>3, <1>9, <2>1 DEF Holds, CardInv, HolderInv
  <2>2. /\ thread'[t].answer = "ok" => Shows(Rendered(file.annotations, thread[t].req))'
        /\ thread'[t].answer = "rejected" => Shows(file.annotations)'
    BY <1>1, <1>3, <1>5, <1>8, <1>9, Letters DEF Shows
  <2>3. /\ file' # Nil /\ limbo' = {file'} /\ file'.pending = thread'[t].req
        /\ thread'[t].req \in Requests
    BY <1>1, <1>3, <1>9
  <2> QED BY <1>9, <2>1, <2>2, <2>3 DEF HolderInv, Holds
<1>12. AcksInv'
  <2>0. quarantined = {} => card = file.annotations /\ patches = {}
    BY <1>3, Letters DEF Shows
  <2>1. quarantined = {} => \A q \in acked : Covers(card', q) /\ \A d \in patches' : Covers(d, q)
    BY <1>2, <1>7, <1>8, <2>0 DEF CardInv, AcksInv
  <2> QED BY <1>1, <2>1 DEF AcksInv, Covers
<1>13. ReceiptHasBinding'
  BY <1>1 DEF CardInv, ReceiptHasBinding
<1>14. CardTypeOK' /\ FencesInv' /\ ServingInv'
  <2>1. card' \in Cards /\ patches' \subseteq Cards
    BY <1>2, <1>7, <1>8
  <2>2. \A u \in Threads : Busy(u)'
    BY <1>1, <1>9, StillBusy
  <2> QED BY <1>1, <1>2, <1>9, <1>10, <2>1, <2>2, HandlerTypes
<1> QED BY <1>10, <1>11, <1>12, <1>13, <1>14 DEF CardInv

\* A PATCH that arrives late shows what the pending intent says, one that is lost
\* shows nothing.
LEMMA LatePatchInv ==
    ASSUME CardInv, PatchArrives \/ PatchIsLost
    PROVE  CardInv'
<1>1. /\ UNCHANGED <<process, held, cache, thread, file, limbo, quarantined, acked, receipt,
                     cardFaults, deaths>>
      /\ \E c \in patches : patches' = patches \ {c} /\ card' \in {card, c}
  BY DEF PatchArrives, PatchIsLost
<1>2. /\ cache \in [Procs -> Bindings \cup {Nil}] /\ thread \in [Threads -> Handler]
      /\ card \in Cards /\ patches \subseteq Cards /\ acked \subseteq Requests
      /\ receipt \in BOOLEAN /\ cardFaults \in 0..MaxCardFaults
  BY CardTypes DEF CardInv
<1>3. PICK c \in patches : patches' = patches \ {c} /\ card' \in {card, c}
  BY <1>1
<1>4. ASSUME NEW s \in limbo \cup {file} PROVE SoundState(s) /\ Shown(s)' /\ Expects(s)'
  <2>1. SoundState(s) /\ Shown(s) /\ Expects(s) /\ PendingCards(s) \subseteq AccountedBy(s)
    BY Accounting DEF CardInv, ContentsInv
  <2> QED BY <1>1, <1>3, <2>1, Letters DEF Shown, Expects
<1>5. ContentsInv'
  BY <1>1, <1>4 DEF CardInv, ContentsInv, SoundState, Shown, Expects
<1>6. HolderInv'
  <2>1. ASSUME NEW x, Shows(x) PROVE Shows(x)'
    BY <1>1, <1>3, <2>1, Letters DEF Shows
  <2> QED BY <1>1, <2>1 DEF CardInv, HolderInv, Holds
<1>7. AcksInv'
  BY <1>1, <1>3 DEF CardInv, AcksInv, Covers
<1>8. ReceiptHasBinding'
  BY <1>1 DEF CardInv, ReceiptHasBinding
<1>9. CardTypeOK' /\ FencesInv' /\ ServingInv'
  BY <1>1, <1>2, <1>3, <1>5, StillBusy, HandlerTypes
<1> QED BY <1>5, <1>6, <1>7, <1>8, <1>9 DEF CardInv

\* The result of a PATCH is saved over the intent; only a saved result is answered.
LEMMA SaveResultInv ==
    ASSUME CardInv, NEW t \in Threads, SaveResult(t)
    PROVE  CardInv'
<1>1. /\ UNCHANGED <<process, held, quarantined, receipt, deaths, cache, card, patches>>
      /\ thread[t].at = "save" /\ Reply(t)
  BY DEF SaveResult, HandlerOnly
<1>2. thread \in [Threads -> Handler] /\ acked \subseteq Requests
  BY CardTypes DEF CardInv
<1>3. /\ file # Nil /\ limbo = {file} /\ file.pending = thread[t].req
      /\ thread[t].req \in Requests
      /\ \A u \in Threads : Holds(u) => u = t
      /\ thread[t].answer = "ok" => Shows(Rendered(file.annotations, thread[t].req))
      /\ thread[t].answer = "rejected" => Shows(file.annotations)
  BY <1>1 DEF CardInv, HolderInv, Holds
<1>4. /\ SoundState(file) /\ Shown(file) /\ Expects(file)
      /\ file \in CardState /\ ValidCardState(file) /\ file.pending # Nil
  BY <1>3, CardConstants DEF CardInv, ContentsInv, SoundState
<1>5. thread[t].req.revision = file.revision + 1
  BY <1>3, <1>4 DEF ValidCardState
<1>6. PICK s : s = PatchResult(t)
  OBVIOUS
<1>7. SoundState(s) /\ Shown(s) /\ Expects(s) /\ s # Nil
  <2>0. s # Nil /\ Shows(s.annotations) => Shown(s) /\ Expects(s)
    BY Accounting DEF Shown, Expects, Shows
  <2>1. CASE thread[t].answer = "ok"
    <3>1. s = Confirmed(thread[t].req)
      BY <1>6, <2>1 DEF PatchResult
    <3>2. SoundState(s)
      BY <1>3, <1>4, <1>5, <3>1, SoundContents
    <3>3. s # Nil /\ s.annotations = Rendered(file.annotations, thread[t].req)
      BY <1>3, <1>4, <1>5, <3>1, ContentFields
    <3> QED BY <1>3, <2>0, <2>1, <3>2, <3>3
  <2>2. CASE thread[t].answer = "rejected"
    <3>1. s = [file EXCEPT !.state = "failed", !.pending = Nil]
      BY <1>6, <2>2 DEF PatchResult
    <3>2. SoundState(s)
      BY <1>3, <1>4, <3>1, SoundContents
    <3>3. s # Nil /\ s.annotations = file.annotations
      BY <1>3, <1>4, <3>1, ContentFields
    <3> QED BY <1>3, <2>0, <2>2, <3>2, <3>3
  <2>3. CASE thread[t].answer \notin {"ok", "rejected"}
    <3>1. s = [file EXCEPT !.state = "unknown"]
      BY <1>6, <2>3 DEF PatchResult
    <3>2. SoundState(s)
      BY <1>3, <1>4, <3>1, SoundContents
    <3>3. s # Nil /\ s.annotations = file.annotations /\ s.pending = file.pending
      BY <1>3, <1>4, <3>1, ContentFields
    <3> QED BY <1>3, <1>4, <3>2, <3>3, Accounting DEF Shown, Expects
  <2> QED BY <2>1, <2>2, <2>3
<1>8. thread' \in [Threads -> Handler] /\ HolderInv' /\ \A u \in Threads : Busy(u)'
  <2>1. /\ thread' \in [Threads -> Handler] /\ thread'[t].at = "idle"
        /\ \A u \in Threads : u # t => thread'[u] = thread[u]
    BY <1>1, <1>2, ReplyEffect
  <2>2. \A u \in Threads : thread'[u].at \notin {"patch", "save"}
    BY <1>3, <2>1 DEF Holds
  <2>3. \A u \in Threads : Busy(u)'
    BY <1>1, <2>1, StillBusy
  <2> QED BY <2>1, <2>2, <2>3, HolderNone DEF CardInv
<1>9. Saved(s) \/ SaveFails(s)
  BY <1>6 DEF SaveResult
<1>10. acked' \subseteq Requests /\ AcksInv'
  <2>1. CASE UNCHANGED acked
    BY <1>1, <1>2, <2>1 DEF CardInv, AcksInv, Covers
  <2>2. CASE thread[t].answer = "ok" /\ acked' = acked \cup {thread[t].req}
    <3>0. quarantined = {} => card = Rendered(file.annotations, thread[t].req) /\ patches = {}
      BY <1>3, <2>2, Letters DEF Shows
    <3>1. quarantined = {} => Covers(card, thread[t].req) /\ patches = {}
      BY <1>3, <1>4, <1>5, <3>0, RenderedCovers
    <3>2. quarantined = {} => \A q \in acked' : Covers(card, q)
      BY <2>2, <3>1 DEF CardInv, AcksInv
    <3>3. AcksInv'
      BY <1>1, <3>1, <3>2 DEF AcksInv, Covers
    <3> QED BY <1>2, <1>3, <2>2, <3>3
  <2> QED BY <2>1, <2>2 DEF SaveResult
<1> QED BY <1>1, <1>3, <1>7, <1>8, <1>9, <1>10, AlteredInv

\* The inductive invariant of leases, handlers, state files and PATCHes.
THEOREM CardInvariant == CardSpec => []CardInv
<1>1. CardInit => CardInv
  <2> SUFFICES ASSUME CardInit PROVE CardInv
    OBVIOUS
  <2>1. /\ process = [p \in Procs |-> "off"] /\ held = [p \in Procs |-> 0]
        /\ cache = [p \in Procs |-> Nil] /\ thread = [t \in Threads |-> Idle]
        /\ file = Nil /\ limbo = {Nil} /\ quarantined = {} /\ card = {} /\ patches = {}
        /\ acked = {} /\ receipt = FALSE /\ cardFaults = 0 /\ deaths = 0
    BY DEF CardInit
  <2>2. Idle \in Handler /\ Idle.at = "idle"
    BY DEF Idle, Handler
  <2>3. \A p \in Procs : held[p] \in 0..Len(LeaseOrder(p))
    BY SMT, <2>1, LeaseOrderLen
  <2>4. CardTypeOK
    <3>1. /\ process \in [Procs -> {"off", "acquiring", "failing", "serving"}]
          /\ cache \in [Procs -> Bindings \cup {Nil}] /\ thread \in [Threads -> Handler]
      BY <2>1, <2>2
    <3>2. \A s \in limbo \cup {file} : s = Nil
      BY <2>1
    <3>3. card \in Cards /\ patches \subseteq Cards
      BY <2>1 DEF Cards
    <3>4. cardFaults \in 0..MaxCardFaults /\ deaths \in 0..MaxCardCrashes
      BY SMT, <2>1, CardConstants
    <3> QED BY <2>1, <2>3, <3>1, <3>2, <3>3, <3>4, CardTypes
  <2>5. ContentsInv /\ HolderInv /\ AcksInv /\ ReceiptHasBinding
    <3>1. Shown(Nil) /\ Expects(Nil)
      BY <2>1, Accounting DEF Shown, Expects
    <3> QED BY <2>1, <2>2, <3>1
            DEF ContentsInv, SoundState, HolderInv, Holds, AcksInv, ReceiptHasBinding
  <2>6. FencesInv
    BY SMT, <2>1 DEF FencesInv, Fences
  <2>7. ServingInv
    BY <2>1, <2>2 DEF ServingInv, Busy
  <2> QED BY <2>4, <2>5, <2>6, <2>7 DEF CardInv
<1>2. CardInv /\ [CardNext]_cardVars => CardInv'
  <2> SUFFICES ASSUME CardInv, [CardNext]_cardVars PROVE CardInv'
    OBVIOUS
  <2>1. CASE UNCHANGED cardVars
    BY <2>1, SameContents, HolderQuiet, FencesFrame
       DEF cardVars, CardInv, CardTypeOK, LeaseOrder, ValidCardState, AcksInv, Covers,
           ReceiptHasBinding, ServingInv, Busy
  <2>2. ASSUME NEW p \in Procs, Starting(p) \/ Die(p) \/ Evict(p) \/ CaptureDurable(p)
        PROVE  CardInv'
    <3>1. Starting(p) => UNCHANGED file \/ (StartService(p) /\ quarantine)
      BY DEF Starting, Launch, FlockDirectory, CloseAll, StartService, ProcessOnly
    <3>2. Evict(p) => UNCHANGED file
      BY DEF Evict, ProcessOnly
    <3> QED BY <2>2, <3>1, <3>2, ProcessInv, QuarantineInv, DieInv, CaptureInv
  <2>3. ASSUME NEW t \in Threads,
               (\E p \in Procs, r \in Requests : getCardBinding(t, p, r)) \/ Handling(t)
        PROVE  CardInv'
    BY <2>3, BindInv, DecideInv, PatchInv, SaveResultInv DEF Handling
  <2>4. CASE PatchArrives \/ PatchIsLost
    BY <2>4, LatePatchInv
  <2> QED BY <2>1, <2>2, <2>3, <2>4 DEF CardNext
<1> QED BY <1>1, <1>2, PTL DEF CardSpec

\* Whatever became of a PATCH, a write, a process or the state file, the card on
\* the platform is one that the state file accounts for, or one of a quarantined
\* file; without a quarantine it has every acknowledged annotation.
THEOREM CardsAreAccounted == CardSpec => []CardIsAccounted
<1>1. CardInv => DisplayedIsKnown
  BY DEF CardInv, ContentsInv, Shown, DisplayedIsKnown
<1>2. CardInv => AckedIsDisplayed
  BY DEF CardInv, AcksInv, Covers, AckedIsDisplayed
<1>3. CardInv => NoBlindReplay
  BY DEF CardInv, HolderInv, Shows, NoBlindReplay
<1>4. CardInv => CardIsAccounted
  BY <1>1, <1>2, <1>3 DEF CardInv, CardIsAccounted
<1> QED BY <1>4, CardInvariant, PTL

\* No two processes ever hold the lock of one directory, serving or starting.
THEOREM DirectoriesHaveOneOwner == CardSpec => []OneOwnerPerDir
<1>1. CardInv => OneOwnerPerDir
  BY DEF CardInv, FencesInv, OneOwnerPerDir
<1> QED BY <1>1, CardInvariant, PTL

\* The card changes only by a PATCH, which replaces one annotation by a later
\* one as long as no state file was quarantined.
LEMMA CardMovesOn ==
    ASSUME CardInv, [CardNext]_cardVars, quarantined = {}, NEW a \in card
    PROVE  \E b \in card' : b.component = a.component /\ b.revision >= a.revision
<1>0. a.revision \in Nat
  BY SMT, CardTypes, CardConstants DEF CardInv, Cards
<1>1. CASE UNCHANGED card
  BY SMT, <1>0, <1>1
<1>2. ASSUME NEW s \in CardState, ValidCardState(s), s.pending # Nil,
             card \in {s.annotations, Rendered(s.annotations, s.pending)},
             card' = Rendered(s.annotations, s.pending)
      PROVE  \E b \in card' : b.component = a.component /\ b.revision >= a.revision
  <2>1. s.pending \in Requests /\ s.pending.revision = s.revision + 1
    BY <1>2 DEF CardState, ValidCardState
  <2>2. \A x \in s.annotations : \E b \in card' :
          b.component = x.component /\ b.revision >= x.revision
    BY <1>2, <2>1, RenderedCovers
  <2> QED BY SMT, <1>0, <1>2, <2>2
<1>3. ASSUME NEW t \in Threads, patchInteractiveCard(t)
      PROVE  \E b \in card' : b.component = a.component /\ b.revision >= a.revision
  <2>1. /\ file # Nil /\ file.pending = thread[t].req /\ thread[t].req \in Requests
        /\ card = file.annotations
        /\ UNCHANGED card \/ card' = Rendered(file.annotations, thread[t].req)
    BY <1>3, Letters DEF patchInteractiveCard, CardInv, HolderInv, Holds, Shows
  <2>2. file \in CardState /\ ValidCardState(file) /\ file.pending # Nil
    BY <2>1, CardConstants DEF CardInv, ContentsInv, SoundState
  <2> QED BY <1>1, <1>2, <2>1, <2>2
<1>4. CASE PatchArrives
  <2>1. PICK c \in patches : card' = c
    BY <1>4 DEF PatchArrives
  <2>2. /\ file # Nil /\ file.pending # Nil /\ c = Rendered(file.annotations, file.pending)
        /\ card \in {file.annotations, c} /\ file \in CardState /\ ValidCardState(file)
    <3>1. SoundState(file) /\ Shown(file) /\ Expects(file)
      BY DEF CardInv, ContentsInv
    <3>2. card \in AccountedBy(file) /\ c \in PendingCards(file)
      BY <2>1, <3>1, Letters DEF Shown, Expects
    <3>3. file # Nil /\ file.pending # Nil
      BY <3>2, Accounting
    <3> QED BY <3>1, <3>2, <3>3, Accounting DEF SoundState
  <2> QED BY <1>2, <2>1, <2>2
<1>5. (\E t \in Threads : patchInteractiveCard(t)) \/ PatchArrives \/ UNCHANGED card
  <2>1. ASSUME NEW p \in Procs, Starting(p) \/ Die(p) \/ Evict(p) \/ CaptureDurable(p)
        PROVE  UNCHANGED card
    BY <2>1 DEF Starting, Launch, FlockDirectory, CloseAll, StartService, Evict, ProcessOnly, Die,
                CaptureDurable
  <2>2. ASSUME NEW t \in Threads, NEW p, NEW r,
               getCardBinding(t, p, r) \/ LockBinding(t) \/ Decide(t) \/ SaveResult(t)
        PROVE  UNCHANGED card
    BY <2>2 DEF getCardBinding, LockBinding, Decide, SaveResult
  <2>3. PatchIsLost \/ UNCHANGED cardVars => UNCHANGED card
    BY DEF PatchIsLost, cardVars
  <2> QED BY <2>1, <2>2, <2>3 DEF CardNext, Handling
<1> QED BY <1>1, <1>3, <1>4, <1>5

\* The card never goes back to an older annotation of a component, whenever its
\* PATCHes arrive, until the state file of the card is quarantined.
THEOREM CardsMoveOn == CardSpec => CardNeverRewinds
<1>1. CardInv /\ [CardNext]_cardVars =>
        [quarantined = {} =>
           \A a \in card : \E b \in card' :
             b.component = a.component /\ b.revision >= a.revision]_cardVars
  BY CardMovesOn
<1> QED BY <1>1, CardInvariant, PTL DEF CardSpec, CardNeverRewinds
-----------------------------------------------------------------------------
(***************************************************************************)
(* ReceiptOutbox.  What the worker has in its hand is pending until it is  *)
(* moved; what is left of the drain is pending; completed, on disk or not, *)
(* is what Jev accepted; a pending entry was tried as often as the retries *)
(* and the interrupted burials allow.                                      *)
(***************************************************************************)
Delivered(r) == r \in jev.receipts /\ (r \in Observed => r \in jev.observations)
Carrying == {"observe", "post", "remove", "judge", "bury", "unlink", "keep"}

WorkerInv ==
    /\ worker.at \in Carrying => worker.has \in Receipts /\ record[worker.has].at = "pending"
    /\ worker.at = "sync" => worker.has \in Receipts /\ record[worker.has].at \in {"completed", "dead"}
    /\ worker.at \in {"off", "scan", "done"} => worker.has = Nil
    /\ worker.todo \subseteq At("pending") \ {worker.has}
    /\ worker.todo # {} => worker.draining

DeliveryInv ==
    /\ worker.at = "post" /\ worker.has \in Observed => worker.has \in jev.observations
    /\ worker.at = "remove" => Delivered(worker.has)
    /\ ObservedBeforeReceipt
    /\ \A r \in Receipts : record[r].at = "completed" \/ disk[r].at = "completed" => Delivered(r)

Burying(r) == worker.at = "unlink" /\ worker.has = r
Interruptions == outboxFaults + outboxCrashes

AttemptsInv ==
    /\ worker.at = "keep" => record[worker.has].attempts + 1 < MaxAttempts
    /\ \A r \in Receipts :
         /\ record[r].attempts <= MaxAttempts + Interruptions
         /\ disk[r].attempts <= MaxAttempts + Interruptions
         /\ record[r].at = "pending" /\ ~Burying(r) =>
              record[r].attempts < MaxAttempts + Interruptions

OutboxInv ==
    OutboxTypeOK /\ WorkerInv /\ DeliveryInv /\ AttemptsInv /\ (~PowerLoss => AckedIsKept)

Entry == [at : Places, attempts : Nat]
Worker == [at : Steps, has : Receipts \cup {Nil}, permanent : BOOLEAN,
           draining : BOOLEAN, todo : SUBSET Receipts]

\* The types without the bound on the attempts, which AttemptsInv gives.
LEMMA OutboxTypes ==
    OutboxTypeOK =>
      /\ record \in [Receipts -> Entry] /\ disk \in [Receipts -> Entry]
      /\ due \subseteq Receipts /\ enqueued \subseteq Receipts
      /\ worker \in Worker /\ stopping \in BOOLEAN
      /\ jev \in [observations : SUBSET Receipts, receipts : SUBSET Receipts]
      /\ outboxFaults \in 0..MaxFaults /\ outboxCrashes \in 0..MaxCrashes
      /\ Interruptions \in Nat /\ MaxAttempts \in Nat \ {0}
  BY SMT, OutboxConstants DEF OutboxTypeOK, Record, Entry, Worker, Interruptions

\* Bounded attempts are within the range of the records.
LEMMA OutboxTypesAfter ==
    ASSUME record' \in [Receipts -> Entry], disk' \in [Receipts -> Entry], AttemptsInv',
           due' \subseteq Receipts, enqueued' \subseteq Receipts, worker' \in Worker,
           stopping' \in BOOLEAN,
           jev' \in [observations : SUBSET Receipts, receipts : SUBSET Receipts],
           outboxFaults' \in 0..MaxFaults, outboxCrashes' \in 0..MaxCrashes
    PROVE  OutboxTypeOK'
<1>1. ASSUME NEW e \in Entry, e.attempts <= MaxAttempts + (outboxFaults' + outboxCrashes')
      PROVE  e \in Record
  <2>1. e.attempts \in Nat /\ e.attempts <= MaxAttempts + MaxFaults + MaxCrashes + 1
    BY SMTT(30), <1>1, OutboxConstants DEF Entry
  <2>2. e.attempts \in 0..(MaxAttempts + MaxFaults + MaxCrashes + 1)
    BY SMT, <2>1, OutboxConstants
  <2> QED BY <2>2 DEF Entry, Record
<1>2. \A r \in Receipts : record'[r] \in Record /\ disk'[r] \in Record
  BY <1>1 DEF AttemptsInv, Interruptions
<1>3. record' \in [Receipts -> Record] /\ disk' \in [Receipts -> Record]
  BY <1>2
<1> QED BY <1>3 DEF OutboxTypeOK, Record, Worker

\* The worker goes on with what it has, gives it up, or has failed to deliver it.
LEMMA WorkerMoves ==
    ASSUME worker \in Worker, NEW step \in Steps, NEW permanent \in BOOLEAN
    PROVE  /\ Goto(step) =>
                /\ worker' \in Worker /\ worker'.at = step /\ worker'.has = worker.has
                /\ worker'.todo = worker.todo /\ worker'.draining = worker.draining
           /\ Rest => /\ worker' \in Worker /\ worker'.at = "scan" /\ worker'.has = Nil
                      /\ worker'.todo = worker.todo /\ worker'.draining = worker.draining
           /\ Failed(permanent) =>
                /\ worker' \in Worker /\ worker'.at = "judge" /\ worker'.has = worker.has
                /\ worker'.todo = worker.todo /\ worker'.draining = worker.draining
  BY ZenonT(30) DEF Goto, Rest, Failed, Worker, Steps

\* A step that changes no entry.
LEMMA QuietOutbox ==
    ASSUME OutboxInv, WorkerInv',
           UNCHANGED <<record, disk, outboxFaults, outboxCrashes>>,
           due' \subseteq Receipts, worker' \in Worker, stopping' \in BOOLEAN,
           jev' \in [observations : SUBSET Receipts, receipts : SUBSET Receipts],
           jev.receipts \subseteq jev'.receipts, jev.observations \subseteq jev'.observations,
           ObservedBeforeReceipt',
           worker'.at = "post" /\ worker'.has \in Observed => worker'.has \in jev'.observations,
           worker'.at = "remove" =>
             /\ worker'.has \in jev'.receipts
             /\ worker'.has \in Observed => worker'.has \in jev'.observations,
           worker'.at = "keep" => record[worker'.has].attempts + 1 < MaxAttempts,
           worker.at = "unlink" => worker'.at = "unlink" /\ worker'.has = worker.has,
           \A r \in enqueued' : r \in enqueued \/ (r \in Receipts /\ record[r].at # "absent")
    PROVE  OutboxInv'
<1>1. OutboxTypeOK
  BY DEF OutboxInv
<1>2. DeliveryInv'
  BY DEF OutboxInv, DeliveryInv, Delivered
<1>3. AttemptsInv'
  BY DEF OutboxInv, AttemptsInv, Burying, Interruptions
<1>4. OutboxTypeOK'
  BY <1>1, <1>3, OutboxTypes, OutboxTypesAfter
<1>5. ~PowerLoss => AckedIsKept'
  BY DEF OutboxInv, AckedIsKept
<1> QED BY <1>2, <1>3, <1>4, <1>5 DEF OutboxInv

\* A step that writes or moves the entry of one receipt.
LEMMA EntryOutbox ==
    ASSUME OutboxInv, WorkerInv', NEW r \in Receipts, UNCHANGED <<jev, outboxCrashes>>,
           record' \in [Receipts -> Entry], disk' \in [Receipts -> Entry],
           \A s \in Receipts : s # r => record'[s] = record[s] /\ disk'[s] = disk[s],
           outboxFaults' \in 0..MaxFaults, outboxFaults' >= outboxFaults,
           due' \subseteq Receipts, worker' \in Worker, stopping' \in BOOLEAN,
           record'[r].at # "absent" \/ UNCHANGED record,
           record'[r].at = "completed" \/ disk'[r].at = "completed" => Delivered(r),
           record'[r].attempts <= MaxAttempts + (outboxFaults' + outboxCrashes),
           disk'[r].attempts <= MaxAttempts + (outboxFaults' + outboxCrashes),
           record'[r].at = "pending" /\ ~Burying(r)' =>
             record'[r].attempts < MaxAttempts + (outboxFaults' + outboxCrashes),
           worker'.at \in {"post", "remove", "keep"} => worker' = worker /\ worker.has # r,
           \A s \in Receipts : s # r /\ Burying(s) => Burying(s)',
           \A s \in enqueued' : s \in enqueued \/ (s = r /\ record'[r].at # "absent")
    PROVE  OutboxInv'
<1>1. OutboxTypeOK
  BY ZenonT(30) DEF OutboxInv
<1>2. /\ outboxFaults \in Nat /\ outboxFaults' \in Nat /\ outboxCrashes \in Nat
      /\ MaxAttempts \in Nat /\ \A s \in Receipts : record[s].attempts \in Nat /\ disk[s].attempts \in Nat
      /\ worker \in Worker /\ enqueued \subseteq Receipts
  BY SMT, <1>1, OutboxTypes DEF Entry
<1>3. worker'.at \in {"post", "remove", "keep"} => record'[worker'.has] = record[worker.has]
  <2>1. worker.at \in {"post", "remove", "keep"} => worker.has \in Receipts
    BY DEF OutboxInv, WorkerInv, Carrying
  <2> QED BY <2>1
<1>4. DeliveryInv'
  BY <1>3 DEF OutboxInv, DeliveryInv, Delivered, ObservedBeforeReceipt
<1>5. AttemptsInv'
  <2>1. worker'.at = "keep" => record'[worker'.has].attempts + 1 < MaxAttempts
    BY <1>3 DEF OutboxInv, AttemptsInv
  <2>2. ASSUME NEW s \in Receipts
        PROVE  /\ record'[s].attempts <= MaxAttempts + (outboxFaults' + outboxCrashes')
               /\ disk'[s].attempts <= MaxAttempts + (outboxFaults' + outboxCrashes')
               /\ record'[s].at = "pending" /\ ~Burying(s)' =>
                    record'[s].attempts < MaxAttempts + (outboxFaults' + outboxCrashes')
    <3>1. CASE s = r
      BY ZenonT(30), <3>1
    <3>2. CASE s # r
      BY SMTT(30), <1>2, <3>2 DEF OutboxInv, AttemptsInv, Interruptions
    <3> QED BY <3>1, <3>2
  <2> QED BY <2>1, <2>2 DEF AttemptsInv, Interruptions, Burying
<1>6. OutboxTypeOK'
  <2>1. enqueued' \subseteq Receipts
    BY <1>2
  <2> QED BY <1>1, <1>5, <2>1, OutboxTypes, OutboxTypesAfter
<1>7. ~PowerLoss => AckedIsKept'
  BY <1>2 DEF OutboxInv, AckedIsKept
<1> QED BY <1>4, <1>5, <1>6, <1>7 DEF OutboxInv
-----------------------------------------------------------------------------
\* Opening, closing and leaving the outbox keep the invariant.
LEMMA ProcessOutbox ==
    ASSUME OutboxInv, newReceiptOutbox \/ Close \/ Exit \/ Crash
    PROVE  OutboxInv'
<1>1. /\ record \in [Receipts -> Entry] /\ disk \in [Receipts -> Entry]
      /\ due \subseteq Receipts /\ enqueued \subseteq Receipts
      /\ worker \in Worker /\ stopping \in BOOLEAN
      /\ jev \in [observations : SUBSET Receipts, receipts : SUBSET Receipts]
      /\ outboxFaults \in 0..MaxFaults /\ outboxCrashes \in 0..MaxCrashes
      /\ Interruptions \in Nat /\ MaxAttempts \in Nat \ {0}
  BY OutboxTypes DEF OutboxInv
<1>2. /\ Stopped \in Worker /\ Stopped.at = "off" /\ Stopped.has = Nil /\ Stopped.todo = {}
      /\ [Stopped EXCEPT !.at = "scan"] \in Worker /\ [Stopped EXCEPT !.at = "scan"].at = "scan"
      /\ [Stopped EXCEPT !.at = "scan"].has = Nil /\ [Stopped EXCEPT !.at = "scan"].todo = {}
  BY DEF Stopped, Worker, Steps
<1>3. CASE newReceiptOutbox
  <2>1. worker.at = "off" /\ worker' = [Stopped EXCEPT !.at = "scan"] /\ due' \subseteq Receipts
        /\ stopping' = FALSE
        /\ UNCHANGED <<record, disk, enqueued, jev, outboxFaults, outboxCrashes>>
    BY <1>3 DEF newReceiptOutbox, At
  <2>2. WorkerInv'
    BY <1>2, <2>1 DEF WorkerInv, Carrying
  <2> QED BY <1>1, <1>2, <2>1, <2>2, QuietOutbox DEF OutboxInv, DeliveryInv, ObservedBeforeReceipt
<1>4. CASE Close
  <2>1. UNCHANGED <<record, disk, due, enqueued, worker, jev, outboxFaults, outboxCrashes>>
        /\ stopping' = TRUE
    BY <1>4 DEF Close
  <2>2. WorkerInv'
    BY <2>1 DEF OutboxInv, WorkerInv, Carrying, At
  <2> QED BY <1>1, <2>1, <2>2, QuietOutbox
          DEF OutboxInv, DeliveryInv, AttemptsInv, Delivered, ObservedBeforeReceipt
<1>5. ASSUME worker' = Stopped, stopping' = FALSE, due' = {}, outboxCrashes < MaxCrashes,
             outboxCrashes' = outboxCrashes + 1, UNCHANGED <<enqueued, jev, outboxFaults>>,
             \A r \in Receipts : /\ record'[r] \in {record[r], disk[r]}
                                 /\ disk'[r] \in {record[r], disk[r]},
             record' \in [Receipts -> Entry], disk' \in [Receipts -> Entry],
             ~PowerLoss => UNCHANGED record
      PROVE  OutboxInv'
  <2>1. WorkerInv'
    BY <1>2, <1>5 DEF WorkerInv, Carrying
  <2>2. DeliveryInv'
    BY ZenonT(30), <1>2, <1>5 DEF OutboxInv, DeliveryInv, Delivered, ObservedBeforeReceipt
  <2>3. AttemptsInv'
    <3>1. worker'.at = "off" /\ outboxFaults' + outboxCrashes' = Interruptions + 1
      BY SMTT(30), <1>1, <1>2, <1>5 DEF Interruptions
    <3>2. ASSUME NEW r \in Receipts
          PROVE  /\ record'[r].attempts < MaxAttempts + (outboxFaults' + outboxCrashes')
                 /\ disk'[r].attempts < MaxAttempts + (outboxFaults' + outboxCrashes')
                 /\ record'[r].attempts \in Nat /\ disk'[r].attempts \in Nat
      <4>1. /\ record[r].attempts \in Nat /\ disk[r].attempts \in Nat
            /\ record[r].attempts <= MaxAttempts + Interruptions
            /\ disk[r].attempts <= MaxAttempts + Interruptions
        BY <1>1 DEF OutboxInv, AttemptsInv, Entry
      <4> QED BY SMTT(30), <1>1, <1>5, <3>1, <4>1
    <3>3. outboxFaults' + outboxCrashes' \in Nat
      BY SMTT(30), <1>1, <3>1
    <3> QED BY SMTT(30), <1>1, <3>1, <3>2, <3>3 DEF AttemptsInv, Interruptions, Burying
  <2>4. outboxCrashes' \in 0..MaxCrashes
    BY SMTT(30), <1>1, <1>5, OutboxConstants
  <2>5. OutboxTypeOK'
    BY <1>1, <1>2, <1>5, <2>3, <2>4, OutboxTypesAfter
  <2>6. ~PowerLoss => AckedIsKept'
    BY <1>5 DEF OutboxInv, AckedIsKept
  <2> QED BY <2>1, <2>2, <2>3, <2>5, <2>6 DEF OutboxInv
<1>6. CASE Exit
  BY <1>1, <1>5, <1>6 DEF Exit
<1>7. CASE Crash
  <2>1. \/ record' = record
        \/ PowerLoss /\ \E lost \in SUBSET Receipts :
             record' = [r \in Receipts |-> IF r \in lost THEN disk[r] ELSE record[r]]
    BY <1>7 DEF Crash
  <2>2. /\ record' \in [Receipts -> Entry]
        /\ \A r \in Receipts : record'[r] \in {record[r], disk[r]}
        /\ ~PowerLoss => UNCHANGED record
    BY <1>1, <2>1
  <2> QED BY <1>5, <1>7, <2>2 DEF Crash
<1> QED BY <1>3, <1>4, <1>6, <1>7

\* Enqueue keeps the invariant: it writes only what no directory has.
LEMMA EnqueueOutbox ==
    ASSUME OutboxInv, NEW r \in Receipts, Enqueue(r)
    PROVE  OutboxInv'
<1>1. /\ record \in [Receipts -> Entry] /\ disk \in [Receipts -> Entry]
      /\ due \subseteq Receipts /\ enqueued \subseteq Receipts
      /\ worker \in Worker /\ stopping \in BOOLEAN
      /\ jev \in [observations : SUBSET Receipts, receipts : SUBSET Receipts]
      /\ outboxFaults \in 0..MaxFaults /\ outboxCrashes \in 0..MaxCrashes
      /\ Interruptions \in Nat /\ MaxAttempts \in Nat \ {0}
  BY OutboxTypes DEF OutboxInv
<1>2. UNCHANGED <<worker, stopping, jev, outboxCrashes>>
  BY DEF Enqueue, EnqueueUnchanged
<1>3. CASE Known(r) /\ enqueued' = enqueued \cup {r} /\ UNCHANGED <<record, disk, due, outboxFaults>>
  <2>1. WorkerInv'
    BY <1>2, <1>3 DEF OutboxInv, WorkerInv, Carrying, At
  <2>2. record[r].at # "absent"
    BY <1>3 DEF Known
  <2> QED BY <1>1, <1>2, <1>3, <2>1, <2>2, QuietOutbox
          DEF OutboxInv, DeliveryInv, AttemptsInv, Delivered, ObservedBeforeReceipt
<1>4. CASE /\ ~Known(r) /\ record[r].at # "dead"
           /\ record' = [record EXCEPT ![r] = [at |-> "pending", attempts |-> 0]]
           /\ due' = due \cup {r}
           /\ \/ disk' = [disk EXCEPT ![r] = record'[r]] /\ enqueued' = enqueued \cup {r} /\ NoFault
              \/ UNCHANGED <<disk, enqueued>> /\ Fault
  <2>0. PICK new : new = [at |-> "pending", attempts |-> 0]
    OBVIOUS
  <2>1. new \in Entry /\ new.at = "pending" /\ new.attempts = 0
    BY <2>0 DEF Entry, Places
  <2>2. /\ record' \in [Receipts -> Entry] /\ record'[r] = new
        /\ \A s \in Receipts : s # r => record'[s] = record[s]
    BY <1>1, <1>4, <2>0, <2>1
  <2>3. /\ disk' \in [Receipts -> Entry] /\ disk'[r] \in {disk[r], new}
        /\ \A s \in Receipts : s # r => disk'[s] = disk[s]
    BY <1>1, <1>4, <2>1, <2>2
  <2>4. record[r].at \notin {"pending", "completed", "dead"}
    BY <1>4 DEF Known
  <2>5. worker.at \in Carrying \cup {"sync"} => worker.has # r
    BY <2>4 DEF OutboxInv, WorkerInv
  <2>6. WorkerInv'
    BY ZenonT(30), <1>2, <2>1, <2>2, <2>5 DEF OutboxInv, WorkerInv, Carrying, At
  <2>7. /\ outboxFaults' \in 0..MaxFaults /\ outboxFaults' >= outboxFaults
        /\ outboxFaults' + outboxCrashes \in Nat /\ outboxFaults' + outboxCrashes >= Interruptions
    BY SMT, <1>1, <1>4, OutboxConstants DEF NoFault, Fault, Interruptions
  <2>8. /\ disk[r].attempts \in Nat /\ disk[r].attempts <= MaxAttempts + Interruptions
        /\ disk[r].at = "completed" => Delivered(r)
    BY <1>1 DEF OutboxInv, AttemptsInv, DeliveryInv, Entry
  <2>9. /\ record'[r].attempts < MaxAttempts + (outboxFaults' + outboxCrashes)
        /\ record'[r].attempts <= MaxAttempts + (outboxFaults' + outboxCrashes)
        /\ disk'[r].attempts <= MaxAttempts + (outboxFaults' + outboxCrashes)
    <3>1. /\ outboxFaults' + outboxCrashes \in Nat /\ record'[r].attempts = 0
          /\ disk'[r].attempts = 0 \/ disk'[r].attempts = disk[r].attempts
      BY ZenonT(30), <2>1, <2>2, <2>3, <2>7
    <3>2. /\ 0 < MaxAttempts + (outboxFaults' + outboxCrashes)
          /\ 0 <= MaxAttempts + (outboxFaults' + outboxCrashes)
      BY SMTT(30), <1>1, <3>1
    <3>3. disk[r].attempts <= MaxAttempts + (outboxFaults' + outboxCrashes)
      <4>1. PICK n, k \in Nat : n = outboxFaults' + outboxCrashes /\ k = disk[r].attempts
        BY <2>7, <2>8
      <4>2. n >= Interruptions /\ k <= MaxAttempts + Interruptions
        BY <2>7, <2>8, <4>1
      <4>3. k <= MaxAttempts + n
        BY SMTT(30), <1>1, <4>1, <4>2
      <4> QED BY <4>1, <4>3
    <3> QED BY <3>1, <3>2, <3>3
  <2>10. record'[r].at = "completed" \/ disk'[r].at = "completed" => Delivered(r)
    BY <2>1, <2>2, <2>3, <2>8
  <2>11. /\ worker'.at \in {"post", "remove", "keep"} => worker' = worker /\ worker.has # r
         /\ \A s \in Receipts : s # r /\ Burying(s) => Burying(s)'
    BY <1>2, <2>5 DEF Carrying, Burying
  <2>12. \A s \in enqueued' : s \in enqueued \/ (s = r /\ record'[r].at # "absent")
    BY <1>4, <2>1, <2>2
  <2>13. due' \subseteq Receipts /\ record'[r].at # "absent"
    BY <1>1, <1>4, <2>1, <2>2
  <2> QED BY <1>1, <1>2, <2>2, <2>3, <2>6, <2>7, <2>9, <2>10, <2>11, <2>12, <2>13, EntryOutbox
<1> QED BY <1>3, <1>4 DEF Enqueue, NoFault

\* The scan and the drain take pending entries only, and keep the invariant.
LEMMA ScanOutbox ==
    ASSUME OutboxInv, StartDrain \/ DrainNext \/ \E r \in Receipts : TakeDue(r) \/ BackoffElapses(r)
    PROVE  OutboxInv'
<1>1. /\ record \in [Receipts -> Entry] /\ disk \in [Receipts -> Entry]
      /\ due \subseteq Receipts /\ enqueued \subseteq Receipts
      /\ worker \in Worker /\ stopping \in BOOLEAN
      /\ jev \in [observations : SUBSET Receipts, receipts : SUBSET Receipts]
      /\ outboxFaults \in 0..MaxFaults /\ outboxCrashes \in 0..MaxCrashes
      /\ Interruptions \in Nat /\ MaxAttempts \in Nat \ {0}
  BY OutboxTypes DEF OutboxInv
<1>2. UNCHANGED <<record, disk, enqueued, stopping, jev, outboxFaults, outboxCrashes>>
      /\ due' \subseteq Receipts
  BY <1>1 DEF StartDrain, DrainNext, TakeDue, BackoffElapses, WorkerOnly
<1>3. CASE \E r \in Receipts : BackoffElapses(r)
  <2>1. UNCHANGED worker
    BY <1>3 DEF BackoffElapses
  <2>2. WorkerInv'
    BY <1>2, <2>1 DEF OutboxInv, WorkerInv, Carrying, At
  <2> QED BY <1>1, <1>2, <2>1, <2>2, QuietOutbox
          DEF OutboxInv, DeliveryInv, AttemptsInv, Delivered, ObservedBeforeReceipt
<1>4. ASSUME worker.at = "scan", worker' \in Worker, worker'.at \in {"scan", "observe", "done"}, WorkerInv'
      PROVE  OutboxInv'
  BY <1>1, <1>2, <1>4, QuietOutbox DEF OutboxInv, DeliveryInv, ObservedBeforeReceipt
<1>5. ASSUME NEW r \in Receipts, worker.at = "scan", record[r].at = "pending",
             NEW todo \in SUBSET (worker.todo \ {r}),
             worker' = [worker EXCEPT !.at = "observe", !.has = r, !.todo = todo]
      PROVE  OutboxInv'
  <2>1. worker' \in Worker /\ worker'.at = "observe" /\ worker'.has = r /\ worker'.todo = todo
    BY <1>1, <1>5 DEF Worker, Steps
  <2>2. WorkerInv'
    BY SMTT(30), <1>2, <1>5, <2>1 DEF OutboxInv, WorkerInv, Carrying, At
  <2> QED BY <1>4, <1>5, <2>1, <2>2
<1>6. ASSUME NEW r \in Receipts, TakeDue(r) PROVE OutboxInv'
  <2>1. /\ worker.at = "scan" /\ ~worker.draining /\ record[r].at = "pending"
        /\ worker' = [worker EXCEPT !.at = "observe", !.has = r] /\ worker.todo = {}
    BY <1>6 DEF TakeDue, OutboxInv, WorkerInv
  <2>2. worker' \in Worker /\ worker'.at = "observe" /\ worker'.has = r /\ worker'.todo = worker.todo
    BY <1>1, <2>1 DEF Worker, Steps
  <2>3. WorkerInv'
    BY <1>2, <2>1, <2>2 DEF OutboxInv, WorkerInv, Carrying, At
  <2> QED BY <1>4, <2>1, <2>2, <2>3
<1>7. CASE StartDrain
  <2>1. /\ worker.at = "scan" /\ worker' = [worker EXCEPT !.draining = TRUE, !.todo = At("pending")]
    BY <1>7 DEF StartDrain
  <2>2. worker' \in Worker /\ worker'.at = "scan" /\ worker'.has = worker.has
        /\ worker'.todo = At("pending")
    BY <1>1, <2>1 DEF Worker, Steps, At
  <2>3. WorkerInv'
    BY SMTT(30), <1>2, <2>1, <2>2, OutboxConstants DEF OutboxInv, WorkerInv, Carrying, At
  <2> QED BY <1>4, <2>1, <2>2, <2>3
<1>8. CASE DrainNext
  <2>1. worker.at = "scan"
    BY <1>8 DEF DrainNext
  <2>2. ASSUME Goto("done") PROVE OutboxInv'
    <3>1. worker' \in Worker /\ worker'.at = "done" /\ worker'.has = worker.has
          /\ worker'.todo = worker.todo /\ worker'.draining = worker.draining
      BY <1>1, <2>2 DEF Goto, Worker, Steps
    <3>2. WorkerInv'
      BY <1>2, <2>1, <3>1 DEF OutboxInv, WorkerInv, Carrying, At
    <3> QED BY <1>4, <2>1, <3>1, <3>2
  <2>3. ASSUME NEW r \in worker.todo,
               worker' = [worker EXCEPT !.at = "observe", !.has = r, !.todo = @ \ {r}]
        PROVE  OutboxInv'
    <3>1. r \in Receipts /\ record[r].at = "pending"
      BY DEF OutboxInv, WorkerInv, At
    <3>2. PICK todo : todo = worker.todo \ {r}
      OBVIOUS
    <3>3. worker' = [worker EXCEPT !.at = "observe", !.has = r, !.todo = todo]
      BY <2>3, <3>2
    <3> QED BY <1>5, <2>1, <3>1, <3>2, <3>3
  <2> QED BY <1>8, <2>2, <2>3 DEF DrainNext
<1> QED BY <1>3, <1>6, <1>7, <1>8

\* A quarantined entry is dead; the invariant stays.
LEMMA QuarantineOutbox ==
    ASSUME OutboxInv, NEW r \in Receipts, Quarantine(r)
    PROVE  OutboxInv'
<1>1. /\ record \in [Receipts -> Entry] /\ disk \in [Receipts -> Entry]
      /\ due \subseteq Receipts /\ enqueued \subseteq Receipts
      /\ worker \in Worker /\ stopping \in BOOLEAN
      /\ outboxFaults \in 0..MaxFaults /\ outboxCrashes \in 0..MaxCrashes
      /\ Interruptions \in Nat /\ MaxAttempts \in Nat \ {0}
  BY OutboxTypes DEF OutboxInv
<1>2. /\ UNCHANGED <<due, jev, enqueued, stopping, outboxCrashes>>
      /\ worker.at = "scan" /\ record[r].at = "pending"
      /\ outboxFaults < MaxFaults /\ outboxFaults' = outboxFaults + 1
      /\ worker' = [worker EXCEPT !.todo = @ \ {r}]
  BY DEF Quarantine, Fault, WorkerOnly
<1>3. /\ \/ record' = [record EXCEPT ![r].at = "dead"] \/ record' = record
      /\ \/ disk' = [disk EXCEPT ![r] = record'[r]] \/ disk' = disk
  BY DEF Quarantine
<1>4. /\ worker' \in Worker /\ worker'.at = "scan" /\ worker'.has = worker.has
      /\ worker'.todo = worker.todo \ {r}
  BY <1>1, <1>2 DEF Worker
<1>5. /\ record' \in [Receipts -> Entry] /\ record'[r].at \in {"dead", "pending"}
      /\ record'[r].attempts = record[r].attempts
      /\ \A s \in Receipts : s # r => record'[s] = record[s]
  BY ZenonT(30), <1>1, <1>2, <1>3 DEF Entry, Places
<1>6. /\ disk' \in [Receipts -> Entry] /\ disk'[r] \in {disk[r], record'[r]}
      /\ \A s \in Receipts : s # r => disk'[s] = disk[s]
  BY <1>1, <1>3, <1>5
<1>7. WorkerInv'
  BY SMT, <1>2, <1>4, <1>5 DEF OutboxInv, WorkerInv, Carrying, At
<1>8. /\ outboxFaults' \in 0..MaxFaults /\ outboxFaults' >= outboxFaults
      /\ outboxFaults' + outboxCrashes = Interruptions + 1
  BY SMTT(30), <1>1, <1>2, OutboxConstants DEF Interruptions
<1>9. /\ disk[r].attempts \in Nat /\ disk[r].attempts <= MaxAttempts + Interruptions
      /\ record[r].attempts \in Nat /\ record[r].attempts <= MaxAttempts + Interruptions
      /\ disk[r].at = "completed" => Delivered(r)
  BY <1>1 DEF OutboxInv, AttemptsInv, DeliveryInv, Entry
<1>10. /\ record'[r].attempts < MaxAttempts + (outboxFaults' + outboxCrashes)
       /\ record'[r].attempts <= MaxAttempts + (outboxFaults' + outboxCrashes)
       /\ disk'[r].attempts <= MaxAttempts + (outboxFaults' + outboxCrashes)
  <2>1. disk'[r].attempts = record[r].attempts \/ disk'[r].attempts = disk[r].attempts
    BY <1>5, <1>6
  <2>2. /\ record[r].attempts < MaxAttempts + (Interruptions + 1)
        /\ record[r].attempts <= MaxAttempts + (Interruptions + 1)
        /\ disk[r].attempts <= MaxAttempts + (Interruptions + 1)
    BY SMTT(30), <1>1, <1>9
  <2> QED BY <1>5, <1>8, <2>1, <2>2
<1>11. record'[r].at = "completed" \/ disk'[r].at = "completed" => Delivered(r)
  BY <1>5, <1>6, <1>9
<1>12. /\ worker'.at \in {"post", "remove", "keep"} => worker' = worker /\ worker.has # r
       /\ \A s \in Receipts : s # r /\ Burying(s) => Burying(s)'
       /\ record'[r].at # "absent"
  BY <1>2, <1>4, <1>5 DEF Burying
<1> QED BY ZenonT(30), <1>1, <1>2, <1>4, <1>5, <1>6, <1>7, <1>8, <1>10, <1>11, <1>12, EntryOutbox

\* The two posts and the decision after them keep the invariant.
LEMMA PostOutbox ==
    ASSUME OutboxInv, PostObservation \/ PostReceipt \/ Judge
    PROVE  OutboxInv'
<1>1. /\ record \in [Receipts -> Entry] /\ disk \in [Receipts -> Entry]
      /\ due \subseteq Receipts /\ enqueued \subseteq Receipts
      /\ worker \in Worker /\ stopping \in BOOLEAN
      /\ jev \in [observations : SUBSET Receipts, receipts : SUBSET Receipts]
      /\ outboxFaults \in 0..MaxFaults /\ outboxCrashes \in 0..MaxCrashes
  BY OutboxTypes DEF OutboxInv
<1>2. UNCHANGED <<record, disk, due, enqueued, stopping, outboxFaults, outboxCrashes>>
  BY DEF PostObservation, PostReceipt, Judge, WorkerOnly
<1>3. /\ worker.at \in {"observe", "post", "judge"}
      /\ worker.has \in Receipts /\ record[worker.has].at = "pending"
      /\ worker.todo \subseteq At("pending") \ {worker.has} /\ (worker.todo # {} => worker.draining)
  BY DEF PostObservation, PostReceipt, Judge, OutboxInv, WorkerInv, Carrying
<1>4. ASSUME worker' \in Worker, worker'.at \in Carrying, worker'.has = worker.has,
             worker'.todo = worker.todo, worker'.draining = worker.draining
      PROVE  WorkerInv'
  BY <1>2, <1>3, <1>4 DEF WorkerInv, Carrying, At
<1>5. "post" \in Steps /\ "remove" \in Steps /\ "bury" \in Steps /\ "keep" \in Steps
  BY DEF Steps
<1>6. CASE PostObservation
  <2>1. \/ Goto("post") \/ Failed(FALSE) \/ Failed(TRUE)
    BY <1>6 DEF PostObservation
  <2>2. /\ worker' \in Worker /\ worker'.at \in {"post", "judge"} /\ worker'.has = worker.has
        /\ worker'.todo = worker.todo /\ worker'.draining = worker.draining
    BY <1>1, <1>5, <2>1, WorkerMoves
  <2>3. /\ jev' \in [observations : SUBSET Receipts, receipts : SUBSET Receipts]
        /\ jev'.receipts = jev.receipts /\ jev.observations \subseteq jev'.observations
    <3>1. jev' = jev \/ jev' = [jev EXCEPT !.observations = @ \cup {worker.has}]
      BY <1>6 DEF PostObservation
    <3>2. CASE jev' = jev
      BY <1>1, <3>2
    <3>3. CASE jev' = [jev EXCEPT !.observations = @ \cup {worker.has}]
      BY <1>1, <1>3, <3>3
    <3> QED BY <3>1, <3>2, <3>3
  <2>4. worker'.at = "post" /\ worker'.has \in Observed => worker'.has \in jev'.observations
    <3>1. CASE worker.has \notin Observed
      BY <2>2, <3>1
    <3>2. CASE jev' = [jev EXCEPT !.observations = @ \cup {worker.has}]
      BY <1>1, <2>2, <3>2
    <3>3. CASE Failed(FALSE) \/ Failed(TRUE)
      <4>1. worker'.at = "judge"
        BY <1>1, <1>5, <3>3, WorkerMoves
      <4> QED BY <4>1
    <3> QED BY <1>6, <3>1, <3>2, <3>3 DEF PostObservation
  <2>5. ObservedBeforeReceipt'
    BY <2>3 DEF OutboxInv, DeliveryInv, ObservedBeforeReceipt
  <2>6. WorkerInv'
    BY <1>4, <2>2 DEF Carrying
  <2> QED BY <1>1, <1>2, <1>3, <2>2, <2>3, <2>4, <2>5, <2>6, QuietOutbox
<1>7. CASE PostReceipt
  <2>0. worker.at = "post" /\ (worker.has \in Observed => worker.has \in jev.observations)
    BY <1>7 DEF PostReceipt, OutboxInv, DeliveryInv
  <2>1. \/ Goto("remove") \/ Failed(FALSE) \/ Failed(TRUE)
    BY <1>7 DEF PostReceipt
  <2>2. /\ worker' \in Worker /\ worker'.at \in {"remove", "judge"} /\ worker'.has = worker.has
        /\ worker'.todo = worker.todo /\ worker'.draining = worker.draining
    BY <1>1, <1>5, <2>1, WorkerMoves
  <2>3. /\ jev' \in [observations : SUBSET Receipts, receipts : SUBSET Receipts]
        /\ jev'.receipts \in {jev.receipts, jev.receipts \cup {worker.has}}
        /\ jev'.observations = jev.observations
    <3>1. jev' = jev \/ jev' = [jev EXCEPT !.receipts = @ \cup {worker.has}]
      BY <1>7 DEF PostReceipt
    <3>2. CASE jev' = jev
      BY <1>1, <3>2
    <3>3. CASE jev' = [jev EXCEPT !.receipts = @ \cup {worker.has}]
      BY <1>1, <1>3, <3>3
    <3> QED BY <3>1, <3>2, <3>3
  <2>4. worker'.at = "remove" => worker'.has \in jev'.receipts
    <3>1. CASE jev' = [jev EXCEPT !.receipts = @ \cup {worker.has}]
      BY <1>1, <2>2, <3>1
    <3>2. CASE Failed(FALSE) \/ Failed(TRUE)
      <4>1. worker'.at = "judge"
        BY <1>1, <1>5, <3>2, WorkerMoves
      <4> QED BY <4>1
    <3> QED BY <1>7, <3>1, <3>2 DEF PostReceipt
  <2>5. ObservedBeforeReceipt'
    BY <2>0, <2>3 DEF OutboxInv, DeliveryInv, ObservedBeforeReceipt
  <2>6. WorkerInv'
    BY <1>4, <2>2 DEF Carrying
  <2> QED BY <1>1, <1>2, <1>3, <2>0, <2>2, <2>3, <2>4, <2>5, <2>6, QuietOutbox
<1>8. CASE Judge
  <2>1. \/ Goto("bury")
        \/ Goto("keep") /\ ~(record[worker.has].attempts + 1 >= MaxAttempts)
    BY <1>8 DEF Judge
  <2>2. /\ worker' \in Worker /\ worker'.at \in {"bury", "keep"} /\ worker'.has = worker.has
        /\ worker'.todo = worker.todo /\ worker'.draining = worker.draining
        /\ worker'.at = "keep" => ~(record[worker.has].attempts + 1 >= MaxAttempts)
    BY ZenonT(30), <1>1, <1>5, <2>1, WorkerMoves
  <2>3. worker'.at = "keep" => record[worker'.has].attempts + 1 < MaxAttempts
    BY SMTT(30), <1>1, <1>3, <2>2, OutboxConstants DEF Entry
  <2>4. UNCHANGED jev
    BY <1>8 DEF Judge
  <2>5. WorkerInv'
    BY ZenonT(30), <1>4, <2>2 DEF Carrying
  <2> QED BY <1>1, <1>2, <1>3, <2>2, <2>3, <2>4, <2>5, QuietOutbox
          DEF OutboxInv, DeliveryInv, ObservedBeforeReceipt
<1> QED BY <1>6, <1>7, <1>8

\* The entry in the worker's hand is moved, rewritten or left, and the worker
\* goes on or rests: the invariant stays.
LEMMA HandledOutbox ==
    ASSUME OutboxInv, NEW r \in Receipts, worker.has = r,
           worker.at \in {"remove", "keep", "bury", "unlink", "sync"},
           UNCHANGED <<jev, enqueued, stopping, outboxCrashes>>, due' \subseteq Receipts,
           Goto("sync") \/ Goto("unlink") \/ Rest,
           NEW new \in Entry, record' = [record EXCEPT ![r] = new],
           disk' = disk \/ disk' = [disk EXCEPT ![r] = new],
           Goto("sync") => new.at \in {"completed", "dead"},
           Goto("unlink") => new.at = "pending",
           new.at # "absent", new.at = "completed" => Delivered(r),
           NoFault \/ Fault,
           new.attempts <= MaxAttempts + (outboxFaults' + outboxCrashes),
           new.at = "pending" =>
             Goto("unlink") \/ new.attempts < MaxAttempts + (outboxFaults' + outboxCrashes)
    PROVE  OutboxInv'
<1>1. /\ record \in [Receipts -> Entry] /\ disk \in [Receipts -> Entry]
      /\ due \subseteq Receipts /\ enqueued \subseteq Receipts
      /\ worker \in Worker /\ stopping \in BOOLEAN
      /\ outboxFaults \in 0..MaxFaults /\ outboxCrashes \in 0..MaxCrashes
      /\ Interruptions \in Nat /\ MaxAttempts \in Nat \ {0}
  BY OutboxTypes DEF OutboxInv
<1>2. /\ record' \in [Receipts -> Entry] /\ record'[r] = new
      /\ \A s \in Receipts : s # r => record'[s] = record[s]
  BY <1>1
<1>3. /\ disk' \in [Receipts -> Entry] /\ disk'[r] \in {disk[r], new}
      /\ \A s \in Receipts : s # r => disk'[s] = disk[s]
  BY SMT, <1>1
<1>4. /\ worker' \in Worker /\ worker'.todo = worker.todo /\ worker'.draining = worker.draining
      /\ \/ worker'.at = "sync" /\ worker'.has = r /\ new.at \in {"completed", "dead"}
         \/ worker'.at = "unlink" /\ worker'.has = r /\ new.at = "pending"
         \/ worker'.at = "scan" /\ worker'.has = Nil
  <2>1. "sync" \in Steps /\ "unlink" \in Steps
    BY DEF Steps
  <2> QED BY <1>1, <2>1, WorkerMoves
<1>5. worker.todo \subseteq At("pending") \ {r} /\ (worker.todo # {} => worker.draining)
  BY DEF OutboxInv, WorkerInv
<1>6. worker.todo \subseteq At("pending")' \ {r, Nil}
  BY SMTT(30), <1>2, <1>5, OutboxConstants DEF At
<1>7. WorkerInv'
  <2>1. worker'.todo \subseteq At("pending")' \ {worker'.has} /\ (worker'.todo # {} => worker'.draining)
    BY <1>4, <1>5, <1>6
  <2>2. CASE worker'.at = "sync" /\ worker'.has = r /\ new.at \in {"completed", "dead"}
    BY <1>2, <2>1, <2>2 DEF WorkerInv, Carrying
  <2>3. CASE worker'.at = "unlink" /\ worker'.has = r /\ new.at = "pending"
    BY <1>2, <2>1, <2>3 DEF WorkerInv, Carrying
  <2>4. CASE worker'.at = "scan" /\ worker'.has = Nil
    BY <2>1, <2>4 DEF WorkerInv, Carrying
  <2> QED BY <1>4, <2>2, <2>3, <2>4
<1>8. /\ outboxFaults' \in 0..MaxFaults /\ outboxFaults' >= outboxFaults
      /\ outboxFaults' + outboxCrashes \in Nat /\ outboxFaults' + outboxCrashes >= Interruptions
  BY SMTT(30), <1>1, OutboxConstants DEF NoFault, Fault, Interruptions
<1>9. disk[r].attempts \in Nat /\ disk[r].attempts <= MaxAttempts + Interruptions
      /\ (disk[r].at = "completed" => Delivered(r))
  BY <1>1 DEF OutboxInv, AttemptsInv, DeliveryInv, Entry
<1>10. disk'[r].attempts <= MaxAttempts + (outboxFaults' + outboxCrashes)
  <2>1. PICK n, k \in Nat : n = outboxFaults' + outboxCrashes /\ k = disk[r].attempts
    BY <1>8, <1>9
  <2>2. n >= Interruptions /\ k <= MaxAttempts + Interruptions
    BY <1>8, <1>9, <2>1
  <2>3. k <= MaxAttempts + n
    BY SMTT(30), <1>1, <2>1, <2>2
  <2> QED BY <1>3, <2>1, <2>3
<1>11. record'[r].at = "completed" \/ disk'[r].at = "completed" => Delivered(r)
  BY <1>2, <1>3, <1>9
<1>12. /\ worker'.at \notin {"post", "remove", "keep"}
       /\ \A s \in Receipts : s # r /\ Burying(s) => Burying(s)'
       /\ Goto("unlink") => Burying(r)'
  <2>1. Goto("unlink") => worker'.at = "unlink" /\ worker'.has = r
    BY <1>1, WorkerMoves DEF Steps
  <2> QED BY <1>4, <2>1 DEF Burying
<1>13. record'[r].at = "pending" /\ ~Burying(r)' =>
         record'[r].attempts < MaxAttempts + (outboxFaults' + outboxCrashes)
  BY <1>2, <1>12
<1> QED BY SMTT(30), <1>1, <1>2, <1>3, <1>4, <1>7, <1>8, <1>10, <1>11, <1>12, <1>13, EntryOutbox

\* The worker moves, rewrites, buries and syncs the entry in its hand.
LEMMA HandleOutbox ==
    ASSUME OutboxInv, RemovePending \/ KeepPending \/ Bury \/ Unlink \/ SyncDirectories
    PROVE  OutboxInv'
<1>1. /\ record \in [Receipts -> Entry] /\ disk \in [Receipts -> Entry]
      /\ due \subseteq Receipts /\ worker \in Worker
      /\ outboxFaults \in 0..MaxFaults /\ outboxCrashes \in 0..MaxCrashes
      /\ Interruptions \in Nat /\ MaxAttempts \in Nat \ {0}
  BY OutboxTypes DEF OutboxInv
<1>2. PICK r \in Receipts : /\ worker.has = r
                            /\ worker.at \in {"remove", "keep", "bury", "unlink", "sync"}
                            /\ record[r].at \in {"pending", "completed", "dead"}
                            /\ worker.at # "sync" => record[r].at = "pending"
  BY DEF RemovePending, KeepPending, Bury, Unlink, SyncDirectories, OutboxInv, WorkerInv, Carrying
<1>3. PICK a \in Nat, at \in Places :
        /\ record[r] = [at |-> at, attempts |-> a] /\ at = record[r].at /\ a = record[r].attempts
        /\ at \in {"pending", "completed", "dead"}
  BY <1>1, <1>2 DEF Entry
<1>4. /\ a <= MaxAttempts + Interruptions
      /\ worker.at = "keep" => a + 1 < MaxAttempts
      /\ worker.at # "unlink" /\ at = "pending" => a < MaxAttempts + Interruptions
      /\ at = "completed" => Delivered(r)
      /\ worker.at = "remove" => Delivered(r)
  BY <1>2, <1>3 DEF OutboxInv, AttemptsInv, DeliveryInv, Burying
<1>5. /\ UNCHANGED <<jev, enqueued, stopping, outboxCrashes>> /\ due' \subseteq Receipts
      /\ Goto("sync") \/ Goto("unlink") \/ Rest
      /\ NoFault \/ Fault
  BY <1>1 DEF RemovePending, KeepPending, Bury, Unlink, SyncDirectories, WorkerOnly, NoFault
<1>6. PICK n \in Nat : /\ n = outboxFaults' + outboxCrashes /\ n >= Interruptions
                       /\ Fault => n = Interruptions + 1
  BY SMTT(30), <1>1, <1>5, OutboxConstants DEF NoFault, Fault, Interruptions
<1>7. /\ a <= MaxAttempts + n
      /\ Fault => a < MaxAttempts + n /\ (worker.at = "bury" /\ at = "pending" => a + 1 < MaxAttempts + n)
      /\ worker.at = "keep" => a + 1 < MaxAttempts + n
      /\ worker.at = "bury" /\ at = "pending" => a + 1 <= MaxAttempts + n
  BY SMTT(30), <1>1, <1>4, <1>6
<1>8. /\ \A place \in Places : /\ [at |-> place, attempts |-> a] \in Entry
                               /\ Moved(r, place) = [record EXCEPT ![r] = [at |-> place, attempts |-> a]]
      /\ [at |-> at, attempts |-> a + 1] \in Entry
      /\ Attempted = [record EXCEPT ![r] = [at |-> at, attempts |-> a + 1]]
      /\ record = [record EXCEPT ![r] = record[r]] /\ record[r] \in Entry
  <2>1. /\ record = [record EXCEPT ![r] = record[r]] /\ record[r] \in Entry
        /\ [at |-> at, attempts |-> a + 1] \in Entry
    BY SMT, <1>1, <1>3 DEF Entry
  <2>2. Attempted = [record EXCEPT ![r] = [at |-> at, attempts |-> a + 1]]
    <3>1. [record[r] EXCEPT !.attempts = record[r].attempts + 1] = [at |-> at, attempts |-> a + 1]
      BY SMT, <1>3
    <3>2. Attempted = [record EXCEPT ![r] = [record[r] EXCEPT !.attempts = record[r].attempts + 1]]
      BY <1>2 DEF Attempted
    <3> QED BY <3>1, <3>2
  <2>3. ASSUME NEW place \in Places
        PROVE  /\ [at |-> place, attempts |-> a] \in Entry
               /\ Moved(r, place) = [record EXCEPT ![r] = [at |-> place, attempts |-> a]]
    <3>1. [record[r] EXCEPT !.at = place] = [at |-> place, attempts |-> a]
      BY SMT, <1>3
    <3> QED BY <3>1 DEF Moved, Entry
  <2> QED BY <2>1, <2>2, <2>3
<1>9. "completed" \in Places /\ "dead" \in Places
  BY DEF Places
<1>10. Goto("sync") => ~Rest /\ ~Goto("unlink")
  <2>1. Goto("sync") => worker'.at = "sync"
    BY <1>1, WorkerMoves DEF Steps
  <2>2. Rest => worker'.at = "scan"
    BY <1>1, WorkerMoves DEF Steps
  <2>3. Goto("unlink") => worker'.at = "unlink"
    BY <1>1, WorkerMoves DEF Steps
  <2> QED BY <2>1, <2>2, <2>3
<1>11. Goto("unlink") => ~Rest
  <2>2. Rest => worker'.at = "scan"
    BY <1>1, WorkerMoves DEF Steps
  <2>3. Goto("unlink") => worker'.at = "unlink"
    BY <1>1, WorkerMoves DEF Steps
  <2> QED BY <2>2, <2>3
<1>12. ASSUME NEW new \in Entry, record' = [record EXCEPT ![r] = new],
              disk' = disk \/ disk' = [disk EXCEPT ![r] = new],
              Goto("sync") => new.at \in {"completed", "dead"},
              Goto("unlink") => new.at = "pending",
              new.at # "absent", new.at = "completed" => Delivered(r),
              new.attempts <= MaxAttempts + n,
              new.at = "pending" => Goto("unlink") \/ new.attempts < MaxAttempts + n
       PROVE  OutboxInv'
  BY <1>2, <1>5, <1>6, <1>12, HandledOutbox
<1>13. CASE RemovePending
  <2>1. worker.at = "remove" /\ at = "pending" /\ UNCHANGED disk
    BY <1>2, <1>3, <1>13 DEF RemovePending
  <2>2. CASE record' = Moved(r, "completed") /\ Goto("sync")
    BY <1>4, <1>7, <1>8, <1>9, <1>10, <1>12, <2>1, <2>2
  <2>3. CASE Fault /\ Rest /\ UNCHANGED record
    BY <1>3, <1>4, <1>7, <1>8, <1>10, <1>11, <1>12, <2>1, <2>3
  <2> QED BY <1>2, <1>13, <2>2, <2>3 DEF RemovePending
<1>14. CASE KeepPending
  <2>1. worker.at = "keep" /\ at = "pending" /\ Rest
    BY <1>2, <1>3, <1>14 DEF KeepPending
  <2>2. CASE record' = Attempted /\ (disk' = disk \/ disk' = [disk EXCEPT ![r] = record'[r]])
    <3>1. record'[r] = [at |-> at, attempts |-> a + 1]
      BY <1>1, <1>8, <2>2
    <3>2. a + 1 <= MaxAttempts + n
      BY SMT, <1>1, <1>7, <2>1
    <3> QED BY <1>7, <1>8, <1>10, <1>11, <1>12, <2>1, <2>2, <3>1, <3>2
  <2>3. CASE Fault /\ UNCHANGED <<record, disk>>
    BY <1>3, <1>4, <1>7, <1>8, <1>10, <1>11, <1>12, <2>1, <2>3
  <2> QED BY <1>2, <1>14, <2>2, <2>3 DEF KeepPending
<1>15. CASE Bury
  <2>1. worker.at = "bury" /\ at = "pending"
    BY <1>2, <1>3, <1>15 DEF Bury
  <2>2. CASE record' = Attempted /\ disk' = [disk EXCEPT ![r] = record'[r]] /\ Goto("unlink")
    <3>1. record'[r] = [at |-> at, attempts |-> a + 1]
      BY <1>1, <1>8, <2>2
    <3> QED BY <1>7, <1>8, <1>10, <1>11, <1>12, <2>1, <2>2, <3>1
  <2>3. CASE Fault /\ Rest /\ UNCHANGED disk /\ record' = Attempted
    BY <1>7, <1>8, <1>10, <1>11, <1>12, <2>1, <2>3
  <2>4. CASE Fault /\ Rest /\ UNCHANGED disk /\ record' = record
    BY <1>3, <1>4, <1>7, <1>8, <1>10, <1>11, <1>12, <2>1, <2>4
  <2> QED BY <1>2, <1>15, <2>2, <2>3, <2>4 DEF Bury
<1>16. CASE Unlink
  <2>1. worker.at = "unlink" /\ at = "pending" /\ UNCHANGED disk
    BY <1>2, <1>3, <1>16 DEF Unlink
  <2>2. CASE record' = Moved(r, "dead") /\ Goto("sync")
    BY ZenonT(30), <1>4, <1>7, <1>8, <1>9, <1>10, <1>12, <2>1, <2>2
  <2>3. CASE Fault /\ Rest /\ UNCHANGED record
    BY <1>3, <1>4, <1>7, <1>8, <1>10, <1>11, <1>12, <2>1, <2>3
  <2> QED BY <1>2, <1>16, <2>2, <2>3 DEF Unlink
<1>17. CASE SyncDirectories
  <2>1. /\ worker.at = "sync" /\ Rest /\ UNCHANGED record /\ at \in {"completed", "dead"}
        /\ disk' = disk \/ disk' = [disk EXCEPT ![r] = record[r]]
    BY <1>2, <1>3, <1>17 DEF SyncDirectories, OutboxInv, WorkerInv
  <2> QED BY <1>3, <1>4, <1>7, <1>8, <1>10, <1>11, <1>12, <2>1
<1> QED BY <1>13, <1>14, <1>15, <1>16, <1>17

\* A process that has not been started satisfies it.
LEMMA OutboxStart == OutboxInit => OutboxInv
<1> SUFFICES ASSUME OutboxInit PROVE OutboxInv
  OBVIOUS
<1>1. /\ Absent \in Record /\ Absent.at = "absent" /\ Absent.attempts = 0
      /\ Stopped.at = "off" /\ Stopped.has = Nil /\ Stopped.todo = {}
  BY SMT, OutboxConstants DEF Absent, Record, Places, Stopped
<1>2. /\ record \in [Receipts -> Record] /\ disk = record
      /\ \A r \in Receipts : record[r] = Absent
  BY <1>1 DEF OutboxInit
<1>3. OutboxTypeOK
  <2>1. worker \in Worker
    BY DEF OutboxInit, Stopped, Worker, Steps
  <2>2. outboxFaults \in 0..MaxFaults /\ outboxCrashes \in 0..MaxCrashes
    BY SMT, OutboxConstants DEF OutboxInit
  <2> QED BY <1>2, <2>1, <2>2 DEF OutboxInit, OutboxTypeOK, Worker
<1>4. WorkerInv
  BY <1>1 DEF OutboxInit, WorkerInv, Carrying
<1>5. DeliveryInv
  BY ZenonT(30), <1>1, <1>2 DEF OutboxInit, DeliveryInv, ObservedBeforeReceipt
<1>6. AttemptsInv
  BY SMTT(30), <1>1, <1>2, OutboxConstants DEF OutboxInit, AttemptsInv, Interruptions
<1> QED BY <1>3, <1>4, <1>5, <1>6 DEF OutboxInv, OutboxInit, AckedIsKept

\* Every step keeps it.
LEMMA OutboxStep == OutboxInv /\ [OutboxNext]_outboxVars => OutboxInv'
<1> SUFFICES ASSUME OutboxInv, [OutboxNext]_outboxVars PROVE OutboxInv'
  OBVIOUS
<1>1. CASE newReceiptOutbox \/ Crash \/ Close \/ Exit
  BY <1>1, ProcessOutbox
<1>2. CASE \E r \in Receipts : Enqueue(r) \/ Quarantine(r)
  BY <1>2, EnqueueOutbox, QuarantineOutbox
<1>3. CASE StartDrain \/ DrainNext \/ \E r \in Receipts : TakeDue(r) \/ BackoffElapses(r)
  BY <1>3, ScanOutbox
<1>4. CASE PostObservation \/ PostReceipt \/ Judge
  BY <1>4, PostOutbox
<1>5. CASE RemovePending \/ KeepPending \/ Bury \/ Unlink \/ SyncDirectories
  BY <1>5, HandleOutbox
<1>6. CASE UNCHANGED outboxVars
  <2>1. UNCHANGED <<record, disk, due, enqueued, worker, stopping, jev, outboxFaults, outboxCrashes>>
    BY <1>6 DEF outboxVars
  <2>2. OutboxTypeOK'
    BY <2>1 DEF OutboxInv, OutboxTypeOK
  <2>3. WorkerInv'
    BY <2>1 DEF OutboxInv, WorkerInv, At
  <2>4. DeliveryInv'
    BY <2>1 DEF OutboxInv, DeliveryInv, Delivered, ObservedBeforeReceipt
  <2>5. AttemptsInv'
    BY <2>1 DEF OutboxInv, AttemptsInv, Burying, Interruptions
  <2> QED BY <2>1, <2>2, <2>3, <2>4, <2>5 DEF OutboxInv, AckedIsKept
<1> QED BY <1>1, <1>2, <1>3, <1>4, <1>5, <1>6 DEF OutboxNext, Working, Delivering

\* The directories, the worker and Jev agree in every reachable state.
THEOREM OutboxInvariant == OutboxSpec => []OutboxInv
  BY OutboxStart, OutboxStep, PTL DEF OutboxSpec

\* While the machine keeps its power, an acknowledged receipt stays in a directory
\* and the directories say what Jev accepted, through any number of failed writes,
\* renames, crashes, restarts and drains.
THEOREM AcknowledgedReceiptsAreKept == ~PowerLoss => (OutboxSpec => []ReceiptsAreKept)
<1> SUFFICES ASSUME ~PowerLoss PROVE OutboxSpec => []ReceiptsAreKept
  OBVIOUS
<1>1. OutboxInv => ReceiptsAreKept
  <2> SUFFICES ASSUME OutboxInv PROVE ReceiptsAreKept
    OBVIOUS
  <2>1. OutboxTypeOK /\ AckedIsKept /\ ObservedBeforeReceipt
    BY DEF OutboxInv, DeliveryInv
  <2>2. CompletedWasAccepted
    BY DEF OutboxInv, DeliveryInv, Delivered, CompletedWasAccepted, At
  <2>3. AttemptsBounded
    <3>1. /\ outboxFaults \in Nat /\ outboxCrashes \in Nat /\ MaxAttempts \in Nat
          /\ \A r \in Receipts : record[r].attempts \in Nat
      BY SMTT(30), <2>1, OutboxTypes, OutboxConstants DEF Entry
    <3> QED BY SMTT(30), <3>1 DEF OutboxInv, AttemptsInv, Burying, Interruptions, AttemptsBounded
  <2> QED BY <2>1, <2>2, <2>3 DEF ReceiptsAreKept
<1> QED BY <1>1, OutboxInvariant, PTL

\* Whatever is lost with the power, completed is only what Jev accepted, Jev holds
\* no receipt without its observation, and no entry is tried for ever.
THEOREM CompletionsAreTrue ==
    OutboxSpec => [](CompletedWasAccepted /\ ObservedBeforeReceipt /\ AttemptsBounded)
<1>1. OutboxInv => CompletedWasAccepted /\ ObservedBeforeReceipt
  BY DEF OutboxInv, DeliveryInv, Delivered, CompletedWasAccepted, At
<1>2. OutboxInv => AttemptsBounded
  <2> SUFFICES ASSUME OutboxInv PROVE AttemptsBounded
    OBVIOUS
  <2>1. /\ outboxFaults \in Nat /\ outboxCrashes \in Nat /\ MaxAttempts \in Nat
        /\ \A r \in Receipts : record[r].attempts \in Nat
    BY SMTT(30), OutboxTypes, OutboxConstants DEF Entry, OutboxInv
  <2> QED BY SMT, <2>1 DEF OutboxInv, AttemptsInv, Burying, Interruptions, AttemptsBounded
<1> QED BY <1>1, <1>2, OutboxInvariant, PTL

\* A completed or dead entry is not moved and not taken up again.
LEMMA TerminalStays ==
    ASSUME OutboxInv, ~PowerLoss, OutboxNext, NEW r \in Receipts,
           record[r].at \in {"completed", "dead"}
    PROVE  record'[r].at = record[r].at /\ (worker'.has = r => worker.has = r)
<1>1. /\ record \in [Receipts -> Entry] /\ worker \in Worker
  BY OutboxTypes DEF OutboxInv
<1>2. r # Nil /\ r \notin worker.todo
  BY OutboxConstants DEF OutboxInv, WorkerInv, At
<1>3. worker.at \in Carrying => worker.has \in Receipts /\ worker.has # r
  BY DEF OutboxInv, WorkerInv
<1>4. ASSUME NEW s \in Receipts, s # r, NEW new, record' = [record EXCEPT ![s] = new]
      PROVE  record'[r].at = record[r].at
  BY <1>1, <1>4
<1>5. CASE newReceiptOutbox \/ Crash \/ Close \/ Exit
  BY SMTT(30), <1>1, <1>2, <1>5 DEF newReceiptOutbox, Crash, Close, Exit, Stopped, Worker
<1>6. ASSUME NEW s \in Receipts, Enqueue(s) PROVE record'[r].at = record[r].at /\ UNCHANGED worker
  BY <1>1, <1>6 DEF Enqueue, EnqueueUnchanged, Known
<1>7. ASSUME NEW s \in Receipts, Quarantine(s) PROVE record'[r].at = record[r].at /\ worker'.has = worker.has
  BY <1>1, <1>7 DEF Quarantine, Worker, Entry
<1>8. CASE StartDrain \/ DrainNext \/ \E s \in Receipts : TakeDue(s) \/ BackoffElapses(s)
  <2>1. UNCHANGED record
    BY <1>8 DEF StartDrain, DrainNext, TakeDue, BackoffElapses
  <2>2. CASE StartDrain
    <3>1. worker'.has = worker.has
      BY SMTT(30), <1>1, <2>2 DEF StartDrain, Worker
    <3> QED BY <2>1, <3>1
  <2>3. CASE DrainNext
    <3>1. CASE Goto("done")
      <4>1. worker'.has = worker.has
        BY SMT, <1>1, <3>1 DEF Goto, Worker
      <4> QED BY <2>1, <4>1
    <3>2. ASSUME NEW s \in worker.todo, worker' = [worker EXCEPT !.at = "observe", !.has = s, !.todo = @ \ {s}]
          PROVE  worker'.has = s
      BY SMTT(30), <1>1, <3>2 DEF Worker
    <3> QED BY <1>2, <2>1, <2>3, <3>1, <3>2 DEF DrainNext
  <2>4. ASSUME NEW s \in Receipts, TakeDue(s) PROVE worker'.has = r => worker.has = r
    BY SMTT(30), <1>1, <1>2, <2>4 DEF TakeDue, Worker
  <2>5. ASSUME NEW s \in Receipts, BackoffElapses(s) PROVE UNCHANGED worker
    BY <2>5 DEF BackoffElapses
  <2> QED BY <1>8, <2>1, <2>2, <2>3, <2>4, <2>5
<1>9. CASE Delivering
  <2>1. worker'.has \in {worker.has, Nil}
    BY <1>1, <1>9 DEF Delivering, PostObservation, PostReceipt, RemovePending, Judge, KeepPending, Bury,
                      Unlink, SyncDirectories, Goto, Failed, Rest, Worker
  <2>2. CASE worker.at = "sync"
    <3>1. UNCHANGED record
      BY <1>9, <2>2 DEF Delivering, PostObservation, PostReceipt, RemovePending, Judge, KeepPending, Bury,
                        Unlink, SyncDirectories
    <3> QED BY <1>2, <2>1, <3>1
  <2>3. CASE worker.at \in Carrying
    <3>1. \/ UNCHANGED record \/ record' = Attempted
          \/ record' = Moved(worker.has, "completed") \/ record' = Moved(worker.has, "dead")
      BY <1>9, <2>3 DEF Delivering, PostObservation, PostReceipt, RemovePending, Judge, KeepPending, Bury,
                        Unlink, SyncDirectories
    <3> QED BY <1>2, <1>3, <1>4, <2>1, <2>3, <3>1 DEF Attempted, Moved
  <2> QED BY <1>9, <2>2, <2>3 DEF Delivering, PostObservation, PostReceipt, RemovePending, Judge,
             KeepPending, Bury, Unlink, SyncDirectories, Carrying
<1> QED BY <1>5, <1>6, <1>7, <1>8, <1>9 DEF OutboxNext, Working

\* While the machine keeps its power, a receipt that is completed or dead is not
\* sent again, whatever is captured, scanned, drained or restarted later.
THEOREM TerminalReceiptsAreFinal == ~PowerLoss => (OutboxSpec => TerminalIsFinal)
<1> SUFFICES ASSUME ~PowerLoss PROVE OutboxSpec => TerminalIsFinal
  OBVIOUS
<1>1. OutboxInv /\ [OutboxNext]_outboxVars =>
        [\A r \in Receipts :
           record[r].at \in {"completed", "dead"} =>
             record'[r].at = record[r].at /\ (worker'.has = r => worker.has = r)]_outboxVars
  BY TerminalStays
<1> QED BY <1>1, OutboxInvariant, PTL DEF OutboxSpec, TerminalIsFinal

\* What the executor confirmed stays confirmed: a settled receipt is not sent
\* again and no card shows an annotation older than one it has shown, unless its
\* state file was quarantined.
THEOREM ConfirmationsStay == ~PowerLoss => (OutboxSpec /\ CardSpec => NothingIsUndone)
  BY TerminalReceiptsAreFinal, CardsMoveOn DEF NothingIsUndone
=============================================================================
