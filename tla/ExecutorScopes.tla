--------------------------- MODULE ExecutorScopes ---------------------------
(***************************************************************************)
(* The delivery scopes of the executor (pkg/jevshadow/delivery_scopes.go): *)
(* one child service per profile version, each with its own stores,        *)
(* principals and allowlists.  bindScopeDirectory fixes the identity of a  *)
(* scope on first use; deliveries, annotations (service.go) and card       *)
(* feedback (feedback.go) are routed to the scope a card was sent under.   *)
(*                                                                         *)
(* A scope key is <<profile, version>>; an identity stands for owner,      *)
(* domain, app, receivers and destinations.  The scopes file changes only  *)
(* between runs of the executor.                                           *)
(***************************************************************************)
EXTENDS Absence, Naturals, FiniteSets

CONSTANTS Keys, Identities,
          Envelopes,       \* deliveries [message, key, owner], owner an identity
          MaxRestarts, MaxScopeFaults

ASSUME ScopeConstants ==
    /\ Nil \notin Identities /\ "empty" \notin Identities
    /\ Keys \subseteq {"test", "formal"} \X Nat
    /\ \A e, f \in Envelopes : e.message = f.message => e = f
    /\ MaxRestarts \in Nat /\ MaxScopeFaults \in Nat

VARIABLES declared,        \* JEV_DELIVERY_SCOPES_FILE
          bound,           \* scope-binding.json of each root and key
          first,           \* the identity each file was created for
          executor,        \* its start, and the scopes it serves
          cards,           \* the card state files of each scope
          used,            \* requests sent or admitted: [message, with]
          refused,         \* the scope the last start called changed
          restarts, scopeFaults

scopeVars == <<declared, bound, first, executor, cards, used, refused, restarts, scopeFaults>>

Roots == {"card", "outbox"}
Messages == {e.message : e \in Envelopes}
Files == Roots \X Keys
Off == [at |-> "off", scopes |-> [k \in Keys |-> Nil], todo |-> {}, file |-> Nil]

\* New takes the scopes in map order, the card root before the outbox root.
Turn(f) ==
    LET begun == {g \in executor.todo : <<"card", g[2]>> \notin executor.todo}
    IN  f \in executor.todo /\ IF begun # {} THEN f \in begun ELSE f[1] = "card"

ScopesInit ==
    /\ declared \in {d \in [Keys -> Identities \cup {Nil}] :
                       \A p \in {"test", "formal"} : \E k \in Keys : k[1] = p /\ d[k] # Nil}
    /\ bound = [f \in Files |-> Nil] /\ first = bound
    /\ executor = Off /\ cards = [k \in Keys |-> {}]
    /\ used = {} /\ refused = Nil /\ restarts = 0 /\ scopeFaults = 0
-----------------------------------------------------------------------------
(***************************************************************************)
(* The start of the executor: loadDeliveryScopes, then New.                *)
(***************************************************************************)
NoRequest == UNCHANGED <<cards, used>>

EditScopes ==
    /\ executor.at = "off" /\ restarts < MaxRestarts
    /\ declared' \in [Keys -> Identities \cup {Nil}] /\ declared' # declared
    /\ restarts' = restarts + 1
    /\ UNCHANGED <<bound, first, executor, refused, scopeFaults>> /\ NoRequest

\* Both lanes must stay installed.
Loadable == \A p \in {"test", "formal"} : \E k \in Keys : k[1] = p /\ declared[k] # Nil

LoadDeliveryScopes ==
    /\ executor.at = "off" /\ Loadable
    /\ executor' = [at |-> "binding", scopes |-> declared, file |-> Nil,
                    todo |-> {f \in Files : declared[f[2]] # Nil}]
    /\ refused' = Nil
    /\ UNCHANGED <<declared, bound, first, restarts, scopeFaults>> /\ NoRequest

SameIdentity(f) == bound[f] = executor.scopes[f[2]]

\* bindScopeDirectory finds the file: it must hold the same identity.
ReadBinding(f) ==
    /\ executor.at = "binding" /\ Turn(f) /\ bound[f] # Nil
    /\ IF SameIdentity(f)
       THEN /\ executor' = [executor EXCEPT !.todo = @ \ {f}]
            /\ UNCHANGED refused
       ELSE executor' = Off /\ refused' = f
    /\ UNCHANGED <<declared, bound, first, restarts, scopeFaults>> /\ NoRequest

\* O_CREATE|O_EXCL leaves an empty file ...
CreateBinding(f) ==
    /\ executor.at = "binding" /\ Turn(f) /\ bound[f] = Nil
    /\ executor' = [executor EXCEPT !.at = "writing", !.file = f]
    /\ bound' = [bound EXCEPT ![f] = "empty"]
    /\ first' = [first EXCEPT ![f] = executor.scopes[f[2]]]
    /\ UNCHANGED <<declared, refused, restarts, scopeFaults>> /\ NoRequest

\* ... that the write fills, or leaves as it is when it fails.
WriteBinding(f) ==
    /\ executor.at = "writing" /\ executor.file = f
    /\ \/ /\ bound' = [bound EXCEPT ![f] = executor.scopes[f[2]]]
          /\ executor' = [executor EXCEPT !.at = "binding", !.file = Nil, !.todo = @ \ {f}]
          /\ UNCHANGED scopeFaults
       \/ /\ scopeFaults < MaxScopeFaults /\ scopeFaults' = scopeFaults + 1
          /\ executor' = Off /\ UNCHANGED bound
    /\ UNCHANGED <<declared, first, refused, restarts>> /\ NoRequest

\* Every child service is up.
Serve ==
    /\ executor.at = "binding" /\ executor.todo = {}
    /\ executor' = [executor EXCEPT !.at = "serving"]
    /\ UNCHANGED <<declared, bound, first, refused, restarts, scopeFaults>> /\ NoRequest

Stop ==
    /\ executor.at # "off" /\ restarts < MaxRestarts
    /\ restarts' = restarts + 1 /\ executor' = Off
    /\ UNCHANGED <<declared, bound, first, refused, scopeFaults>> /\ NoRequest
-----------------------------------------------------------------------------
(***************************************************************************)
(* The requests it serves.                                                 *)
(***************************************************************************)
ScopesOnly == UNCHANGED <<declared, bound, first, executor, refused, restarts, scopeFaults>>

\* scopeService: the frozen profile, version and owner choose the child.
ScopeService(e) ==
    {k \in Keys : k = e.key /\ executor.scopes[k] # Nil /\ executor.scopes[k] = e.owner}

\* messageScope: the installed child with a card state of the message.
MessageScope(m) == {k \in Keys : executor.scopes[k] # Nil /\ m \in cards[k]}

HandleSuccessfulDelivery(e) ==
    /\ executor.at = "serving"
    /\ \E k \in ScopeService(e) :
          /\ MessageScope(e.message) \subseteq {k}
          /\ cards' = [cards EXCEPT ![k] = @ \cup {e.message}]
    /\ UNCHANGED used /\ ScopesOnly

\* HandleAnnotation: the scope of the card checks the token of the request,
\* here the key whose annotation token it carries.
HandleAnnotation(m, token) ==
    /\ executor.at = "serving"
    /\ MessageScope(m) = {token}
    /\ used' = used \cup {[message |-> m, with |-> token, as |-> executor.scopes[token]]}
    /\ UNCHANGED cards /\ ScopesOnly

\* Mutant: the feedback goes out under the first scope that allows the chat.
HandleCardFeedbackByChat(m, chat) ==
    /\ executor.at = "serving" /\ MessageScope(m) # {}
    /\ \E k \in Keys :
          /\ executor.scopes[k] = chat
          /\ used' = used \cup {[message |-> m, with |-> k, as |-> chat]}
    /\ UNCHANGED cards /\ ScopesOnly

\* HandleCardFeedback and RelayCardFeedback: the chat must be the destination
\* of the card, the feedback goes out with the token of its scope.
HandleCardFeedback(m, chat) ==
    /\ executor.at = "serving"
    /\ \E k \in Keys :
          /\ MessageScope(m) = {k} /\ executor.scopes[k] = chat
          /\ used' = used \cup {[message |-> m, with |-> k, as |-> chat]}
    /\ UNCHANGED cards /\ ScopesOnly

ScopesNext ==
    \/ EditScopes \/ LoadDeliveryScopes \/ Serve \/ Stop
    \/ \E f \in Files : ReadBinding(f) \/ CreateBinding(f) \/ WriteBinding(f)
    \/ \E e \in Envelopes : HandleSuccessfulDelivery(e)
    \/ \E m \in Messages, k \in Keys : HandleAnnotation(m, k)
    \/ \E m \in Messages, c \in Identities : HandleCardFeedback(m, c)

ScopesSpec == ScopesInit /\ [][ScopesNext]_scopeVars
-----------------------------------------------------------------------------
Envelope(m) == CHOOSE e \in Envelopes : e.message = m

\* A serving executor has every installed scope bound, in both roots, to the
\* identity it serves it with.
ServingMeansBound ==
    executor.at = "serving" =>
        \A f \in Files : executor.scopes[f[2]] # Nil => bound[f] = executor.scopes[f[2]]

\* Across restarts and edits of the scopes file a card is found only under the
\* owner, app and destinations it was sent with.
HistoryKeepsItsScope ==
    executor.at = "serving" =>
        \A k \in Keys : \A m \in cards[k] :
            executor.scopes[k] \in {Nil, Envelope(m).owner} /\ k = Envelope(m).key

\* Annotations and feedback of a card use the principals of the profile
\* version that sent it, also after another lane was activated.
OldCardsKeepTheirPrincipals ==
    \A u \in used : u.with = Envelope(u.message).key /\ u.as = Envelope(u.message).owner

\* "Reusing the same ID/version with different owner/domain/app/destination is
\* rejected": what is rejected as changed did change.
RefusedMeansChanged ==
    refused # Nil => declared[refused[2]] # first[refused]

\* A card stays with the scope it was sent under, across restarts, edited scope
\* files and the activation of another version.
CardsKeepTheirScope == ServingMeansBound /\ HistoryKeepsItsScope /\ OldCardsKeepTheirPrincipals
=============================================================================
