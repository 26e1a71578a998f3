----------------------------- MODULE TokenCache -----------------------------
(***************************************************************************)
(* The access tokens that the notifiers share (AccessTokenService of       *)
(* pkg/notify/notifier/token.go), and the senders that use it as the       *)
(* WeChat notifier does: a send whose token has expired invalidates it in  *)
(* the background and sends once more.  A call holds the mutex of the      *)
(* service while a goroutine of its own looks up or fetches the token; a   *)
(* call whose context ends leaves that goroutine behind.                   *)
(***************************************************************************)
EXTENDS Absence, Naturals, FiniteSets

CONSTANTS Senders, Receiver(_), Tokens

VARIABLES tokens,           \* by key: [token, fresh], or Nil
          tokensMutex,      \* the call that holds ats.mutex, or Nil
          call,             \* of each call: [at, value, forgotten]
          worker,           \* of each call, its goroutine: [at, value]
          callCtx,          \* of each sender: "live" or "done"
          issued, revoked,  \* tokens of the platform
          disturbed         \* a fetch failed, a token aged or a context ended

tokenVars == <<tokens, tokensMutex, call, worker, callCtx, issued, revoked, disturbed>>

\* The three calls a send can make.
Calls == Senders \X {"first", "again", "invalid"}

ASSUME TokenConstants == Nil \notin Calls

getToken(s) == <<Receiver(s).corpID, Receiver(s).apiSecret>>
invalidToken(s) == <<Receiver(s).corpID, Receiver(s).agentID>>
Key(c) == IF c[2] = "invalid" THEN invalidToken(c[1]) ELSE getToken(c[1])
Keys == {Key(c) : c \in Calls}

TokenInit ==
    /\ tokens = [k \in Keys |-> Nil] /\ tokensMutex = Nil
    /\ call = [c \in Calls |-> [at |-> "idle", value |-> Nil, forgotten |-> FALSE]]
    /\ worker = [c \in Calls |-> [at |-> "none", value |-> Nil]]
    /\ callCtx = [s \in Senders |-> "live"] /\ issued = {} /\ revoked = {} /\ disturbed = FALSE
-----------------------------------------------------------------------------
\* A send starts with the call of getToken.
Send(s) ==
    /\ call[<<s, "first">>].at = "idle"
    /\ call' = [call EXCEPT ![<<s, "first">>].at = "locking"]
    /\ UNCHANGED <<tokens, tokensMutex, worker, callCtx, issued, revoked, disturbed>>

\* Mutant: only the maps are locked, not the time of a fetch.
LockShared(c) ==
    /\ call[c].at = "locking"
    /\ call' = [call EXCEPT ![c].at = "waiting",
                            ![c].forgotten = call[<<c[1], "invalid">>].value = "forgot"]
    /\ worker' = [worker EXCEPT ![c].at = "started"]
    /\ UNCHANGED <<tokens, tokensMutex, callCtx, issued, revoked, disturbed>>

\* GetToken and InvalidToken, up to the select.
Lock(c) ==
    /\ call[c].at = "locking" /\ tokensMutex = Nil /\ tokensMutex' = c
    /\ call' = [call EXCEPT ![c].at = "waiting",
                            ![c].forgotten = call[<<c[1], "invalid">>].value = "forgot"]
    /\ worker' = [worker EXCEPT ![c].at = "started"]
    /\ UNCHANGED <<tokens, callCtx, issued, revoked, disturbed>>

Worker(c, at, v) == worker' = [worker EXCEPT ![c] = [at |-> at, value |-> v]]

\* The goroutine of GetToken: the cached token, or else a request for another.
Lookup(c) ==
    /\ worker[c].at = "started" /\ c[2] # "invalid"
    /\ LET t == tokens[Key(c)] IN
       IF t # Nil /\ t.fresh THEN Worker(c, "handing", t.token) ELSE Worker(c, "fetching", Nil)
    /\ UNCHANGED <<tokens, tokensMutex, call, callCtx, issued, revoked, disturbed>>

\* The goroutine of InvalidToken.
Forget(c) ==
    /\ worker[c].at = "started" /\ c[2] = "invalid"
    /\ tokens' = [tokens EXCEPT ![Key(c)] = IF @ = Nil THEN Nil ELSE [@ EXCEPT !.fresh = FALSE]]
    /\ Worker(c, "handing", "forgot")
    /\ UNCHANGED <<tokensMutex, call, callCtx, issued, revoked, disturbed>>

\* The platform answers the request for a token.
Issue(c) ==
    /\ worker[c].at = "fetching"
    /\ \/ /\ \E t \in Tokens \ issued : issued' = issued \cup {t} /\ Worker(c, "storing", t)
          /\ UNCHANGED disturbed
       \/ Worker(c, "handing", "error") /\ disturbed' = TRUE /\ UNCHANGED issued
    /\ UNCHANGED <<tokens, tokensMutex, call, callCtx, revoked>>

Store(c) ==
    /\ worker[c].at = "storing"
    /\ tokens' = [tokens EXCEPT ![Key(c)] = [token |-> worker[c].value, fresh |-> TRUE]]
    /\ Worker(c, "handing", worker[c].value)
    /\ UNCHANGED <<tokensMutex, call, callCtx, issued, revoked, disturbed>>

Return(c, v) == call' = [call EXCEPT ![c].at = "over", ![c].value = v] /\ tokensMutex' = Nil

\* The value goes over the unbuffered channel while the call is still there.
Hand(c) ==
    /\ call[c].at = "waiting" /\ worker[c].at = "handing"
    /\ Return(c, worker[c].value) /\ Worker(c, "ended", Nil)
    /\ UNCHANGED <<tokens, callCtx, issued, revoked, disturbed>>

LeaveFetch(c) ==
    /\ call[c].at = "waiting" /\ callCtx[c[1]] = "done"
    /\ Return(c, "error")
    /\ UNCHANGED <<tokens, worker, callCtx, issued, revoked, disturbed>>

\* The answer to a message sent with the first token: AccessTokenInvalid.
Expired(s) ==
    /\ call[<<s, "first">>].value \in revoked /\ call[<<s, "again">>].at = "idle"
    /\ call' = [call EXCEPT ![<<s, "again">>].at = "locking", ![<<s, "invalid">>].at = "locking"]
    /\ UNCHANGED <<tokens, tokensMutex, worker, callCtx, issued, revoked, disturbed>>

\* The platform gives up a token before its time.
Revoke ==
    /\ \E t \in issued \ revoked : revoked' = revoked \cup {t}
    /\ UNCHANGED <<tokens, tokensMutex, call, worker, callCtx, issued, disturbed>>

\* time.Since(accessTokenAt) reaches expires.
Age(k) ==
    /\ tokens[k] # Nil /\ tokens[k].fresh
    /\ tokens' = [tokens EXCEPT ![k].fresh = FALSE] /\ disturbed' = TRUE
    /\ UNCHANGED <<tokensMutex, call, worker, callCtx, issued, revoked>>

CallDeadline(s) ==
    /\ callCtx[s] = "live" /\ callCtx' = [callCtx EXCEPT ![s] = "done"] /\ disturbed' = TRUE
    /\ UNCHANGED <<tokens, tokensMutex, call, worker, issued, revoked>>

TokenNext ==
    \/ \E c \in Calls : Lock(c) \/ Lookup(c) \/ Forget(c) \/ Issue(c) \/ Store(c) \/ Hand(c) \/ LeaveFetch(c)
    \/ \E s \in Senders : Send(s) \/ Expired(s) \/ CallDeadline(s)
    \/ \E k \in Keys : Age(k)
    \/ Revoke

TokenSpec == TokenInit /\ [][TokenNext]_tokenVars

\* The contexts of the notifiers have deadlines and sync.Mutex starves nobody;
\* the platform may never answer.
TokenFairness ==
    /\ \A s \in Senders : WF_tokenVars(CallDeadline(s))
    /\ \A c \in Calls : SF_tokenVars(Lock(c)) /\ WF_tokenVars(LeaveFetch(c))
-----------------------------------------------------------------------------
(***************************************************************************)
(* Correctness.                                                            *)
(***************************************************************************)
\* Senders that share a key share one token: as long as no fetch fails, no token
\* ages and no context ends, the platform is asked for at most one token per
\* key, however the calls of GetToken interleave.
FetchedOnce ==
    ~disturbed => \A k \in Keys :
        Cardinality({c \in Calls : Key(c) = k /\ worker[c].at \in {"fetching", "storing"}})
            <= IF tokens[k] = Nil THEN 1 ELSE 0

\* GetToken and InvalidToken return: the mutex is held across a request to the
\* platform, but never past the deadline of the call that holds it.
CallsReturn == \A c \in Calls : call[c].at = "locking" ~> call[c].at = "over"

\* A send that repeats with the token that was refused as expired, after its
\* invalidation is complete, has not been helped: GetToken must fetch another.
ExpiredIsReplaced ==
    \A s \in Senders :
        call[<<s, "again">>].at = "over" /\ call[<<s, "again">>].forgotten
            => call[<<s, "again">>].value # call[<<s, "first">>].value
=============================================================================
