------------------------------ MODULE Throttle ------------------------------
(***************************************************************************)
(* The flow control of the DingTalk notifier                               *)
(* (pkg/notify/notifier/dingtalk/throttle.go): the limiter of one key,     *)
(* which the first TryAdd creates, and the goroutines that call Allow on   *)
(* it.  Allow holds the limiter's mutex also while it sleeps.  Add has no  *)
(* caller.                                                                 *)
(***************************************************************************)
EXTENDS Absence, Naturals, Sequences

CONSTANTS Callers, Settings, MaxTime, MaxCalls, Prompt

VARIABLES limiter,         \* settings of the limiter of the key, or Nil
          queue,           \* times of the latest allowed calls
          mutex,           \* the caller that holds r.mutex, or Nil
          caller,          \* of each caller: [at, since, until]
          now,
          allowed          \* times of all the allowed calls

throttleVars == <<limiter, queue, mutex, caller, now, allowed>>

SettingsType == [threshold : Nat \ {0}, unitTime : Nat, maxWaitTime : Nat]

ASSUME ThrottleConstants ==
    /\ Settings \subseteq SettingsType
    /\ Nil \notin Settings /\ Nil \notin Callers
    /\ MaxTime \in Nat /\ Prompt \in BOOLEAN

ThrottleInit ==
    /\ limiter = Nil /\ queue = <<>> /\ mutex = Nil /\ now = 0 /\ allowed = <<>>
    /\ caller = [c \in Callers |-> [at |-> "idle", since |-> 0, until |-> 0]]

\* Mutant: every call brings its own settings along.
TryAddUpdates(c) ==
    /\ caller[c].at = "idle" /\ Len(allowed) < MaxCalls
    /\ \E s \in Settings : limiter' = s
    /\ caller' = [caller EXCEPT ![c] = [at |-> "locking", since |-> now, until |-> now]]
    /\ UNCHANGED <<queue, mutex, now, allowed>>

\* The settings of a limiter are the ones of the first message to its key.
TryAdd(c) ==
    /\ caller[c].at = "idle" /\ Len(allowed) < MaxCalls
    /\ \E s \in Settings : limiter' = IF limiter = Nil THEN s ELSE limiter
    /\ caller' = [caller EXCEPT ![c] = [at |-> "locking", since |-> now, until |-> now]]
    /\ UNCHANGED <<queue, mutex, now, allowed>>

Call(c, at) == caller' = [caller EXCEPT ![c].at = at]

\* The call is let through at the current time.
Let(kept) == queue' = Append(kept, now) /\ allowed' = Append(allowed, now)

LastCalls == SubSeq(queue, Len(queue) - limiter.threshold + 1, Len(queue))
WaitTime == limiter.unitTime - (now - Head(LastCalls))

\* Allow, from the lock to the return or to time.Sleep.
Allow(c) ==
    /\ caller[c].at = "locking" /\ mutex = Nil
    /\ \/ /\ Len(queue) < limiter.threshold
          /\ Let(queue) /\ Call(c, "idle") /\ UNCHANGED mutex
       \/ /\ Len(queue) >= limiter.threshold /\ now - Head(LastCalls) >= limiter.unitTime
          /\ Let(Tail(LastCalls)) /\ Call(c, "idle") /\ UNCHANGED mutex
       \/ /\ Len(queue) >= limiter.threshold /\ now - Head(LastCalls) < limiter.unitTime
          /\ queue' = LastCalls
          /\ IF WaitTime <= limiter.maxWaitTime
             THEN /\ mutex' = c
                  /\ caller' = [caller EXCEPT ![c].at = "sleeping", ![c].until = now + WaitTime]
             ELSE Call(c, "dropped") /\ UNCHANGED mutex
          /\ UNCHANGED allowed
    /\ UNCHANGED <<limiter, now>>

\* The end of time.Sleep, which lasts at least as long as asked for.
Wake(c) ==
    /\ caller[c].at = "sleeping" /\ now >= caller[c].until
    /\ Let(Tail(queue)) /\ Call(c, "idle") /\ mutex' = Nil
    /\ UNCHANGED <<limiter, now>>

\* A caller told to drop its message is done with the limiter.
Dropped(c) ==
    /\ caller[c].at = "dropped" /\ Call(c, "idle")
    /\ UNCHANGED <<limiter, queue, mutex, now, allowed>>

Runnable(c) ==
    \/ caller[c].at = "locking" /\ mutex = Nil
    \/ caller[c].at = "sleeping" /\ now >= caller[c].until
    \/ caller[c].at = "dropped"

\* Prompt: no time is lost to the scheduler.
Tick ==
    /\ now < MaxTime /\ (Prompt => \A c \in Callers : ~Runnable(c))
    /\ now' = now + 1
    /\ UNCHANGED <<limiter, queue, mutex, caller, allowed>>

ThrottleNext ==
    \/ \E c \in Callers : TryAdd(c) \/ Allow(c) \/ Wake(c) \/ Dropped(c)
    \/ Tick

ThrottleSpec == ThrottleInit /\ [][ThrottleNext]_throttleVars
-----------------------------------------------------------------------------
(***************************************************************************)
(* Correctness.                                                            *)
(***************************************************************************)
\* Whatever the callers, their settings and the scheduler do, a call that Allow
\* lets through and the one `threshold` calls later are at least `unitTime`
\* apart: Allow admits at most threshold calls in a unit.  DingTalk may see more,
\* because a chat bot also sends a message that Allow refused.
RateRespected ==
    \A i \in 1 .. Len(allowed) :
        limiter # Nil /\ i + limiter.threshold <= Len(allowed)
            => allowed[i + limiter.threshold] - allowed[i] >= limiter.unitTime

\* A caller that Allow puts to sleep is the only one that can get at the queue,
\* and the queue it computed its time from is still there when it wakes.
SleeperOwnsTheQueue ==
    \A c \in Callers : caller[c].at = "sleeping"
        => mutex = c /\ queue # <<>> /\ caller[c].until = Head(queue) + limiter.unitTime

\* Nobody waits longer in Allow than maxWaitTime: a call that would is refused.
WaitBounded ==
    \A c \in Callers : caller[c].at \in {"locking", "sleeping"}
        => now - caller[c].since <= limiter.maxWaitTime
=============================================================================
