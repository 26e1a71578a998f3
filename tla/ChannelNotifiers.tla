-------------------------- MODULE ChannelNotifiers --------------------------
(***************************************************************************)
(* One Notify of the notifiers other than Feishu (pkg/notify/notifier):    *)
(* the rendered message is split into parts, every part goes to every      *)
(* target in a goroutine of its own, and async.Group.Wait collects one     *)
(* value per goroutine or gives up when the context ends.  Webhook and SMS *)
(* send in the calling goroutine.  "chatbot" and "conversation" are the    *)
(* two halves of DingTalk, "wechatBot" the chat bot of WeChat; the groups  *)
(* that join the halves are Wait again.                                    *)
(***************************************************************************)
EXTENDS Absence, Naturals, Sequences, FiniteSets

CONSTANTS Notifications

VARIABLES note,            \* the notification: [kind, parts, targets]
          job,             \* of each part and target: [at, tries, answer, ok, dropped]
          received,        \* how often the platform delivered each
          reported,        \* parts given to sentSuccessfulHandler
          stopCh,          \* values of the senders that Wait has not taken
          taken,           \* what Wait took: [count, failed]
          ctx,             \* "live" or "done"
          result           \* of Notify: Nil, "nil" or "error"

notifyVars == <<note, job, received, reported, stopCh, taken, ctx, result>>

Jobs == (1 .. note.parts) \X note.targets
-----------------------------------------------------------------------------
(***************************************************************************)
(* The senders: whether they run in a group, ask the flow control first    *)
(* and use the context of Notify; how the platform can answer besides      *)
(* "ok" and "refused" and which answers count as sent; after which         *)
(* outcomes they try again and how often in all; what Notify returns when  *)
(* the message cannot be split.                                            *)
(***************************************************************************)
Plain == [grouped |-> TRUE, throttled |-> FALSE, bound |-> TRUE, answers |-> {}, sent |-> {"ok"},
          again |-> {}, tries |-> 1, unsplit |-> "error"]

\* The reply to the end of the message is thrown away with message.Close.
email == [Plain EXCEPT !.bound = FALSE, !.answers = {"late"}, !.sent = {"ok", "late"}]
webhook == [Plain EXCEPT !.grouped = FALSE]
slack == Plain
telegram == Plain
discord == [Plain EXCEPT !.again = {"lost"}, !.tries = 3]
pushover == Plain

\* The SMS providers; only AWS is given a context, one of its own.
Provider == [Plain EXCEPT !.grouped = FALSE, !.bound = FALSE]
huawei == Provider
tencent == [Provider EXCEPT !.answers = {"partial"}]
aws == Provider
aliyun == Provider

chatbot == [Plain EXCEPT !.throttled = TRUE, !.bound = FALSE]
conversation == [Plain EXCEPT !.throttled = TRUE, !.bound = FALSE, !.unsplit = "nil"]

\* AccessTokenInvalid is worth one more try; invalid users make an error of a
\* message that the others got.
wechat == [Plain EXCEPT !.answers = {"partial", "expired"}, !.again = {"expired"}, !.tries = 2,
                        !.unsplit = "nil"]
wechatBot == [Plain EXCEPT !.bound = FALSE]

Channel ==
    [email |-> email, webhook |-> webhook, slack |-> slack, telegram |-> telegram, discord |-> discord,
     pushover |-> pushover, huawei |-> huawei, tencent |-> tencent, aws |-> aws, aliyun |-> aliyun,
     chatbot |-> chatbot, conversation |-> conversation, wechat |-> wechat, wechatBot |-> wechatBot]

\* Split may leave no part, when every alert is too large to be sent alone.
ASSUME NotifierConstants ==
    /\ Notifications \subseteq [kind : DOMAIN Channel, parts : Nat, targets : SUBSET Nat]
    /\ \A n \in Notifications :
          /\ IsFiniteSet(n.targets)
          /\ ~Channel[n.kind].grouped => n.parts = 1 /\ n.targets = {1}
    /\ Nil \notin {"ok", "refused", "late", "partial", "expired", "lost", "nil", "error"}

Of == Channel[note.kind]

NotifyInit ==
    /\ note \in Notifications
    /\ job = [j \in Jobs |-> [at |-> "new", tries |-> 0, answer |-> Nil, ok |-> FALSE, dropped |-> FALSE]]
    /\ received = [j \in Jobs |-> 0] /\ reported = {} /\ stopCh = <<>>
    /\ taken = [count |-> 0, failed |-> FALSE] /\ ctx = "live" /\ result = Nil
-----------------------------------------------------------------------------
\* Rendering, splitting or a credential fails before anything is started.
NotStarted ==
    /\ result = Nil /\ \A j \in Jobs : job[j].at = "new"
    /\ result' \in {"error", Of.unsplit}
    /\ UNCHANGED <<note, job, received, reported, stopCh, taken, ctx>>

\* async.Group.Wait starts all the workers; without any it returns nil.
Start ==
    /\ result = Nil /\ \A j \in Jobs : job[j].at = "new"
    /\ job' = [j \in Jobs |-> [job[j] EXCEPT !.at = IF Of.throttled THEN "asking" ELSE "sending"]]
    /\ result' = IF Jobs = {} THEN "nil" ELSE Nil
    /\ UNCHANGED <<note, received, reported, stopCh, taken, ctx>>

Step(j, r) == job' = [job EXCEPT ![j] = r]
At(j, at) == Step(j, [job[j] EXCEPT !.at = at])

\* Throttle.Allow, which lets the message through or not.
Ask(j) ==
    /\ job[j].at = "asking" /\ \E at \in {"sending", "dropping"} : At(j, at)
    /\ UNCHANGED <<note, received, reported, stopCh, taken, ctx, result>>

Room == Len(stopCh) < Cardinality(Jobs)

\* A message over the limit: an error goes to stopCh, and the sender goes on.
Drop(j) ==
    /\ job[j].at = "dropping" /\ Room /\ stopCh' = Append(stopCh, "error")
    /\ Step(j, [job[j] EXCEPT !.at = "sending", !.dropped = TRUE])
    /\ UNCHANGED <<note, received, reported, taken, ctx, result>>

\* Encoding, credentials or a token fail, or the context has ended: no request.
SendFails(j) ==
    /\ job[j].at = "sending" /\ At(j, "pushing")
    /\ UNCHANGED <<note, received, reported, stopCh, taken, ctx, result>>

Request(j) ==
    /\ job[j].at = "sending" /\ (Of.bound => ctx = "live")
    /\ Step(j, [job[j] EXCEPT !.at = "sent", !.tries = @ + 1])
    /\ UNCHANGED <<note, received, reported, stopCh, taken, ctx, result>>

\* What the platform makes of a request; "partial" is a delivery to some of the
\* recipients of the target.
Platform(j) ==
    /\ job[j].at = "sent" /\ job[j].answer = Nil
    /\ \E a \in {"ok", "refused"} \cup Of.answers :
          /\ Step(j, [job[j] EXCEPT !.answer = a])
          /\ received' = [received EXCEPT ![j] = IF a \in {"ok", "partial"} THEN @ + 1 ELSE @]
    /\ UNCHANGED <<note, reported, stopCh, taken, ctx, result>>

\* The sender on an answer, or on none ("lost"); sentSuccessfulHandler.
Handled(j, a) ==
    /\ IF a \in Of.again /\ job[j].tries < Of.tries
       THEN Step(j, [job[j] EXCEPT !.at = "sending", !.answer = Nil]) /\ UNCHANGED reported
       ELSE /\ Step(j, [job[j] EXCEPT !.at = "pushing", !.answer = a, !.ok = a \in Of.sent])
            /\ reported' = IF a \in Of.sent THEN reported \cup {j[1]} ELSE reported
    /\ UNCHANGED <<note, received, stopCh, taken, ctx, result>>

Answered(j) == job[j].at = "sent" /\ job[j].answer # Nil /\ Handled(j, job[j].answer)

\* A request that breaks, as one with the context of Notify does when that ends;
\* it may have been delivered.
Lost(j) == job[j].at = "sent" /\ Handled(j, "lost")

\* Mutant: a channel without a buffer, which only Wait empties.
PushLate(j) ==
    /\ job[j].at = "pushing" /\ stopCh = <<>> /\ result = Nil
    /\ stopCh' = Append(stopCh, IF job[j].ok THEN "nil" ELSE "error") /\ At(j, "done")
    /\ UNCHANGED <<note, received, reported, taken, ctx, result>>

\* The value of the sender, for which stopCh must have room.
Push(j) ==
    /\ job[j].at = "pushing" /\ Room /\ stopCh' = Append(stopCh, IF job[j].ok THEN "nil" ELSE "error")
    /\ At(j, "done")
    /\ UNCHANGED <<note, received, reported, taken, ctx, result>>

\* Mutant: the errors of the senders are only logged.
TakeQuiet ==
    /\ result = Nil /\ stopCh # <<>> /\ stopCh' = Tail(stopCh)
    /\ taken' = [taken EXCEPT !.count = @ + 1]
    /\ result' = IF taken'.count < Cardinality(Jobs) THEN Nil ELSE "nil"
    /\ UNCHANGED <<note, job, received, reported, ctx>>

\* Wait takes a value, and returns with the one that makes them as many as the
\* workers.
Take ==
    /\ result = Nil /\ stopCh # <<>> /\ stopCh' = Tail(stopCh)
    /\ LET t == [count |-> taken.count + 1, failed |-> taken.failed \/ Head(stopCh) = "error"] IN
       /\ taken' = t
       /\ result' = IF t.count < Cardinality(Jobs) THEN Nil ELSE IF t.failed THEN "error" ELSE "nil"
    /\ UNCHANGED <<note, job, received, reported, ctx>>

GiveUp ==
    /\ result = Nil /\ Of.grouped /\ ctx = "done"
    /\ Jobs # {} /\ \A j \in Jobs : job[j].at # "new"
    /\ result' = "error"
    /\ UNCHANGED <<note, job, received, reported, stopCh, taken, ctx>>

Deadline ==
    /\ ctx = "live" /\ ctx' = "done"
    /\ UNCHANGED <<note, job, received, reported, stopCh, taken, result>>

\* A request that holds the context of Notify breaks when that ends.
Break(j) == Of.bound /\ ctx = "done" /\ Lost(j)

Sender(j) ==
    \/ Ask(j) \/ Drop(j) \/ SendFails(j) \/ Request(j) \/ Answered(j) \/ Lost(j) \/ Push(j)

NotifyNext ==
    \/ NotStarted \/ Start \/ Take \/ GiveUp \/ Deadline
    \/ \E j \in Jobs : Sender(j) \/ Platform(j)

NotifySpec == NotifyInit /\ [][NotifyNext]_notifyVars

\* Goroutines that can run do, and contexts end; a platform may keep silent.
NotifyFairness ==
    /\ WF_notifyVars(Start) /\ WF_notifyVars(Take) /\ WF_notifyVars(GiveUp) /\ WF_notifyVars(Deadline)
    /\ \A j \in UNION {(1 .. n.parts) \X n.targets : n \in Notifications} :
          /\ WF_notifyVars(j \in Jobs /\ (Ask(j) \/ Drop(j) \/ Push(j) \/ Answered(j)))
          /\ WF_notifyVars(j \in Jobs /\ (SendFails(j) \/ Request(j)))
          /\ WF_notifyVars(j \in Jobs /\ Break(j))
-----------------------------------------------------------------------------
(***************************************************************************)
(* Correctness.                                                            *)
(***************************************************************************)
\* The part was delivered, or refused in the one answer that no sender reads: that
\* of a mail server to the end of the message.
Through(j) == received[j] > 0 \/ (note.kind = "email" /\ job[j].answer = "late")

\* History and the state of an alert follow sentSuccessfulHandler: a part it is
\* called for went through to one of the targets.
ReportedWasDelivered == \A p \in reported : \E t \in note.targets : Through(<<p, t>>)

\* When Notify returns nil every part that Split left (none, if all alerts are too
\* large) went through to every target, except that DingTalk conversations and
\* WeChat return nil for a message that they could not split, without having
\* started a sender.
NilMeansDelivered ==
    result = "nil" =>
        \/ \A j \in Jobs : Through(j)
        \/ Of.unsplit = "nil" /\ \A j \in Jobs : job[j].at = "new"

\* A message is delivered twice to a target only by Discord, whose sender repeats
\* a request that broke, three requests at most.
DeliveredOnce == \A j \in Jobs : received[j] <= IF note.kind = "discord" THEN 3 ELSE 1

\* Unless the context ended first, Notify returns when all its senders are done.
\* A DingTalk message over its limit counts twice, so that those groups are left
\* out.
ReturnsAfterAll ==
    result # Nil /\ ctx = "live" /\ ~Of.throttled /\ taken.count > 0 => \A j \in Jobs : job[j].at = "done"

\* Notify returns although platforms may never answer: Wait watches the context,
\* and so does the one request of a webhook.  SMS providers without a context
\* of Notify are left out.
NotifyReturns == (Of.grouped \/ Of.bound) ~> result # Nil

\* The goroutines of a channel whose requests hold the context of Notify end,
\* also when Wait has given up on them: stopCh has room for each.
SendersEnd ==
    \A j \in UNION {(1 .. n.parts) \X n.targets : n \in Notifications} :
        (j \in Jobs /\ Of.bound /\ job[j].at # "new") ~> (j \in Jobs => job[j].at = "done")

\* A message dropped because of flow control is not sent.
DroppedIsNotSent == \A j \in Jobs : job[j].dropped => job[j].tries = 0

\* The messages for one Pushover user are sent one after another.
OneAfterAnother ==
    \A t \in note.targets : Cardinality({p \in 1 .. note.parts : job[<<p, t>>].at = "sent"}) <= 1
=============================================================================
