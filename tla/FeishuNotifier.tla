--------------------------- MODULE FeishuNotifier ---------------------------
(***************************************************************************)
(* One Notify of the Feishu notifier (pkg/notify/notifier/feishu): the     *)
(* chat bot, the batch of users and departments and every chat are sent to *)
(* concurrently, each with its own retry loop; the results are collected   *)
(* by async.Group.Wait, which gives up when the context ends while the     *)
(* senders go on.  Content that cannot be rendered ends Notify before.     *)
(***************************************************************************)
EXTENDS Absence, Naturals, FiniteSets

CONSTANTS Chats, Receivers, MaxPosts

VARIABLES receiver,        \* what is being notified, see ReceiverType
          sender,          \* of each target: [at, posts, answer, err]
          platform,        \* how often Feishu delivered to each target
          retriedOn,       \* the answers after which a target was sent to again
          sendCtx,         \* "live" or "done"
          chats,           \* the inner group of the chats: "waiting", "ok", "failed"
          notified,        \* sentSuccessfulHandler calls: the parts they stand for
          captured,        \* chats handed to the shadow adapter
          outcome          \* of Notify

feishuVars == <<receiver, sender, platform, retriedOn, sendCtx, chats, notified, captured, outcome>>

Targets == {"chatbot", "batch"} \cup Chats

\* tmplType, whether the rendered content parses, Frozen, and the targets.
ReceiverType ==
    [type : {"text", "post", "interactive", "other"}, parses : BOOLEAN, frozen : BOOLEAN,
     targets : SUBSET Targets]

ASSUME FeishuConstants ==
    /\ Receivers \subseteq ReceiverType /\ MaxPosts \in Nat \ {0}
    /\ Nil \notin {"ok", "limit", "bad", "rejected", "invalid", "uncoded", "lost", "nil", "error"}

FeishuInit ==
    /\ receiver \in Receivers
    /\ sender = [t \in Targets |-> [at |-> "start", posts |-> 0, answer |-> Nil, err |-> Nil]]
    /\ platform = [t \in Targets |-> 0] /\ retriedOn = [t \in Targets |-> {}]
    /\ sendCtx = "live" /\ chats = "waiting" /\ notified = {} /\ captured = {} /\ outcome = Nil

\* The senders: the content they take, the answers that they read as success,
\* those after which they send again (11232, and 9499 for the chat bot), and
\* whether a chat's card is captured.  A text message takes any content.  Unless
\* its plan is frozen, the chat bot passes over an error status that has a body,
\* and a body without a code decodes to code 0.
PlainFits == receiver.type = "text" \/ (receiver.type = "post" /\ receiver.parses)
BotReads == {"ok"} \cup {a \in {"uncoded"} : ~receiver.frozen}

sendToChatBot ==
    [fits |-> PlainFits, sent |-> BotReads, again |-> {"limit", "bad"}, captures |-> FALSE]
sendToChatBotInteractive ==
    [fits |-> receiver.parses, sent |-> BotReads, again |-> {"limit", "bad"}, captures |-> FALSE]
batchSend == [fits |-> PlainFits, sent |-> {"ok"}, again |-> {"limit"}, captures |-> FALSE]
batchSendInteractive ==
    [fits |-> receiver.parses, sent |-> {"ok"}, again |-> {"limit"}, captures |-> FALSE]
sendToChat == [fits |-> PlainFits, sent |-> {"ok"}, again |-> {"limit"}, captures |-> FALSE]
sendToChatInteractive ==
    [fits |-> receiver.parses, sent |-> {"ok"}, again |-> {"limit"}, captures |-> TRUE]

Sending(t) ==
    IF receiver.type = "interactive"
    THEN CASE t = "chatbot" -> sendToChatBotInteractive [] t = "batch" -> batchSendInteractive
           [] OTHER -> sendToChatInteractive
    ELSE CASE t = "chatbot" -> sendToChatBot [] t = "batch" -> batchSend [] OTHER -> sendToChat

\* Mutant: a request that failed on the way is sent again.
RetryOnFailures(t) == {"limit", "lost"}

RetryOn(t) == Sending(t).again

Moves(t, s) == sender' = [sender EXCEPT ![t] = s]
Finish(t, a, e) == Moves(t, [sender[t] EXCEPT !.at = "done", !.answer = a, !.err = e])
Elsewhere == UNCHANGED <<receiver, sendCtx, chats, notified, outcome>>
-----------------------------------------------------------------------------
(***************************************************************************)
(* The sender of one target: sendToChatBot, batchSend, sendToChat and the  *)
(* Interactive variant of each.                                            *)
(***************************************************************************)
\* Nothing is sent: the content does not fit, a credential or token cannot be
\* had, or the context is done.
SendRefused(t) ==
    /\ t \in receiver.targets /\ sender[t].at = "start"
    /\ Finish(t, Nil, "error")
    /\ UNCHANGED <<platform, retriedOn, captured>> /\ Elsewhere

\* One request; the requests are counted up to MaxPosts, their number is not
\* limited.
Post(t) ==
    /\ t \in receiver.targets /\ sender[t].at = "start" /\ Sending(t).fits /\ sendCtx = "live"
    /\ Moves(t, [sender[t] EXCEPT !.at = "posted", !.posts = IF @ < MaxPosts THEN @ + 1 ELSE @])
    /\ UNCHANGED <<platform, retriedOn, captured>> /\ Elsewhere

\* Feishu takes the message, for some recipients only ("invalid"), or not; an
\* error status whose body names no code ("uncoded") may also come from a proxy.
FeishuTakes(t) ==
    /\ sender[t].at = "posted" /\ sender[t].answer = Nil
    /\ \E a \in {"ok", "limit", "bad", "rejected", "uncoded"} \cup (IF t = "batch" THEN {"invalid"} ELSE {}) :
          /\ Moves(t, [sender[t] EXCEPT !.answer = a])
          /\ platform' = [platform EXCEPT ![t] = IF a \in {"ok", "invalid"} THEN @ + 1 ELSE @]
    /\ UNCHANGED <<retriedOn, captured>> /\ Elsewhere

Again(t, a) == a \in RetryOn(t) /\ ~receiver.frozen

\* What the loop makes of an answer, "lost" when none came back; an interactive
\* card that a chat got is handed to the shadow adapter if that wants it.
HandleAnswer(t, a) ==
    /\ IF Again(t, a)
       THEN /\ Moves(t, [sender[t] EXCEPT !.at = "start", !.answer = Nil])
            /\ retriedOn' = [retriedOn EXCEPT ![t] = @ \cup {a}]
       ELSE Finish(t, a, IF a \in Sending(t).sent THEN "nil" ELSE "error") /\ UNCHANGED retriedOn
    /\ captured' \in {captured, captured \cup {c \in {t} : a = "ok" /\ Sending(t).captures}}
    /\ UNCHANGED platform /\ Elsewhere

ReadAnswer(t) == sender[t].at = "posted" /\ sender[t].answer # Nil /\ HandleAnswer(t, sender[t].answer)

\* A connection that breaks, or a context that ends, before the answer is in;
\* the message may have been delivered.
AnswerLost(t) == sender[t].at = "posted" /\ HandleAnswer(t, "lost")

FeishuSender(t) == SendRefused(t) \/ Post(t) \/ ReadAnswer(t) \/ AnswerLost(t)
-----------------------------------------------------------------------------
(***************************************************************************)
(* Notify.                                                                 *)
(***************************************************************************)
Own == receiver.targets \cap Chats
Over(ts) == \A t \in ts : sender[t].at = "done"
Fine(ts) == \A t \in ts : sender[t].err = "nil"

FeishuDeadline ==
    /\ sendCtx = "live" /\ sendCtx' = "done"
    /\ UNCHANGED <<receiver, sender, platform, retriedOn, chats, notified, captured, outcome>>

\* Wait of the inner group: all the chats, or the end of the context.
WaitChats ==
    /\ chats = "waiting" /\ Own # {}
    /\ \/ Over(Own) /\ chats' = (IF Fine(Own) THEN "ok" ELSE "failed")
       \/ sendCtx = "done" /\ chats' = "failed"
    /\ UNCHANGED <<receiver, sender, platform, retriedOn, sendCtx, notified, captured, outcome>>

\* The targets a part of Notify stands for, and whether it went well.
PartOf(p) == IF p = "chats" THEN Own ELSE receiver.targets \cap {p}
Succeeded(p) == IF p = "chats" THEN chats = "ok" ELSE Fine({p}) /\ Over({p})
Ended(p) == IF p = "chats" THEN chats # "waiting" ELSE Over({p})
Parts == {p \in {"chatbot", "batch", "chats"} : PartOf(p) # {}}

Report(p) ==
    /\ p \in Parts /\ p \notin notified /\ Succeeded(p)
    /\ notified' = notified \cup {p}
    /\ UNCHANGED <<receiver, sender, platform, retriedOn, sendCtx, chats, captured, outcome>>

\* Wait of the outer group.
Notify ==
    /\ outcome = Nil
    /\ \/ /\ \A p \in Parts : Ended(p) /\ (Succeeded(p) => p \in notified)
          /\ outcome' = IF \A p \in Parts : Succeeded(p) THEN "nil" ELSE "error"
       \/ sendCtx = "done" /\ outcome' = "error"
    /\ UNCHANGED <<receiver, sender, platform, retriedOn, sendCtx, chats, notified, captured>>

FeishuNext ==
    \/ \E t \in Targets : FeishuSender(t) \/ FeishuTakes(t)
    \/ FeishuDeadline \/ WaitChats \/ Notify
    \/ \E p \in {"chatbot", "batch", "chats"} : Report(p)

FeishuSpec == FeishuInit /\ [][FeishuNext]_feishuVars

\* The context has a deadline, and goroutines run.
FeishuFairness ==
    /\ WF_feishuVars(FeishuDeadline) /\ WF_feishuVars(WaitChats) /\ WF_feishuVars(Notify)
    /\ \A t \in Targets : WF_feishuVars(FeishuSender(t))
    /\ \A p \in {"chatbot", "batch", "chats"} : WF_feishuVars(Report(p))
-----------------------------------------------------------------------------
\* A chat bot outside a frozen plan that was answered with an error status and a
\* body without a code, which it takes for a success (feishu.go:432, 932).
Misread(t) == t = "chatbot" /\ ~receiver.frozen /\ sender[t].answer = "uncoded"

\* Alerts are reported as notified, and Notify returns no error, only after
\* Feishu delivered to every target concerned, whatever answers were lost,
\* limited or late; the one exception is an answer that the chat bot misreads.
SuccessWasDelivered ==
    /\ \A p \in notified : \A t \in PartOf(p) : platform[t] > 0 \/ Misread(t)
    /\ outcome = "nil" => \A t \in receiver.targets : platform[t] > 0 \/ Misread(t)

\* The retry loops deliver at most once to a target: only an answer that says
\* that nothing was delivered is followed by another request.
DeliveredAtMostOnce == \A t \in Targets : platform[t] <= 1

\* A frozen plan makes one request per target and leaves the rest to the
\* dispatcher that recorded it.
FrozenSendsOnce == receiver.frozen => \A t \in Targets : sender[t].posts <= 1

\* A card is captured only when its chat has it, from an answer with code 0.
CapturedWasDelivered == \A c \in captured : platform[c] = 1 /\ receiver.type = "interactive"

\* "The retries will continue until the send times out and the context is
\* cancelled": then every sender ends.
FeishuSendersEnd == sendCtx = "done" ~> \A t \in receiver.targets : sender[t].at = "done"

\* "FeishuNotifier: chatbot message sent successfully" is logged, and nil returned,
\* for messages that Feishu delivered.
LoggedWasDelivered == outcome = "nil" => \A t \in receiver.targets : platform[t] > 0

\* "There is only one case that triggers the retry mechanism, that is, the API
\* call exceeds the limit."
RetriedOnLimitOnly == \A t \in Targets : retriedOn[t] \subseteq {"limit"}
=============================================================================
