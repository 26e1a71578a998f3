------------------------------ MODULE Notifiers ------------------------------
(***************************************************************************)
(* What all the notifiers of pkg/notify/notifier promise the pipeline that *)
(* calls them, Feishu and the other channels alike.                        *)
(***************************************************************************)
EXTENDS FeishuNotifier, ChannelNotifiers

\* Success is only reported, and a card only captured, for what a platform has
\* delivered, and Notify says so after all its senders are done.  Three answers
\* are not what they are taken for, and no other: an error status without a code
\* to a Feishu chat bot, the reply to the end of a mail, and a message that
\* DingTalk conversations and WeChat cannot split.
SuccessMeansDelivered ==
    /\ SuccessWasDelivered /\ CapturedWasDelivered
    /\ ReportedWasDelivered /\ NilMeansDelivered /\ ReturnsAfterAll

\* The retries of the notifiers deliver nothing twice, but for Discord, which may
\* deliver once per try; a frozen plan makes one request per target.
SentOnce == DeliveredAtMostOnce /\ FrozenSendsOnce /\ DeliveredOnce
=============================================================================
