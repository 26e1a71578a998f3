------------------------------ MODULE MCSpool ------------------------------
(* Instances of NotificationSpool for model checking. *)
EXTENDS NotificationSpool

\* One original and no history.
SingleDeps == [i \in Items |-> {}]

\* Two originals, and history of an alert that both of them carry.
HistoryDeps == [i \in Items |-> IF i = "history" THEN {"chat", "webhook"} ELSE {}]

\* Target IDs are hashes; this order puts later intakes first.
ItemOrder(i) == CASE i = "chat" -> 0 [] i = "webhook" -> 1 [] OTHER -> 2
HashOrder == [t \in TargetIds |-> 10 * (9 - t[1]) + ItemOrder(t[2])]
=============================================================================
