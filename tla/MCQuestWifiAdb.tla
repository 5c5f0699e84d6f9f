---- MODULE MCQuestWifiAdb ----
(* Two operations, the first on both headsets, and the provider's answers. *)
EXTENDS QuestWifiAdb

CONSTANTS o1, o2, d1, d2

MCAsked == [o \in Operations |-> IF o = o1 THEN {d1, d2} ELSE {d1}]
MCConfigurations == {{d1, d2}, {d2}}
MCFacts == [delivered |-> TRUE, setting |-> TRUE, after_boot |-> "unset",
            approval |-> "pending", route |-> "modern", listener |-> FALSE, effect |-> TRUE]
\* The facts, a summary that contradicts them, and one that owns up.
MCReceipts == {MCFacts, [MCFacts EXCEPT !.setting = FALSE],
               [MCFacts EXCEPT !.setting = FALSE, !.effect = FALSE]}
====
