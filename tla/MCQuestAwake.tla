---------------------------- MODULE MCQuestAwake ----------------------------
(* Small values for QuestAwake.                                             *)
EXTENDS QuestAwake

CONSTANTS d1

MCReadbacks == {[power |-> "held", watchdog |-> "absent"], [power |-> "normal", watchdog |-> "absent"],
                [power |-> "held", watchdog |-> "own"]}
=============================================================================
