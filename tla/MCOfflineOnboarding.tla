---- MODULE MCOfflineOnboarding ----
(* Two headsets, two keys; the calls of the other runners beside them.      *)
EXTENDS OfflineOnboarding
Two == <<"h1", "h2">>
====
