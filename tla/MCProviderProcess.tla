---- MODULE MCProviderProcess ----
(* All five runners of ProviderProcess, or the key tool alone.              *)
EXTENDS ProviderProcess
====
