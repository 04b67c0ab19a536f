------------------------------ MODULE MCLifecycle ------------------------------
(* Lifecycle for TLC.  The program registers one job, the notifier; a       *)
(* second one lets a job wait for another, as the service allows.           *)
EXTENDS Lifecycle

Intervals == <<1, 2>>
OneInterval == <<1>>
=============================================================================
