----------------------------- MODULE MCNotifier ------------------------------
(* Notifier with one throttled receiver and one that is not. *)
EXTENDS Notifier

Intervals == [slack |-> 2, log |-> 0]
==============================================================================
