------------------------------ MODULE MCOutbox ------------------------------
(* Instances of Outbox: entries and slots that compete for ticks and jobs. *)
EXTENDS OutboxProperties

CONSTANTS e1, e2, w1, w2
=============================================================================
