-------------------------- MODULE MCTriggerDelivery --------------------------
(* TriggerDelivery with one row and two workers, either of them a sender, a    *)
(* drain or an administrator: a row of its own is all that claims ever touch.     *)
EXTENDS TriggerDelivery, TLC

=============================================================================
