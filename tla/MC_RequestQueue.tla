-------------------------- MODULE MC_RequestQueue --------------------------
(* RequestQueue with three requests: one being processed, one alone in the *)
(* list and one linked behind it, so that every shape of the list occurs.  *)
EXTENDS RequestQueue
=============================================================================
