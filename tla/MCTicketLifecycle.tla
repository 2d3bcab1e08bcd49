------------------------- MODULE MCTicketLifecycle -------------------------
(***************************************************************************)
(* TicketLifecycle on small instances.  Tickets, handlers and senders are  *)
(* model values the specification only compares, so permuting them is a    *)
(* symmetry of it.                                                         *)
(***************************************************************************)
EXTENDS TicketLifecycle, TLC

Symmetry ==
    Permutations(Tickets) \cup Permutations(Handlers) \cup Permutations(Senders)
=============================================================================
