---------------------------- MODULE MCTicketSync ----------------------------
(* Two tickets, a full pass and an event poll that may overlap.            *)
EXTENDS TicketSync, TLC

CONSTANTS t1, t2, pass, poll

Symmetry == Permutations(Tickets)
=============================================================================
