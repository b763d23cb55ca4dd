---------------------------- MODULE TicketStoreMC ----------------------------
(* Small instances of TicketStore for TLC: commands are interchangeable. *)
EXTENDS TicketStore, TLC

Symmetry == Permutations(Procs)
==============================================================================
