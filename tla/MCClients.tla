----------------------------- MODULE MCClients -----------------------------
(* Two requests of two people, who may share an email, on a table of two    *)
(* clients and two slugs, one of them empty.                                *)
EXTENDS Clients, TLC

Symmetry == Permutations(Requests) \cup Permutations(People)
=============================================================================
