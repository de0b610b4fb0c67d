---------------------------- MODULE MCClientConn ----------------------------
(* Two requests to one host that has two addresses. Requests, addresses    *)
(* and connections are interchangeable.                                    *)
EXTENDS ClientConn, TLC

Symmetry == Permutations(Dialers) \union Permutations(Addrs) \union Permutations(Conns)
=============================================================================
