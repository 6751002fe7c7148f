-------------------------- MODULE MCConnectionPool --------------------------
(* Small instances of ConnectionPool: two or three handlers, the first of   *)
(* which makes a second checkout while it holds one, as create_ticket does. *)
EXTENDS ConnectionPool, TLC

CONSTANTS outer, inner, other, c1, c2, c3, c4

MCNested == (outer :> NoCaller) @@ (inner :> outer) @@ (other :> NoCaller)
MCPair == (outer :> NoCaller) @@ (inner :> outer)
MCFlat == (outer :> NoCaller)

MCSymmetry == Permutations(Conns)
=============================================================================
