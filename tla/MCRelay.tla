------------------------------- MODULE MCRelay -------------------------------
(***************************************************************************)
(* Relay for TLC: a carbon server with a ring of three shards on two       *)
(* backends and six lines: two for backend A, by different shards and of   *)
(* different lengths, one for B, a status request, a line whose key is     *)
(* empty and one the validator refuses.  Clients write one line, or la and *)
(* another.                                                                *)
(***************************************************************************)
EXTENDS Relay, TLC

CONSTANTS la, la2, lb, nokey, bad, status, A, B, s1, s2

MCLines == {la, la2, lb, nokey, bad, status}
MCText == (la :> <<"x", " ", "1", " ", "1">>) @@ (la2 :> <<"m", " ", "1", " ", "1">>)
          @@ (lb :> <<"c", " ", "1", " ", "1">>)
          @@ (nokey :> <<" ", "1", " ", "1">>) @@ (bad :> <<"x", " ", "1">>)
          @@ (status :> <<"s", "t", "a", "t", "u", "s">>)
MCLineLen == [l \in MCLines |-> IF l = la THEN 2 ELSE 3]
MCHash == [l \in MCLines |-> CASE l = la -> 3 [] l = la2 -> 2 [] l = lb -> 4 [] OTHER -> 0]
MCRing == <<A, B, A>>
MCPrefix == <<"x", ":", "1", "|">>
SessionSymmetry == Permutations({s1, s2})
MCDatagrams == {<<la, lb>>, <<bad, la>>}
=============================================================================
