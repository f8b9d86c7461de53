--------------------------- MODULE MCPublication ----------------------------
(* Two files whose names differ in case, or collide with a suffixed name.  *)
EXTENDS Publication

MCLower == [n \in {"a", "A", "a1", "a2", "A1", "A2", "a11"} |->
              CASE n = "A" -> "a" [] n = "A1" -> "a1" [] n = "A2" -> "a2"
                [] OTHER -> n]

MCCandidates == [n \in {"a", "A", "a1"} |->
                   CASE n = "a" -> <<"a", "a1", "a2">>
                     [] n = "A" -> <<"A", "A1", "A2">>
                     [] n = "a1" -> <<"a1", "a11">>]

MCBatch == {<<"a", "a1">>, <<"a", "A">>, <<"a", "a">>, <<"A", "a1">>}
=============================================================================
