--------------------------- MODULE MCTripletIndex ---------------------------
(* Two records; names that share a triplet, repeat one, and hold a short word. *)
EXTENDS TripletIndex

MCIds == 1..2
MCTexts == {<<65, 98, 99>>,                    \* "Abc"
            <<97, 98, 99, 97, 98, 99>>,        \* "abcabc"
            <<120, 121, 32, 97, 98, 67>>}      \* "xy abC"
MCQueries == {<<97, 98, 45, 67>>,              \* "ab-C"
              <<97, 66, 99, 97, 98, 99, 33>>,  \* "aBcabc!"
              <<88, 121>>}                     \* "Xy"
MCMinScores == {-1, 10, 99}
MCScoreCounts == {-1, 1, 2}
=============================================================================
