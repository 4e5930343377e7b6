---------------------------- MODULE MCMorningJob ----------------------------
(* Instance of MorningJob for TLC. *)
EXTENDS MorningJob

(* Item 2 has the title of item 1. *)
TwoKeys == <<{"title"}, {"title", "url"}>>

SameAngle == [c \in Concepts |-> 1]

=============================================================================
