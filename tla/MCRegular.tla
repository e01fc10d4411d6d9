------------------------------- MODULE MCRegular -------------------------------
(* A regular junction small enough for TLC. *)
EXTENDS RegularJunction, TLC

(* A second is 4 ticks. The durations are whole seconds, and seconds and a half, *)
(* that may round either way, and each is longer than the sampling jitter.       *)
MCDurations ==
    {[c \in Lamp |-> CASE c = red -> 7 [] c = green -> 5 [] OTHER -> 4],
     [c \in Lamp |-> CASE c = red -> 4 [] c = green -> 6 [] OTHER -> 5]}

(* With more lateness of the sampling task: one light, one duration per lamp. *)
MCLateDurations ==
    {[c \in Lamp |-> CASE c = red -> 6 [] c = green -> 5 [] OTHER -> 4]}
=============================================================================
