----------------------------- MODULE LossyChannel -----------------------------
(* What a network interface promises: the frames that arrive are delivered in     *)
(* their order, each at most once, and any of them may be lost on the way.        *)
EXTENDS Sequences, SequencesExt, Integers

CONSTANT Frame

VARIABLE chan

Arrive == \E f \in Frame : chan' = Append(chan, f)

Lose == \E k \in 1..Len(chan) : chan' = RemoveAt(chan, k)

Deliver == chan # <<>> /\ chan' = Tail(chan)

Spec == chan = <<>> /\ [][Arrive \/ Lose \/ Deliver]_chan
=============================================================================
