------------------------------- MODULE MCThread -------------------------------
(* Timers of a few ticks for model checking TcpipThread. *)
EXTENDS TcpipThread

(* ms, at 2 ms a tick; in the code 250, 1000 and 5000 at 10 ms *)
MCInterval == [h \in {"tcp", "ip", "arp"} |->
                  CASE h = "tcp" -> 3 [] h = "ip" -> 4 [] h = "arp" -> 6]
=============================================================================
