---------------------------- MODULE MCCampaigns ----------------------------
(* Small campaigns for Campaigns: a client two processes may write to, and *)
(* a list of two clients that one process works through.                   *)
EXTENDS Campaigns, TLC

CONSTANTS s1, s2

SmallSalons == {[clients |-> {1}, senders |-> {s1, s2}],
                [clients |-> {1, 2}, senders |-> {s1}]}

OneProcess == {[clients |-> {1}, senders |-> {s1}]}
=============================================================================
