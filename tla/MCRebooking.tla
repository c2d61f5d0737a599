----------------------------- MODULE MCRebooking -----------------------------
(* Small lives of a client for Rebooking.                                  *)
EXTENDS Rebooking, TLC

CONSTANTS colour, cut, w1, w2, c1, c2

Scene(services, senders, computes, saves, happens) ==
    [services |-> services, senders |-> senders, computes |-> computes,
     saves |-> saves, happens |-> happens]

\* Settings and recomputes, of a client and of a new one; a death; two ticks;
\* all that may stop a reminder; a service of hers and a new one.
Lives == {Scene({colour}, {}, {c1, c2}, 2, {"save", "ask"}),
          Scene({cut}, {}, {c1}, 1, {"save", "visit"}),
          Scene({colour}, {w1}, {c1}, 0, {"visit", "die"}),
          Scene({colour}, {w1, w2}, {c1}, 0, {"visit"}),
          Scene({colour}, {w1}, {c1}, 1, {"off", "stop", "switch"}),
          Scene({colour, cut}, {w1}, {c1}, 0, {"visit"})}

HerVisits == [s \in {colour, cut} |-> IF s = colour THEN 2 ELSE 0]
=============================================================================
