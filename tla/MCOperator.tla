------------------------------ MODULE MCOperator ------------------------------
EXTENDS Operator, Doctor

CONSTANTS a1, a2, p1, p2

Desk(tools, calls, answers, slots, bound) ==
  [tools |-> tools, ids |-> calls, asks |-> answers, polls |-> slots, events |-> bound]

(* Two approvals before each follower while proxies come and go; two answers *)
(* racing each other, typed ones, the timer and the socket's takeover; two   *)
(* overlapping polls; the chat with four events, and with an approval; and   *)
(* setup.                                                                    *)
MCDesks ==
  {Desk({"watch", "socket"}, {a1, a2}, {}, {}, 0),
   Desk({"forward", "socket"}, {a1, a2}, {}, {}, 0),
   Desk({"watch", "respond"}, {a1}, {1}, {}, 0),
   Desk({"respond", "approvals"}, {a1}, {1, 2}, {p1}, 0),
   Desk({"respond", "approvals", "socket"}, {a1}, {1}, {p1}, 0),
   Desk({"approvals"}, {a1}, {1}, {p1, p2}, 0),
   Desk({"chat"}, {}, {}, {}, 4),
   Desk({"chat"}, {a1}, {}, {p1}, 3),
   Desk({"setup"}, {}, {}, {}, 0)}
===============================================================================
