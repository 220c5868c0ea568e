-------------------------------- MODULE MCChat --------------------------------
(* Two messages from the phone and one from the dashboard. *)
EXTENDS ChatManager

CONSTANTS t1, t2, w1

MCMessages == {t1, t2, w1}
MCFrom == [m \in MCMessages |-> IF m = w1 THEN "web" ELSE "telegram"]
================================================================================
