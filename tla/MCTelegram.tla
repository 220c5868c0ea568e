------------------------------ MODULE MCTelegram ------------------------------
(* One approval and three taps of anybody's, in every order with its delivery, *)
(* its answers on other surfaces, its timers and the channel's own requests.   *)
(* Before, the checks of the rules a floor, a pack or a preset puts in force.  *)
EXTENDS TelegramChannel, MCPolicy

CONSTANT a1
MCIds == {a1}
================================================================================
