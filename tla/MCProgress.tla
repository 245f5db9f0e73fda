---- MODULE MCProgress ----
(***************************************************************************)
(* The components whose progress is checked, side by side as in            *)
(* MCComponents.                                                           *)
(***************************************************************************)
EXTENDS Progress

VARIABLE moving

ChannelThreshold == [card |-> 3, pse |-> 4]

rightsVars == <<rightsNow, place, field, suppressed, rightsPc, rightsCall, log, monitor, found, emailed>>
checkoutVars == <<mount, open, amount, asked, state, widget, requests, rows>>

progressVars == <<moving, vars, rightsVars, checkoutVars>>

ProgressInit ==
  /\ moving \in {"uiaf", "rights", "checkout"}
  /\ Init /\ Rights!Init /\ Checkout!Init
  /\ moving # "uiaf" => variant = "by channel"
  /\ moving # "rights" => place = [n \in Nit |-> "listed"]
  /\ moving # "checkout" => amount = 1

(* The other components stand still. *)
OthersStill ==
  /\ UNCHANGED moving
  /\ IF moving = "uiaf" THEN TRUE ELSE UNCHANGED vars
  /\ IF moving = "rights" THEN TRUE ELSE UNCHANGED rightsVars
  /\ IF moving = "checkout" THEN TRUE ELSE UNCHANGED checkoutVars

ProgressNext ==
  \/ moving = "uiaf" /\ Next /\ OthersStill
  \/ moving = "rights" /\ Rights!Next /\ OthersStill
  \/ moving = "checkout" /\ Checkout!Next /\ OthersStill

(* The fairness of each component, where it moves. *)
Fair ==
  /\ WF_vars(moving = "uiaf" /\ Start) /\ WF_vars(moving = "uiaf" /\ SaveSar)
  /\ WF_vars(moving = "uiaf" /\ RunEnds)
  /\ \A k \in Key : WF_vars(moving = "uiaf" /\ Skip(k)) /\ SF_vars(moving = "uiaf" /\ AlertAndFlag(k))
  /\ WF_rightsVars(moving = "rights" /\ Rights!MonitorStarts)
  /\ SF_rightsVars(moving = "rights" /\ Rights!Alert)
  /\ SF_rightsVars(moving = "rights" /\ Rights!Flag)
  /\ Checkout!Progress

ProgressSpec == ProgressInit /\ [][ProgressNext]_progressVars /\ Fair

(* The monitor of the terms: an open row past its term is marked in the end. *)
BreachIsFlagged == Rights!BreachIsFlagged

(* Checkout: the modal does not prepare for ever. *)
LoadingEnds == Checkout!LoadingEnds
====
