------------------------------ MODULE MapPage ------------------------------
(***************************************************************************)
(* The page of the map (map/map.js): the map and its villages (AreaLoader) *)
(* and the attack dialog (AttackOrders).  They meet in two places: an      *)
(* order is opened for the village selected on the map, and while the      *)
(* dialog is open, being modal, the map cannot be used; villages go on     *)
(* being loaded, and the window may get another size.                      *)
(***************************************************************************)
EXTENDS AreaLoader, AttackOrders

ASSUME TargetsAssumption == Targets = Villages \ {Home}

pageVars == <<areaVars, orderVars>>

MapPageInit == AreaInit /\ OrdersInit

(* The actions beside the selected village.  There are none for one's own. *)
Command(type) ==
  /\ selected # NoVillage /\ selected.id # Home
  /\ OpenCommand(type, selected.id)
  /\ UNCHANGED areaVars

UseMap == dialog = "closed" /\ MapInput /\ UNCHANGED orderVars

ReloadPage == ReloadMap /\ ReloadDialog

MapPageNext ==
  \/ \E type \in Commands : Command(type)
  \/ UseMap
  \/ (Loading \/ Resize) /\ UNCHANGED orderVars
  \/ (Dialog \/ Serving) /\ UNCHANGED areaVars
  \/ ReloadPage

MapPageSpec == MapPageInit /\ [][MapPageNext]_pageVars
=============================================================================
