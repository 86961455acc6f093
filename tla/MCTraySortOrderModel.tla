------------------------ MODULE MCTraySortOrderModel ------------------------
(* A small instance of TraySortOrderModel for TLC: what tray.qml tells of a   *)
(* plugin, of an application and of a plugin with a size of its own.          *)
EXTENDS TraySortOrderModel
CONSTANTS plugin, application, wide

Kinds ==
  [s \in Surface |->
     [prefer |-> IF s = application THEN "stashed" ELSE IF s = wide THEN "pinned" ELSE "collapsable",
      forbidden |-> IF s = wide THEN {"stashed", "fixed"} ELSE {"fixed"},
      force |-> FALSE, setting |-> s = plugin, app |-> s = application,
      quick |-> s = plugin]]

\* Three surfaces are there while the user moves them about; calls, news and the
\* quick panel meet two.  What happens after a wish was lost is left out.
UnderWay == calls # <<>> \/ \E who \in DOMAIN news : news[who] > 0
Apart ==
  /\ UnderWay \/ drag.quick => wide \notin Registered
  /\ UnderWay /\ Dragged => drag.quick
  /\ lost = {}
=============================================================================
