------------------------- MODULE MCNotificationCenter -------------------------
(* Small instances of NotificationCenter for TLC.                          *)
EXTENDS NotificationCenter, TLC
Symmetry == Permutations(App)
\* Two notifications whose signals cross, three announced one at a time with at most
\* one closed in silence and one application read too early, or four that are records
\* by then or are all live ones of one application, for the user to close.
Few ==
  /\ Len(app) > 2 => Len(queue) <= 1 /\ Cardinality(untold) <= 1 /\ Cardinality(relisted) <= 1
  /\ Len(app) > 3 => /\ untold = {} /\ relisted = {}
                     /\ filed = Note \/ (filed = {} /\ Cardinality(AppsOf(Note)) = 1)
=============================================================================
