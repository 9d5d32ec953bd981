--------------------------- MODULE MCNotifications ---------------------------
(* Notifications on small instances.                                       *)
EXTENDS Notifications

CONSTANTS e1, s1, s2

(* Two types; the first has two subscribers, and the one before may leave. *)
TwoTypes == <<<<s1, s2>>, <<s1>>>>
=============================================================================
