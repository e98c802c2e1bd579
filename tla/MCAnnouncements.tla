---------------------------- MODULE MCAnnouncements ----------------------------
(* A browser with two endpoints, one after the other, and two announcements; *)
(* two browsers and two IDs of the environment for the webhook's routing.    *)
EXTENDS Announcements

CONSTANTS i1, i2, o1, b1, b2, n1, n2

================================================================================
