----------------------------- MODULE MCSfsLock ------------------------------
(* Four processes: one that serves the image, and three that race for it.   *)
EXTENDS SfsLock
=============================================================================
