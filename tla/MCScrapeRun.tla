---------------------------- MODULE MCScrapeRun ----------------------------
(* Instances of ScrapeRun for TLC.                                          *)
EXTENDS ScrapeRun

CONSTANTS r1, r2, l1
=============================================================================
