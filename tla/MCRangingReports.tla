-------------------------- MODULE MCRangingReports --------------------------
(***************************************************************************)
(* Small instances of RangingReports: those of MCRangingSession.           *)
(***************************************************************************)
EXTENDS RangingReports, MCRangingSession

=============================================================================
