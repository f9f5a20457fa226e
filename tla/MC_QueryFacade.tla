---------------------------- MODULE MC_QueryFacade ----------------------------
(* The pipeline instance of MC_Archiver with one client of the query      *)
(* facade calling the read handlers in between.                           *)
EXTENDS QueryFacade, MC_Archiver
=============================================================================
