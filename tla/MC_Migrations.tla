---------------------------- MODULE MC_Migrations ----------------------------
(* An instance of the start-up sequence: three ticks, tick 2 empty, tick 3 *)
(* with an asset transfer and a native one.                                *)
EXTENDS Migrations, TLC

MC_Ticks == {1, 2, 3}
MC_Body == (1 :> {"a"}) @@ (2 :> {}) @@ (3 :> {"b", "c"})
=============================================================================
