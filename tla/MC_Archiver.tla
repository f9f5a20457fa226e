----------------------------- MODULE MC_Archiver -----------------------------
(* Five ticks over two epochs: a tick with two transactions (one       *)
(* transfer, one asset transfer), an empty tick, a tick with one        *)
(* transfer, and two ticks whose body lists no transaction.             *)
EXTENDS Archiver, TLC

CONSTANTS a, b, c, e1, e2

MCTxIds == {a, b, c}
MCEpochs == {e1, e2}
MCBody == (1 :> {a, b}) @@ (2 :> {}) @@ (3 :> {c}) @@ (4 :> {}) @@ (5 :> {})
MCEpochOf == (1 :> e1) @@ (2 :> e1) @@ (3 :> e1) @@ (4 :> e2) @@ (5 :> e2)
MCTransfers == {a, c}
MCAssetTxs == {b}
=============================================================================
