---------------------- MODULE MCEvidenceCollection ----------------------
(* Two chains whose histories can overlap and disagree, the trades and the   *)
(* funding of the wallet, up to two security lookups, two workers.            *)
EXTENDS EvidenceCollection

Cycle(asset, entry, exit, pnl, open) ==
  [asset |-> asset, open |-> open, entry |-> entry, exit |-> exit, pnl |-> pnl,
   fees |-> 1, volume |-> 10 * asset]

Gain     == Cycle(1, 1, 2, 5, FALSE)
Restated == Cycle(1, 1, 2, 3, FALSE)     \* the same cycle with another profit
Loss     == Cycle(2, 1, 3, -4, FALSE)
Opened   == Cycle(2, 2, 3, 9, TRUE)
Outside  == Cycle(2, Null, 9, 7, FALSE)
Undated  == Cycle(1, Null, 3, -2, FALSE)

MCCycles == {Gain, Restated, Loss, Opened, Outside, Undated}
MCTrades == {[date |-> 2, total |-> 4, mev |-> 1], [date |-> 9, total |-> 4, mev |-> 4]}
MCThresholds == [id \in ClaimIds |-> IF id = "win-rate" THEN <<1, 2>> ELSE <<1, 1>>]

MCChains == <<"A", "B">>
MCPerChain == <<"history">>
MCPerWallet == <<"trades", "funding">>
MCBodies ==
  [kind \in {"history", "trades", "funding", "security"} |->
     CASE kind = "history" -> {{Gain, Loss}, {Restated, Opened, Undated}, {Loss, Outside}, {}}
       [] kind = "trades" -> {MCTrades}
       [] kind = "funding" -> {[date |-> -3], [date |-> Null]}
       [] kind = "security" -> {[score |-> 10, killed |-> FALSE, asset |-> Null],
                                  [score |-> Null, killed |-> TRUE, asset |-> Null],
                                  [score |-> 90, killed |-> TRUE, asset |-> 1]}]
==========================================================================
