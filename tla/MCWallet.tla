------------------------------ MODULE MCWallet ------------------------------
(* A wallet that holds a coin, a token and one the catalog and Ankr lack: it receives the token with
   an NFT, pays the coin for more of the third in one transaction, and sends token and NFT on. *)
EXTENDS Wallet, TLC
MCTokens == <<"eth", "tkn", "new">>
MCOpening == [eth |-> 1, tkn |-> 1, new |-> 1]
MCUsd == [eth |-> 3, tkn |-> 2, new |-> 1]
Leg(kind, item, dir) == [kind |-> kind, item |-> item, dir |-> dir]
MCChain == <<<<Leg("erc20", "tkn", "in"), Leg("nft", "art", "in")>>,
             <<Leg("native", "eth", "out"), Leg("erc20", "new", "in")>>,
             <<Leg("erc20", "tkn", "out"), Leg("nft", "art", "out")>>>>
\* GoldRush lists both tokens once they were received, Moralis only the third.
Since(h, t) == [g \in Heights |-> IF g >= h THEN {t} ELSE {}]
MCPnl == [goldrush |-> [h \in Heights |-> Since(1, "tkn")[h] \cup Since(2, "new")[h]],
          moralis |-> Since(2, "new")]
MCPageSize == [p \in PROVIDERS |-> 1]
MCMixes == {{"sync", "hook", "fault"}, {"sync", "hook", "no summary"}, {"sync", "resync", "hook"},
            {"sync", "resync", "no pnl", "expiry"}, {"sync", "no summary", "no nfts"},
            {"sync", "more", "no page"}, {"sync", "more", "fault"}}
\* The instance of FlakyFetchWipesNothing (README.md, "Disagreements").
FlakyMix == {{"sync", "resync", "no pnl"}}
MCSymmetry == Permutations(Procs)
=============================================================================
