------------------------------ MODULE MCPrices ------------------------------
(* Three exchanges that may disagree, Kraken's two channels beside another exchange, one exchange
   with the bookkeeping forgotten, and the writers of the row beside one exchange. *)
EXTENDS Prices
MCMixes == {{"binance", "coinbase", "kraken"}, {"coinbase", "kraken", "kraken_bbo"},
            {"coinbase", "kraken", "evict", "restart", "cmc"},
            {"coinbase", "cmc", "row", "restart"}, {"row", "cmc", "auto"}}
=============================================================================
