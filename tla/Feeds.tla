------------------------------- MODULE Feeds -------------------------------
(* The exchange clients (src/lib/coinbase.ts, binance.ts, kraken.ts, gate.ts, kucoin.ts,
   okx.ts, bybit.ts) and their start and stop in src/index.ts. A behaviour follows one client:
   `feed` says which. The clients share the life cycle

       disconnected -> connecting -> connected -> reconnecting -> connecting -> ...

   and differ in what they subscribe, how they notice a dead socket and what they record.

   Time is discrete, in units of 5 seconds; the constants of the clients are rounded up to it.
   A timer is the number of units left, Off when it is not armed. *)
EXTENDS Integers, Sequences, FiniteSets, SequencesExt, FiniteSetsExt

CONSTANTS Clients,       \* the clients under check
          Ranked,        \* the catalogue's symbols, by rank (getCatalogSymbols)
          Market,        \* the symbols the exchanges trade
          KrakenLimit,   \* getKrakenCoverage's limit
          MaxRows        \* rows of a ticker frame

Names == {"coinbase", "binance", "kraken", "krakenBbo", "gate", "kucoin", "okx", "bybit"}
Catalog == Range(Ranked)
Quotes == {"USD", "USDT", "USDC", "FDUSD", "BTC"}

ASSUME FeedsAssumption ==
    /\ Clients \subseteq Names
    /\ Ranked \in Seq(Market) /\ IsInjective(Ranked)
    /\ KrakenLimit \in Nat /\ MaxRows \in Nat

VARIABLES
    feed,      \* the client
    state,     \* its ClientState
    ws,        \* this.ws: "none", "opening", "open", "stalled" (half-open: nothing arrives, no
               \* close event comes), or "closed" (the close event is still to be handled)
    bullet,    \* kucoin: _open awaits the bullet token
    timer,     \* the armed timers
    pairs,     \* the registered coverage
    sent,      \* what was subscribed on the present socket
    attempts,  \* reconnectAttempts, up to the last entry of the backoff table
    due,       \* the exchange owes a frame within this time unit
    boot,      \* startPriceFeeds: "loading", "listing", "done"
    down,      \* shutdown has called disconnect
    stored     \* per symbol the quote of the tick last recorded for this client

vars == <<feed, state, ws, bullet, timer, pairs, sent, attempts, due, boot, down, stored>>
socket == <<state, ws, bullet, timer, sent, attempts, due>>

Off == -1
NoTimers == [alive |-> Off, ping |-> Off, pong |-> Off, retry |-> Off]

Rows == [base : Market, quote : Quotes, finite : {TRUE, FALSE}]
Frames == UNION {[1..n -> Rows] : n \in 0..MaxRows}

-----------------------------------------------------------------------------
(* What a frame makes a client record: a set of [base, quote]. A price that does not parse is
   skipped by every client. *)

UsdtTicks(rows) == {[base |-> r.base, quote |-> r.quote] :
    r \in {r \in Range(rows) : r.quote = "USDT" /\ r.base \in Catalog /\ r.finite}}

\* Coinbase takes every product it is sent: what it subscribed is its only filter.
CoinbaseTicks(rows) == {[base |-> r.base, quote |-> r.quote] : r \in {r \in Range(rows) : r.finite}}

PREFERRED_BINANCE_QUOTES == <<"USDT", "USDC", "FDUSD">>

fromBinanceSymbol(r) == r.quote \in Range(PREFERRED_BINANCE_QUOTES)

\* One tick per symbol: the best-ranked quote of the batch.
BinanceTicks(rows) ==
    LET usable == {r \in Range(rows) : fromBinanceSymbol(r) /\ r.base \in Catalog /\ r.finite}
        best(b) == CHOOSE q \in {r.quote : r \in {r \in usable : r.base = b}} :
                     \A r \in {r \in usable : r.base = b} :
                        LET rank(x) == CHOOSE i \in DOMAIN PREFERRED_BINANCE_QUOTES : PREFERRED_BINANCE_QUOTES[i] = x
                        IN  rank(q) <= rank(r.quote)
    IN  {[base |-> b, quote |-> best(b)] : b \in {r.base : r \in usable}}

KrakenTicks(rows) == {[base |-> r.base, quote |-> r.quote] :
    r \in {r \in Range(rows) : r.quote = "USD" /\ r.base \in Catalog /\ r.finite}}

GateTicks(rows) == UsdtTicks(rows)
KucoinAllTicks(rows) == CoinbaseTicks(rows)
KucoinTicks(rows) == UsdtTicks(rows)
OkxTicks(rows) == UsdtTicks(rows)
BybitTicks(rows) == UsdtTicks(rows)

\* The coverage each client is given, from the exchange's product list or, when that list could
\* not be had (empty), from the whole catalogue.
Listed(listed) == IF listed = {} THEN Catalog ELSE Catalog \cap listed
buildGateCoverage(listed) == Listed(listed)
buildOkxCoverage(listed) == Listed(listed)
buildBybitCoverage(listed) == Listed(listed)
getKrakenCoverage == {Ranked[i] : i \in 1..IF Len(Ranked) < KrakenLimit THEN Len(Ranked) ELSE KrakenLimit}

-----------------------------------------------------------------------------
(* The steps the clients have in common. *)

\* _open, for every client but kucoin.
Open == /\ state' = "connecting" /\ ws' = "opening" /\ sent' = {} /\ due' = FALSE
        /\ UNCHANGED <<bullet, attempts>>

\* kucoin's _open first awaits the token; this.ws is still the socket before.
KucoinOpen == state' = "connecting" /\ bullet' = TRUE /\ UNCHANGED <<ws, sent, due, attempts>>

OpenFeed == IF feed = "kucoin" THEN KucoinOpen ELSE Open

\* connect()
Connect == IF state \in {"connected", "connecting"}
           THEN UNCHANGED <<state, ws, bullet, timer, sent, attempts, due>>
           ELSE OpenFeed /\ UNCHANGED timer

\* _scheduleReconnect(): the last entry of the table is also its cap.
Backoff == <<1, 1, 1, 2, 4>>
ReconnectingUntimed == /\ state' = "reconnecting"
                       /\ attempts' = IF attempts = Len(Backoff) THEN attempts ELSE attempts + 1
                       /\ timer' = NoTimers
Reconnecting == /\ state' = "reconnecting"
                /\ attempts' = IF attempts = Len(Backoff) THEN attempts ELSE attempts + 1
                /\ timer' = [NoTimers EXCEPT !.retry = Backoff[attempts']]

\* _onOpen(): the state, the timers it arms and what it subscribes.
Opened(armed, subscribed, answered) ==
    /\ ws = "opening"
    /\ state' = "connected" /\ ws' = "open" /\ attempts' = 0
    /\ timer' = [timer EXCEPT !.alive = armed.alive, !.ping = armed.ping]
    /\ sent' = subscribed /\ due' = answered
    /\ UNCHANGED <<feed, bullet, pairs, boot, down, stored>>

\* _onMessage(): the timers it resets and the ticks it records. The exchange sends this client
\* what it has subscribed, or its whole market.
Heard(rearmed, rows, ticks) ==
    /\ ws = "open"
    /\ timer' = rearmed /\ due' = FALSE
    /\ stored' = [b \in Market |->
                    LET qs == {t.quote : t \in {t \in ticks : t.base = b}}
                    IN  IF qs = {} THEN stored[b] ELSE CHOOSE q \in qs : TRUE]
    /\ UNCHANGED <<feed, state, ws, bullet, pairs, sent, attempts, boot, down>>

\* _onClose(): nothing after a disconnect; else the timers go and a reconnect is scheduled.
Lost == /\ ws = "closed"
        /\ ws' = "none" /\ sent' = {} /\ due' = FALSE
        /\ IF state = "disconnected" THEN UNCHANGED <<state, attempts, timer>> ELSE Reconnecting
        /\ UNCHANGED <<feed, bullet, pairs, boot, down, stored>>

\* A liveness timer that runs out terminates the socket; its close event follows.
TimedOut(kind) ==
    /\ timer[kind] = 0
    /\ timer' = [timer EXCEPT ![kind] = Off]
    /\ ws' = IF ws \in {"opening", "open", "stalled"} THEN "closed" ELSE ws
    /\ due' = FALSE
    /\ UNCHANGED <<feed, state, bullet, pairs, sent, attempts, boot, down, stored>>

\* A ping goes out and the timer is armed with what is given; a live exchange owes an answer.
Pinged(next, pong) ==
    /\ timer.ping = 0
    /\ timer' = [timer EXCEPT !.ping = next, !.pong = pong]
    /\ due' = (due \/ (ws = "open" /\ state = "connected"))
    /\ UNCHANGED <<feed, state, ws, bullet, pairs, sent, attempts, boot, down, stored>>

Reopen == /\ timer.retry = 0
          /\ timer' = [timer EXCEPT !.retry = Off]
          /\ OpenFeed
          /\ UNCHANGED <<feed, pairs, boot, down, stored>>

\* subscribe / subscribeForCoverage: what is new goes out at once on an open connection, and
\* with the next _onOpen otherwise.
subscribeForCoverage(ps) ==
    /\ pairs' = pairs \cup ps
    /\ sent' = IF state' = "connected" THEN sent \cup (ps \ pairs) ELSE sent

-----------------------------------------------------------------------------
(* Coinbase: no ping of its own; the heartbeats channel it subscribes on open brings a frame
   every second, and a watchdog of 10 s waits for any frame. *)
CoinbaseOpened == feed = "coinbase" /\ Opened([alive |-> 2, ping |-> Off], pairs, TRUE)

CoinbaseHeard == /\ feed = "coinbase"
                 /\ \E rows \in Frames :
                      /\ \A r \in Range(rows) : r.base \in sent /\ r.quote = "USD"
                      /\ Heard([timer EXCEPT !.alive = 2], rows, CoinbaseTicks(rows))

CoinbaseLost == feed = "coinbase" /\ Lost
CoinbaseSilent == feed = "coinbase" /\ TimedOut("alive")

\* Boot: connected at once; the coverage comes when catalogue and product list are there.
CoinbaseStart == /\ feed = "coinbase" /\ boot = "listing"
                 /\ boot' = "done"
                 /\ \E listed \in SUBSET Market :
                      /\ state' = state
                      /\ subscribeForCoverage(Listed(listed))
                 /\ UNCHANGED <<feed, ws, bullet, timer, attempts, due, down, stored>>

(* Binance and Kraken: one WebSocket ping 30 s after the open, whose pong must come in 5 s. Any
   frame disarms the pong timer. The ping timer is armed by _onOpen only. *)
PingOnce == [alive |-> Off, ping |-> 6]

\* The URL selects the stream of the whole market.
BinanceOpened == feed = "binance" /\ Opened(PingOnce, Market, TRUE)
BinanceHeard == /\ feed = "binance"
                /\ \E rows \in Frames : Heard([timer EXCEPT !.pong = Off], rows, BinanceTicks(rows))
BinanceLost == feed = "binance" /\ Lost
BinancePings == feed = "binance" /\ (Pinged(Off, 1) \/ TimedOut("pong"))
BinanceStart == /\ feed = "binance" /\ boot = "listing"
                /\ boot' = "done" /\ Connect
                /\ UNCHANGED <<feed, pairs, down, stored>>

Kraken == {"kraken", "krakenBbo"}
KrakenOpenedBare == feed \in Kraken /\ Opened(PingOnce, {}, TRUE)
KrakenOpened == feed \in Kraken /\ Opened(PingOnce, pairs, TRUE)
KrakenHeard == /\ feed \in Kraken
               /\ \E rows \in Frames :
                    /\ \A r \in Range(rows) : r.base \in sent /\ r.quote = "USD"
                    /\ Heard([timer EXCEPT !.pong = Off], rows, KrakenTicks(rows))
KrakenLost == feed \in Kraken /\ Lost
KrakenPings == feed \in Kraken /\ (Pinged(Off, 1) \/ TimedOut("pong"))
KrakenStart == /\ feed \in Kraken /\ boot = "listing"
               /\ boot' = "done" /\ Connect
               /\ pairs' = pairs \cup getKrakenCoverage
               /\ UNCHANGED <<feed, down, stored>>

(* Gate and Bybit: an application ping on an interval (15 s, 20 s) and a watchdog of 30 s. *)
GateOpenedUnwatched == feed = "gate" /\ Opened([alive |-> Off, ping |-> 3], pairs, FALSE)
GateOpened == feed = "gate" /\ Opened([alive |-> 6, ping |-> 3], pairs, FALSE)
GateHeard == /\ feed = "gate"
             /\ \E rows \in Frames :
                  /\ \A r \in Range(rows) : r.base \in sent /\ r.quote = "USDT"
                  /\ Heard([timer EXCEPT !.alive = 6], rows, GateTicks(rows))
GateLost == feed = "gate" /\ Lost
GatePings == feed = "gate" /\ (Pinged(3, Off) \/ TimedOut("alive"))
GateStart == /\ feed = "gate" /\ boot = "listing"
             /\ boot' = "done" /\ Connect
             /\ \E listed \in SUBSET Market : pairs' = pairs \cup buildGateCoverage(listed)
             /\ UNCHANGED <<feed, down, stored>>

BybitOpened == feed = "bybit" /\ Opened([alive |-> 6, ping |-> 4], pairs, FALSE)
BybitHeard == /\ feed = "bybit"
              /\ \E rows \in Frames :
                   /\ \A r \in Range(rows) : r.base \in sent /\ r.quote = "USDT"
                   /\ Heard([timer EXCEPT !.alive = 6], rows, BybitTicks(rows))
BybitLost == feed = "bybit" /\ Lost
BybitPings == feed = "bybit" /\ (Pinged(4, Off) \/ TimedOut("alive"))
BybitStart == /\ feed = "bybit" /\ boot = "listing"
              /\ boot' = "done" /\ Connect
              /\ \E listed \in SUBSET Market : pairs' = pairs \cup buildBybitCoverage(listed)
              /\ UNCHANGED <<feed, down, stored>>

(* OKX: the ping goes out after 25 s without a frame, and every frame starts that time anew. *)
OkxOpened == feed = "okx" /\ Opened([alive |-> 6, ping |-> 5], pairs, FALSE)
OkxHeardOnce == /\ feed = "okx"
                /\ \E rows \in Frames :
                     /\ \A r \in Range(rows) : r.base \in sent /\ r.quote = "USDT"
                     /\ Heard([timer EXCEPT !.alive = 6], rows, OkxTicks(rows))
OkxHeard == /\ feed = "okx"
            /\ \E rows \in Frames :
                 /\ \A r \in Range(rows) : r.base \in sent /\ r.quote = "USDT"
                 /\ Heard([timer EXCEPT !.alive = 6, !.ping = 5], rows, OkxTicks(rows))
OkxLost == feed = "okx" /\ Lost
OkxPings == feed = "okx" /\ (Pinged(Off, Off) \/ TimedOut("alive"))
OkxStart == /\ feed = "okx" /\ boot = "listing"
            /\ boot' = "done" /\ Connect
            /\ \E listed \in SUBSET Market : pairs' = pairs \cup buildOkxCoverage(listed)
            /\ UNCHANGED <<feed, down, stored>>

(* KuCoin: a token is fetched before every socket; subscription and pings (every 18 s) start
   with the exchange's welcome frame. *)
KucoinBullet ==
    /\ feed = "kucoin" /\ bullet
    /\ bullet' = FALSE
    /\ \/ ws' = "opening" /\ sent' = {} /\ due' = FALSE /\ UNCHANGED <<state, timer, attempts>>
       \/ Reconnecting /\ UNCHANGED <<ws, sent, due>>
    /\ UNCHANGED <<feed, pairs, boot, down, stored>>
KucoinOpened == feed = "kucoin" /\ Opened([alive |-> 6, ping |-> timer.ping], {}, TRUE)
KucoinHeard == /\ feed = "kucoin"
               /\ IF sent = {}
                  THEN /\ ws = "open"
                       /\ sent' = Market
                       /\ timer' = [timer EXCEPT !.alive = 6, !.ping = 4]
                       /\ due' = FALSE
                       /\ UNCHANGED <<feed, state, ws, bullet, pairs, attempts, boot, down, stored>>
                  ELSE \E rows \in Frames :
                          Heard([timer EXCEPT !.alive = 6], rows, KucoinTicks(rows))
KucoinLost == feed = "kucoin" /\ Lost
KucoinPings == feed = "kucoin" /\ (Pinged(4, Off) \/ TimedOut("alive"))
KucoinStart == /\ feed = "kucoin" /\ boot = "listing"
               /\ boot' = "done" /\ Connect
               /\ UNCHANGED <<feed, pairs, down, stored>>

-----------------------------------------------------------------------------
(* The process and the world. *)

\* loadCatalogSymbols: without the catalogue no feed is started.
LoadCatalog == /\ boot = "loading"
               /\ boot' \in {"listing", "done"}
               /\ UNCHANGED <<feed, pairs, down, stored, socket>>

\* shutdown(): disconnect() clears every timer, drops the listeners and terminates the socket.
disconnectKeepingRetry ==
              /\ ~down /\ down' = TRUE
              /\ state' = "disconnected" /\ ws' = "none"
              /\ timer' = [NoTimers EXCEPT !.retry = timer.retry]
              /\ sent' = {} /\ due' = FALSE
              /\ UNCHANGED <<feed, bullet, pairs, attempts, boot, stored>>

disconnect == /\ ~down /\ down' = TRUE
              /\ state' = "disconnected" /\ ws' = "none" /\ timer' = NoTimers
              /\ sent' = {} /\ due' = FALSE
              /\ UNCHANGED <<feed, bullet, pairs, attempts, boot, stored>>

\* The exchange or the network closes the socket, or refuses it.
Close == /\ ws \in {"opening", "open", "stalled"}
         /\ ws' = "closed" /\ due' = FALSE
         /\ UNCHANGED <<feed, state, bullet, timer, pairs, sent, attempts, boot, down, stored>>

\* The connection dies without a word: no frame, no close event.
Stall == /\ ws = "open"
         /\ ws' = "stalled" /\ due' = FALSE
         /\ UNCHANGED <<feed, state, bullet, timer, pairs, sent, attempts, boot, down, stored>>

\* Five seconds pass. A timer that has run out fires first, and what a live exchange owes has
\* come. Coinbase's and Kraken's heartbeats and Binance's ticker array bring a frame per second.
Chatty == {"coinbase", "binance"} \cup Kraken
Tick == /\ ~due
        /\ \A k \in DOMAIN timer : timer[k] # 0
        /\ \E k \in DOMAIN timer : timer[k] > 0
        /\ timer' = [k \in DOMAIN timer |-> IF timer[k] = Off THEN Off ELSE timer[k] - 1]
        /\ due' = (ws = "open" /\ feed \in Chatty)
        /\ UNCHANGED <<feed, state, ws, bullet, pairs, sent, attempts, boot, down, stored>>

Init == /\ feed \in Clients
        /\ state = IF feed = "coinbase" THEN "connecting" ELSE "disconnected"
        /\ ws = IF feed = "coinbase" THEN "opening" ELSE "none"
        /\ bullet = FALSE /\ timer = NoTimers /\ pairs = {} /\ sent = {} /\ attempts = 0
        /\ due = FALSE /\ boot = "loading" /\ down = FALSE
        /\ stored = [b \in Market |-> "none"]

OnOpen == \/ CoinbaseOpened \/ BinanceOpened \/ KrakenOpened \/ GateOpened \/ KucoinOpened
          \/ OkxOpened \/ BybitOpened
OnMessage == \/ CoinbaseHeard \/ BinanceHeard \/ KrakenHeard \/ GateHeard \/ KucoinHeard
             \/ OkxHeard \/ BybitHeard
OnClose == \/ CoinbaseLost \/ BinanceLost \/ KrakenLost \/ GateLost \/ KucoinLost
           \/ OkxLost \/ BybitLost
Timers == \/ CoinbaseSilent \/ BinancePings \/ KrakenPings \/ GatePings \/ KucoinPings
          \/ OkxPings \/ BybitPings \/ Reopen
Start == \/ LoadCatalog \/ CoinbaseStart \/ BinanceStart \/ KrakenStart \/ GateStart
         \/ KucoinStart \/ OkxStart \/ BybitStart

Next == \/ OnOpen \/ OnMessage \/ OnClose \/ Timers \/ Start
        \/ KucoinBullet \/ disconnect \/ Close \/ Stall \/ Tick

Spec == Init /\ [][Next]_vars

\* Time passes and Node runs what is due. The exchange accepts a connection in the end if it
\* is asked again and again; a handshake is answered one way or the other.
FairSpec == /\ Spec
            /\ WF_vars(Tick) /\ WF_vars(Timers) /\ WF_vars(OnClose) /\ WF_vars(due /\ OnMessage)
            /\ WF_vars(ws = "opening" /\ (OnOpen \/ Close)) /\ SF_vars(OnOpen)
            /\ WF_vars(KucoinBullet) /\ SF_vars(KucoinBullet /\ ws' = "opening")

-----------------------------------------------------------------------------
(* Properties *)

\* The client's state, its timers and the socket it has.
TypeOK ==
    /\ feed \in Clients /\ boot \in {"loading", "listing", "done"}
    /\ state \in {"disconnected", "connecting", "connected", "reconnecting"}
    /\ ws \in {"none", "opening", "open", "stalled", "closed"}
    /\ bullet \in {TRUE, FALSE} /\ due \in {TRUE, FALSE} /\ down \in {TRUE, FALSE}
    /\ timer \in [alive : Off..6, ping : Off..6, pong : Off..6, retry : Off..6]
    /\ pairs \subseteq Market /\ sent \subseteq Market
    /\ attempts \in 0..Len(Backoff) /\ stored \in [Market -> Quotes \cup {"none"}]

\* Whatever the order of boot, open, coverage and reconnects, a client with a coverage list that
\* says it is connected has subscribed its whole coverage on the socket it has now: _onOpen
\* sends what was registered before, subscribeForCoverage what comes later.
ConnectedIsSubscribed ==
    (state = "connected" /\ feed \notin {"binance", "kucoin"}) => sent = pairs

\* A quiet market is no dead socket: as long as the exchange answers pings (or sends its
\* heartbeats) within a time unit, no liveness timer of any client runs out on a live socket.
HealthyIsKept == ws = "open" => timer.alive # 0 /\ timer.pong # 0

\* Shutdown's disconnect() is final for a client that boot has dealt with: no timer and no late
\* event opens a socket again. (KuCoin is left out: a token request under way is not called off
\* by disconnect(), and its answer opens one.)
DisconnectIsFinal ==
    [][(down /\ state = "disconnected" /\ boot = "done" /\ feed # "kucoin") =>
           (ws' = ws /\ state' = state)]_vars

\* What reaches the resolver is a catalogue symbol priced in dollars or a dollar stablecoin,
\* although KuCoin and Binance stream their whole market and Coinbase filters nothing.
DollarTicksOnly ==
    \A b \in Market : stored[b] # "none" => (b \in Catalog /\ stored[b] \in {"USD", "USDT", "USDC", "FDUSD"})

\* The clients with a watchdog (all but Binance and Kraken) replace a socket that has gone
\* silent without a close event.
StalledIsReplaced == (ws = "stalled" /\ feed \notin ({"binance"} \cup Kraken)) ~> ws # "stalled"

\* A lost connection is won back, unless the process is going down: _onClose, the backoff timer
\* and _open lead to an open socket when the exchange accepts one again.
Reconnects == (state = "reconnecting") ~> (state = "connected" \/ down)

\* binance.ts:3 and kraken.ts:3: the clients mirror "the Coinbase singleton resilience pattern":
\* for them too, a socket that has gone silent is replaced.
MirrorsCoinbase == (ws = "stalled") ~> (ws # "stalled")

=============================================================================
