---------------------------- MODULE FeedsProofs ----------------------------
(***************************************************************************)
(* Proofs about Feeds, for any client, catalogue, market and frame: the    *)
(* life cycle of a socket and its timers, the subscriptions, and what is   *)
(* recorded. What the timers bring about in the end is left to TLC.        *)
(***************************************************************************)
EXTENDS Feeds, TLAPS

Times == Off..6
TimerSet == [alive : Times, ping : Times, pong : Times, retry : Times]

\* A socket, a token request and a backoff timer exclude one another.
Sole == /\ timer.retry # Off => state = "reconnecting" /\ ws = "none" /\ ~bullet
        /\ bullet => feed = "kucoin" /\ ws = "none"

\* The liveness timers belong to a socket that has been open.
Quiet == ws \in {"none", "opening"} => timer.alive = Off /\ timer.ping = Off /\ timer.pong = Off

\* disconnect() leaves no timer, and no socket but the one a KuCoin token request opens later.
Down == state = "disconnected" => timer = NoTimers /\ (feed # "kucoin" => ws = "none")

Live == ws \in {"open", "stalled"} => state = "connected"

\* Every client but Coinbase's waits for the boot.
NotYet == feed # "coinbase" /\ boot # "done" => state = "disconnected" /\ ws = "none" /\ ~bullet

\* On a live socket a frame is owed before a liveness timer can run out: the watchdog outlasts
\* the ping, and the ping is answered within its time unit.
Pingers == {"gate", "bybit", "okx", "kucoin"}
Watched == ws = "open" =>
    /\ feed = "coinbase" => timer.pong = Off /\ timer.alive >= 1 /\ (~due => timer.alive >= 2)
    /\ feed \in {"binance"} \cup Kraken =>
         timer.alive = Off /\ (timer.pong = Off \/ (timer.pong = 1 /\ due))
    /\ feed \in Pingers => /\ timer.pong = Off /\ timer.alive > 0 /\ timer.ping <= 5
                           /\ ~due => timer.ping >= 0 /\ timer.alive > timer.ping
    /\ feed \in {"gate", "bybit"} => timer.ping >= 0
    /\ feed = "kucoin" /\ sent # {} => timer.ping >= 0

\* Coverage comes from the catalogue, and nothing else is subscribed.
Coverage == feed \notin {"binance", "kucoin"} => pairs \subseteq Catalog /\ sent \subseteq pairs

IInv == /\ TypeOK /\ Sole /\ Quiet /\ Down /\ Live /\ NotYet /\ Watched /\ Coverage
        /\ ConnectedIsSubscribed /\ DollarTicksOnly

-----------------------------------------------------------------------------
(* Facts about the operators *)

LEMMA BackoffFacts == Len(Backoff) = 5 /\ \A i \in 1..5 : Backoff[i] \in 1..4
BY DEF Backoff

LEMMA CatalogIsTraded == Catalog \subseteq Market
BY FeedsAssumption DEF Catalog, Range

LEMMA NoTimersFields ==
    /\ NoTimers \in TimerSet
    /\ NoTimers.alive = Off /\ NoTimers.ping = Off /\ NoTimers.pong = Off /\ NoTimers.retry = Off
BY DEF NoTimers, TimerSet, Times, Off

LEMMA TypeFacts ==
    ASSUME IInv
    PROVE  /\ feed \in Names /\ feed \in Clients /\ boot \in {"loading", "listing", "done"}
           /\ state \in {"disconnected", "connecting", "connected", "reconnecting"}
           /\ ws \in {"none", "opening", "open", "stalled", "closed"}
           /\ bullet \in {TRUE, FALSE} /\ due \in {TRUE, FALSE} /\ down \in {TRUE, FALSE}
           /\ timer \in TimerSet
           /\ timer.alive \in Times /\ timer.ping \in Times /\ timer.pong \in Times /\ timer.retry \in Times
           /\ pairs \subseteq Market /\ sent \subseteq Market
           /\ attempts \in 0..5 /\ stored \in [Market -> Quotes \cup {"none"}]
BY FeedsAssumption, BackoffFacts DEF IInv, TypeOK, TimerSet, Times

\* A reconnect leaves only the backoff timer.
LEMMA ReconnectingFacts ==
    ASSUME IInv, Reconnecting
    PROVE  /\ state' = "reconnecting" /\ attempts' \in 0..5
           /\ timer' \in TimerSet /\ timer'.alive = Off /\ timer'.ping = Off /\ timer'.pong = Off
<1>1. attempts' \in 1..5  BY TypeFacts, BackoffFacts DEF Reconnecting
<1>2. Backoff[attempts'] \in Times  BY <1>1, BackoffFacts DEF Times, Off
<1> QED BY <1>1, <1>2, NoTimersFields DEF Reconnecting, NoTimers, TimerSet

-----------------------------------------------------------------------------
(* The steps the clients have in common *)

LEMMA Opened_Inv ==
    ASSUME IInv, NEW a \in Times, NEW g \in Times, NEW subscribed \in SUBSET Market, NEW answered \in BOOLEAN,
           Opened([alive |-> a, ping |-> g], subscribed, answered),
           feed \notin {"binance", "kucoin"} => subscribed = pairs,
           feed = "coinbase" => a >= 2,
           feed \in {"binance"} \cup Kraken => a = Off,
           feed \in Pingers => a = 6 /\ g <= 5 /\ (answered \/ g >= 0),
           feed \in {"gate", "bybit"} => g >= 0,
           feed = "kucoin" => subscribed = {}
    PROVE  IInv'
<1>1. /\ ws = "opening" /\ state' = "connected" /\ ws' = "open" /\ attempts' = 0
      /\ timer' = [timer EXCEPT !.alive = a, !.ping = g]
      /\ sent' = subscribed /\ due' = answered
      /\ UNCHANGED <<feed, bullet, pairs, boot, down, stored>>
    BY DEF Opened
<1>2. /\ timer' \in TimerSet /\ timer'.alive = a /\ timer'.ping = g
      /\ timer'.pong = timer.pong /\ timer'.retry = timer.retry
    <2>1. timer \in TimerSet  BY TypeFacts
    <2>2. timer' = [timer EXCEPT !.alive = a, !.ping = g]  BY <1>1
    <2>3. timer' = [alive |-> a, ping |-> g, pong |-> timer.pong, retry |-> timer.retry]
        BY <2>1, <2>2 DEF TimerSet
    <2> QED BY <2>1, <2>3 DEF TimerSet
<1>3. timer.pong = Off /\ timer.retry = Off /\ ~bullet
    BY <1>1 DEF IInv, Quiet, Sole
<1>4. TypeOK'
    <2>1. attempts' \in 0..Len(Backoff)  BY <1>1, BackoffFacts
    <2> QED BY <1>1, <1>2, <2>1 DEF IInv, TypeOK, TimerSet, Times
<1>5. Sole' /\ Quiet' /\ Down' /\ Live'
    BY <1>1, <1>2, <1>3 DEF Sole, Quiet, Down, Live
<1>6. NotYet'
    BY <1>1 DEF IInv, NotYet
<1>7. Watched'
    BY <1>1, <1>2, <1>3 DEF Watched, Times, Off
<1>8. Coverage' /\ ConnectedIsSubscribed' /\ DollarTicksOnly'
    BY <1>1 DEF IInv, Coverage, ConnectedIsSubscribed, DollarTicksOnly
<1> QED BY <1>4, <1>5, <1>6, <1>7, <1>8 DEF IInv

\* What a frame records is in dollars and in the catalogue.
Dollars(ticks) == \A t \in ticks : t.base \in Catalog /\ t.quote \in {"USD", "USDT", "USDC", "FDUSD"}

LEMMA Recorded ==
    ASSUME IInv, NEW rearmed, NEW rows, NEW ticks, Heard(rearmed, rows, ticks), Dollars(ticks)
    PROVE  stored' \in [Market -> Quotes \cup {"none"}] /\ DollarTicksOnly'
<1> DEFINE qs(b) == {t.quote : t \in {t \in ticks : t.base = b}}
<1>1. stored' = [b \in Market |-> IF qs(b) = {} THEN stored[b] ELSE CHOOSE q \in qs(b) : TRUE]
    BY DEF Heard
<1>2. ASSUME NEW b \in Market
      PROVE  /\ stored'[b] \in Quotes \cup {"none"}
             /\ stored'[b] # "none" => (b \in Catalog /\ stored'[b] \in {"USD", "USDT", "USDC", "FDUSD"})
    <2>1. CASE qs(b) = {}
        <3>1. stored'[b] = stored[b]  BY <1>1, <2>1
        <3> QED BY <3>1, TypeFacts DEF IInv, DollarTicksOnly
    <2>2. CASE qs(b) # {}
        <3>1. stored'[b] = CHOOSE q \in qs(b) : TRUE  BY <1>1, <2>2
        <3>2. stored'[b] \in qs(b)  BY <2>2, <3>1
        <3>3. PICK t \in ticks : t.base = b /\ t.quote = stored'[b]  BY <3>2
        <3> QED BY <3>3 DEF Dollars, Quotes
    <2> QED BY <2>1, <2>2
<1>3. DOMAIN stored' = Market  BY <1>1
<1>4. stored' \in [Market -> Quotes \cup {"none"}]
    <2> HIDE DEF qs
    <2> QED BY <1>1, <1>2
<1> QED BY <1>2, <1>4 DEF DollarTicksOnly

LEMMA Heard_Inv ==
    ASSUME IInv, NEW rearmed \in TimerSet, NEW rows, NEW ticks, Heard(rearmed, rows, ticks), Dollars(ticks),
           rearmed.retry = timer.retry,
           feed = "coinbase" => rearmed.pong = timer.pong /\ rearmed.alive = 2,
           feed \in {"binance"} \cup Kraken => rearmed.alive = timer.alive /\ rearmed.pong = Off,
           feed \in Pingers => rearmed.alive = 6 /\ rearmed.pong = timer.pong,
           feed \in {"gate", "bybit", "kucoin"} => rearmed.ping = timer.ping,
           feed = "okx" => rearmed.ping = 5, feed = "kucoin" => sent # {}
    PROVE  IInv'
<1>1. /\ ws = "open" /\ timer' = rearmed /\ due' = FALSE
      /\ UNCHANGED <<feed, state, ws, bullet, pairs, sent, attempts, boot, down>>
    BY DEF Heard
<1>2. stored' \in [Market -> Quotes \cup {"none"}] /\ DollarTicksOnly'
    BY Recorded
<1>3. TypeOK'
    BY <1>1, <1>2 DEF IInv, TypeOK, TimerSet, Times
<1>4. Sole' /\ Quiet' /\ Live' /\ NotYet' /\ Coverage' /\ ConnectedIsSubscribed'
    BY <1>1 DEF IInv, Sole, Quiet, Live, NotYet, Coverage, ConnectedIsSubscribed
<1>5. Down'
    BY <1>1 DEF IInv, Down, Live
<1>6. Watched'
    <2>1. CASE feed = "coinbase"
        BY <1>1, <2>1 DEF IInv, Watched, Pingers, Kraken
    <2>2. CASE feed \in {"binance"} \cup Kraken
        BY <1>1, <2>2 DEF IInv, Watched, Pingers, Kraken
    <2>3. CASE feed \in Pingers
        <3>1. /\ timer'.pong = Off /\ timer'.alive = 6 /\ timer'.ping \in 0..5
            <4>1. timer.pong = Off /\ timer.ping <= 5 /\ (feed # "okx" => timer.ping >= 0)
                BY <1>1, <2>3, TypeFacts DEF IInv, Watched, Pingers
            <4>2. timer'.ping \in Times  BY <1>1 DEF TimerSet
            <4> QED BY <1>1, <2>3, <4>1, <4>2 DEF Pingers, Times, Off
        <3> QED BY <1>1, <2>3, <3>1 DEF Watched, Pingers, Kraken
    <2> QED BY <2>1, <2>2, <2>3, TypeFacts DEF Names, Pingers, Kraken
<1> QED BY <1>2, <1>3, <1>4, <1>5, <1>6 DEF IInv

LEMMA Lost_Inv ==
    ASSUME IInv, Lost
    PROVE  IInv'
<1>1. /\ ws = "closed" /\ ws' = "none" /\ sent' = {} /\ due' = FALSE
      /\ UNCHANGED <<feed, bullet, pairs, boot, down, stored>> /\ ~bullet
    BY DEF Lost, IInv, Sole
<1>2. DollarTicksOnly' /\ Live' /\ Watched'
    BY <1>1 DEF IInv, DollarTicksOnly, Live, Watched
<1>3. boot = "done" \/ feed = "coinbase"  BY <1>1, TypeFacts DEF IInv, NotYet
<1>4. CASE state = "disconnected"
    <2>1. UNCHANGED <<state, attempts, timer>>  BY <1>4 DEF Lost
    <2>2. timer = NoTimers  BY <1>4 DEF IInv, Down
    <2>3. TypeOK'  BY <1>1, <2>1 DEF IInv, TypeOK
    <2>4. Sole' /\ Quiet' /\ Down' /\ NotYet' /\ Coverage' /\ ConnectedIsSubscribed'
        BY <1>1, <1>3, <1>4, <2>1, <2>2, NoTimersFields
        DEF IInv, Sole, Quiet, Down, NotYet, Coverage, ConnectedIsSubscribed
    <2> QED BY <1>2, <2>3, <2>4 DEF IInv
<1>5. CASE state # "disconnected"
    <2>1. Reconnecting  BY <1>5 DEF Lost
    <2>2. TypeOK'
        BY <1>1, <2>1, ReconnectingFacts, BackoffFacts DEF IInv, TypeOK, TimerSet, Times
    <2>3. Sole' /\ Quiet' /\ Down' /\ NotYet' /\ Coverage' /\ ConnectedIsSubscribed'
        BY <1>1, <1>3, <2>1, ReconnectingFacts
        DEF IInv, Sole, Quiet, Down, NotYet, Coverage, ConnectedIsSubscribed
    <2> QED BY <1>2, <2>2, <2>3 DEF IInv
<1> QED BY <1>4, <1>5

LEMMA TimedOut_Inv ==
    ASSUME IInv, NEW kind \in {"alive", "pong"}, TimedOut(kind)
    PROVE  IInv'
<1>1. /\ timer[kind] = 0 /\ timer' = [timer EXCEPT ![kind] = Off]
      /\ ws' = IF ws \in {"opening", "open", "stalled"} THEN "closed" ELSE ws
      /\ due' = FALSE
      /\ UNCHANGED <<feed, state, bullet, pairs, sent, attempts, boot, down, stored>>
    BY DEF TimedOut
<1>2. /\ timer' \in TimerSet /\ timer'.retry = timer.retry /\ timer'.ping = timer.ping
      /\ timer'.alive \in {timer.alive, Off} /\ timer'.pong \in {timer.pong, Off}
      /\ timer.alive = 0 \/ timer.pong = 0
    <2>0. timer \in TimerSet /\ Off \in Times  BY TypeFacts DEF Times, Off
    <2>1. CASE kind = "alive"
        <3>1. timer' = [timer EXCEPT !.alive = Off] /\ timer.alive = 0  BY <1>1, <2>1
        <3> QED BY <2>0, <3>1 DEF TimerSet
    <2>2. CASE kind = "pong"
        <3>1. timer' = [timer EXCEPT !.pong = Off] /\ timer.pong = 0  BY <1>1, <2>2
        <3> QED BY <2>0, <3>1 DEF TimerSet
    <2> QED BY <2>1, <2>2
<1>3. ws \notin {"none", "opening"} /\ state # "disconnected"
    BY <1>2, NoTimersFields DEF IInv, Quiet, Down, Off
<1>4. TypeOK'
    BY <1>1, <1>2, TypeFacts DEF IInv, TypeOK, TimerSet, Times
<1>5. Sole' /\ Quiet' /\ Down' /\ Live' /\ NotYet' /\ Watched'
    BY <1>1, <1>2, <1>3, TypeFacts DEF IInv, Sole, Quiet, Down, Live, NotYet, Watched
<1>6. Coverage' /\ ConnectedIsSubscribed' /\ DollarTicksOnly'
    BY <1>1 DEF IInv, Coverage, ConnectedIsSubscribed, DollarTicksOnly
<1> QED BY <1>4, <1>5, <1>6 DEF IInv

LEMMA Pinged_Inv ==
    ASSUME IInv, NEW next \in Times, NEW pong \in Times, Pinged(next, pong),
           feed # "coinbase",
           feed \in {"binance"} \cup Kraken => pong = 1,
           feed \in Pingers => pong = Off /\ next <= 5,
           feed \in {"gate", "bybit", "kucoin"} => next >= 0
    PROVE  IInv'
<1>1. /\ timer.ping = 0 /\ timer' = [timer EXCEPT !.ping = next, !.pong = pong]
      /\ due' = (due \/ (ws = "open" /\ state = "connected"))
      /\ UNCHANGED <<feed, state, ws, bullet, pairs, sent, attempts, boot, down, stored>>
    BY DEF Pinged
<1>2. /\ timer' \in TimerSet /\ timer'.ping = next /\ timer'.pong = pong
      /\ timer'.alive = timer.alive /\ timer'.retry = timer.retry
    <2>1. timer \in TimerSet  BY TypeFacts
    <2>2. timer' = [timer EXCEPT !.ping = next, !.pong = pong]  BY <1>1
    <2>3. timer' = [alive |-> timer.alive, ping |-> next, pong |-> pong, retry |-> timer.retry]
        BY <2>1, <2>2 DEF TimerSet
    <2> QED BY <2>1, <2>3 DEF TimerSet
<1>3. ws \notin {"none", "opening"} /\ state # "disconnected"
    BY <1>1, NoTimersFields DEF IInv, Quiet, Down, Off
<1>4. due' \in {TRUE, FALSE} /\ (ws = "open" => due')
    BY <1>1, TypeFacts DEF IInv, Live
<1>5. TypeOK'
    BY <1>1, <1>2, <1>4, TypeFacts DEF IInv, TypeOK, TimerSet, Times
<1>6. Sole' /\ Quiet' /\ Down' /\ Live' /\ NotYet'
    BY <1>1, <1>2, <1>3, TypeFacts DEF IInv, Sole, Quiet, Down, Live, NotYet
<1>7. Watched'
    <2> SUFFICES ASSUME ws' = "open" PROVE Watched'
        BY DEF Watched
    <2>0. ws = "open" /\ due'  BY <1>1, <1>4
    <2>2. CASE feed \in {"binance"} \cup Kraken
        BY <1>1, <1>2, <2>0, <2>2 DEF IInv, Watched, Pingers, Kraken
    <2>3. CASE feed \in Pingers
        BY <1>1, <1>2, <2>0, <2>3 DEF IInv, Watched, Pingers, Kraken
    <2> QED BY <2>2, <2>3, TypeFacts DEF Names, Pingers, Kraken
<1>8. Coverage' /\ ConnectedIsSubscribed' /\ DollarTicksOnly'
    BY <1>1 DEF IInv, Coverage, ConnectedIsSubscribed, DollarTicksOnly
<1> QED BY <1>5, <1>6, <1>7, <1>8 DEF IInv

\* A socket is opened, or for KuCoin a token is asked for, with no socket, token request or timer.
LEMMA OpenFeed_Inv ==
    ASSUME IInv, OpenFeed, UNCHANGED <<feed, down, stored>>,
           ws = "none", ~bullet, timer' \in TimerSet,
           timer'.alive = Off, timer'.ping = Off, timer'.pong = Off, timer'.retry = Off,
           pairs \subseteq pairs', pairs' \subseteq Market,
           feed \notin {"binance", "kucoin"} => pairs' \subseteq Catalog,
           boot' = "done" \/ (feed = "coinbase" /\ boot' = boot)
    PROVE  IInv'
<1>1. CASE feed = "kucoin"
    <2>1. state' = "connecting" /\ bullet' = TRUE /\ UNCHANGED <<ws, sent, due, attempts>>
        BY <1>1 DEF OpenFeed, KucoinOpen
    <2>2. TypeOK'  BY <2>1, TypeFacts DEF IInv, TypeOK, TimerSet, Times
    <2>3. Sole' /\ Quiet' /\ Down' /\ Live' /\ NotYet' /\ Watched'
        BY <1>1, <2>1 DEF Sole, Quiet, Down, Live, NotYet, Watched
    <2>4. Coverage' /\ ConnectedIsSubscribed' /\ DollarTicksOnly'
        BY <1>1, <2>1 DEF IInv, Coverage, ConnectedIsSubscribed, DollarTicksOnly
    <2> QED BY <2>2, <2>3, <2>4 DEF IInv
<1>2. CASE feed # "kucoin"
    <2>1. /\ state' = "connecting" /\ ws' = "opening" /\ sent' = {} /\ due' = FALSE
          /\ UNCHANGED <<bullet, attempts>>
        BY <1>2 DEF OpenFeed, Open
    <2>2. TypeOK'  BY <2>1, TypeFacts DEF IInv, TypeOK, TimerSet, Times
    <2>3. Sole' /\ Quiet' /\ Down' /\ Live' /\ NotYet' /\ Watched'
        BY <1>2, <2>1 DEF Sole, Quiet, Down, Live, NotYet, Watched
    <2>4. Coverage' /\ ConnectedIsSubscribed' /\ DollarTicksOnly'
        BY <1>2, <2>1 DEF IInv, Coverage, ConnectedIsSubscribed, DollarTicksOnly
    <2> QED BY <2>2, <2>3, <2>4 DEF IInv
<1> QED BY <1>1, <1>2

LEMMA Reopen_Inv ==
    ASSUME IInv, Reopen
    PROVE  IInv'
<1>1. /\ timer.retry = 0 /\ timer' = [timer EXCEPT !.retry = Off] /\ OpenFeed
      /\ UNCHANGED <<feed, pairs, boot, down, stored>>
    BY DEF Reopen
<1>2. state = "reconnecting" /\ ws = "none" /\ ~bullet  BY <1>1 DEF IInv, Sole, Off
<1>3. timer.alive = Off /\ timer.ping = Off /\ timer.pong = Off  BY <1>2 DEF IInv, Quiet
<1>4. /\ timer' \in TimerSet /\ timer'.alive = Off /\ timer'.ping = Off /\ timer'.pong = Off
      /\ timer'.retry = Off
    BY <1>1, <1>3, TypeFacts, Off \in Times DEF TimerSet, Times, Off
<1>5. boot = "done" \/ feed = "coinbase"  BY <1>2 DEF IInv, NotYet
<1>6. /\ pairs \subseteq pairs' /\ pairs' \subseteq Market
      /\ feed \notin {"binance", "kucoin"} => pairs' \subseteq Catalog
    BY <1>1, TypeFacts DEF IInv, Coverage
<1> QED BY <1>1, <1>2, <1>4, <1>5, <1>6, OpenFeed_Inv

\* Boot starts a client that has waited for it.
LEMMA Start_Inv ==
    ASSUME IInv, feed # "coinbase", boot = "listing", boot' = "done", Connect,
           UNCHANGED <<feed, down, stored>>,
           pairs \subseteq pairs', pairs' \subseteq Market,
           feed \notin {"binance", "kucoin"} => pairs' \subseteq Catalog
    PROVE  IInv'
<1>1. state = "disconnected" /\ ws = "none" /\ ~bullet  BY DEF IInv, NotYet
<1>2. timer = NoTimers  BY <1>1 DEF IInv, Down
<1>3. OpenFeed /\ timer' = timer  BY <1>1 DEF Connect
<1> QED BY <1>1, <1>2, <1>3, NoTimersFields, OpenFeed_Inv

-----------------------------------------------------------------------------
(* What a frame makes a client record *)

LEMMA FrameRows ==
    ASSUME NEW rows \in Frames, NEW r \in Range(rows)
    PROVE  r \in Rows
<1>1. PICK n \in 0..MaxRows : rows \in [1..n -> Rows]  BY DEF Frames
<1> QED BY <1>1 DEF Range

LEMMA UsdtDollars ==
    ASSUME NEW rows
    PROVE  Dollars(UsdtTicks(rows))
BY DEF Dollars, UsdtTicks

LEMMA KrakenDollars ==
    ASSUME NEW rows
    PROVE  Dollars(KrakenTicks(rows))
BY DEF Dollars, KrakenTicks

\* Coinbase's only filter is what it subscribed.
LEMMA CoinbaseDollars ==
    ASSUME NEW rows, \A r \in Range(rows) : r.base \in Catalog /\ r.quote = "USD"
    PROVE  Dollars(CoinbaseTicks(rows))
BY DEF Dollars, CoinbaseTicks

\* The best-ranked quote of a symbol is one of those that the ranking knows.
LEMMA BinanceDollars ==
    ASSUME NEW rows
    PROVE  Dollars(BinanceTicks(rows))
<1> DEFINE usable == {r \in Range(rows) : fromBinanceSymbol(r) /\ r.base \in Catalog /\ r.finite}
           of(b) == {r \in usable : r.base = b}
           rank(x) == CHOOSE i \in DOMAIN PREFERRED_BINANCE_QUOTES : PREFERRED_BINANCE_QUOTES[i] = x
           quotes(b) == {r.quote : r \in of(b)}
           best(b) == CHOOSE q \in quotes(b) : \A r \in of(b) : rank(q) <= rank(r.quote)
<1>0. DOMAIN PREFERRED_BINANCE_QUOTES = 1..3  BY DEF PREFERRED_BINANCE_QUOTES
<1>1. BinanceTicks(rows) = {[base |-> b, quote |-> best(b)] : b \in {r.base : r \in usable}}
    BY DEF BinanceTicks
<1>2. \A r \in usable : r.base \in Catalog /\ r.quote \in {"USDT", "USDC", "FDUSD"}
    BY <1>0 DEF fromBinanceSymbol, PREFERRED_BINANCE_QUOTES, Range
<1>3. rank("USDT") = 1 /\ rank("USDC") = 2 /\ rank("FDUSD") = 3
    BY <1>0 DEF PREFERRED_BINANCE_QUOTES
<1>4. ASSUME NEW s \in usable
      PROVE  best(s.base) \in {"USDT", "USDC", "FDUSD"}
    <2> DEFINE b == s.base
    <2>1. quotes(b) \subseteq {"USDT", "USDC", "FDUSD"} /\ s.quote \in quotes(b)  BY <1>2
    <2>2. \E q \in quotes(b) : \A r \in of(b) : rank(q) <= rank(r.quote)
        <3>1. \A r \in of(b) : r.quote \in quotes(b) /\ r.quote \in {"USDT", "USDC", "FDUSD"}  BY <1>2
        <3>2. CASE "USDT" \in quotes(b)
            <4> HIDE DEF rank, of, quotes
            <4> QED BY <1>3, <3>1, <3>2
        <3>3. CASE "USDT" \notin quotes(b) /\ "USDC" \in quotes(b)
            <4> HIDE DEF rank, of, quotes
            <4> QED BY <1>3, <3>1, <3>3
        <3>4. CASE "USDT" \notin quotes(b) /\ "USDC" \notin quotes(b)
            <4>1. s.quote = "FDUSD" /\ \A r \in of(b) : r.quote = "FDUSD"
                <5> HIDE DEF rank, of, quotes
                <5> QED BY <2>1, <3>1, <3>4
            <4>2. \A r \in of(b) : rank("FDUSD") <= rank(r.quote)
                <5> HIDE DEF rank, of, quotes
                <5> QED BY <4>1, <1>3
            <4> QED BY <4>1, <4>2, <2>1
        <3> QED BY <3>2, <3>3, <3>4
    <2>3. best(b) \in quotes(b)
        <3> HIDE DEF rank, of, quotes
        <3> QED BY <2>2
    <2> QED BY <2>1, <2>3
<1>5. ASSUME NEW t \in BinanceTicks(rows)
      PROVE  t.base \in Catalog /\ t.quote \in {"USD", "USDT", "USDC", "FDUSD"}
    <2> HIDE DEF best
    <2>1. PICK b \in {r.base : r \in usable} : t = [base |-> b, quote |-> best(b)]  BY <1>1
    <2>2. PICK s \in usable : b = s.base  BY <2>1
    <2> QED BY <2>1, <2>2, <1>2, <1>4
<1> QED BY <1>5 DEF Dollars

LEMMA CoverageFacts ==
    /\ \A listed \in SUBSET Market : Listed(listed) \subseteq Catalog
    /\ getKrakenCoverage \subseteq Catalog
<1>1. Len(Ranked) \in Nat /\ DOMAIN Ranked = 1..Len(Ranked) /\ KrakenLimit \in Nat  BY FeedsAssumption
<1>2. getKrakenCoverage \subseteq Catalog  BY <1>1 DEF getKrakenCoverage, Catalog, Range
<1> QED BY <1>2 DEF Listed

-----------------------------------------------------------------------------
(* The clients *)

LEMMA OnOpen_Inv ==
    ASSUME IInv, OnOpen
    PROVE  IInv'
<1>0. /\ Off \in Times /\ 2 \in Times /\ 3 \in Times /\ 4 \in Times /\ 5 \in Times /\ 6 \in Times
      /\ Off = -1 /\ pairs \in SUBSET Market /\ {} \in SUBSET Market /\ Market \in SUBSET Market
      /\ timer.ping \in Times
    BY TypeFacts DEF Times, Off
<1>1. CASE CoinbaseOpened
    <2>1. feed = "coinbase" /\ Opened([alive |-> 2, ping |-> Off], pairs, TRUE)
        BY <1>1 DEF CoinbaseOpened
    <2>2. PICK a \in Times, g \in Times : a = 2 /\ g = Off  BY <1>0
    <2>3. Opened([alive |-> a, ping |-> g], pairs, TRUE)  BY <2>1, <2>2
    <2>5. a >= 2  BY <2>2
    <2>4. feed \notin {"binance", "kucoin", "gate", "bybit"} \cup Kraken \cup Pingers
        BY <2>1 DEF Pingers, Kraken
    <2> QED BY <1>0, <2>1, <2>3, <2>4, <2>5, Opened_Inv
<1>2. CASE BinanceOpened
    <2>1. feed = "binance" /\ Opened([alive |-> Off, ping |-> 6], Market, TRUE)
        BY <1>2 DEF BinanceOpened, PingOnce
    <2> QED BY <1>0, <2>1, Opened_Inv DEF Pingers, Kraken
<1>3. CASE KrakenOpened
    <2>1. feed \in Kraken /\ Opened([alive |-> Off, ping |-> 6], pairs, TRUE)
        BY <1>3 DEF KrakenOpened, PingOnce
    <2> QED BY <1>0, <2>1, Opened_Inv DEF Pingers, Kraken
<1>4. CASE GateOpened
    <2>1. feed = "gate" /\ Opened([alive |-> 6, ping |-> 3], pairs, FALSE)
        BY <1>4 DEF GateOpened
    <2>2. PICK a \in Times, g \in Times : a = 6 /\ g = 3  BY <1>0
    <2>3. Opened([alive |-> a, ping |-> g], pairs, FALSE)  BY <2>1, <2>2
    <2>5. a = 6 /\ g <= 5 /\ g >= 0  BY <2>2
    <2>4. feed \notin {"binance", "kucoin", "coinbase"} \cup Kraken  BY <2>1 DEF Kraken
    <2> QED BY <1>0, <2>1, <2>3, <2>4, <2>5, Opened_Inv
<1>5. CASE KucoinOpened
    <2>1. feed = "kucoin" /\ Opened([alive |-> 6, ping |-> timer.ping], {}, TRUE)
        BY <1>5 DEF KucoinOpened
    <2>2. timer.ping = Off  BY <2>1 DEF Opened, IInv, Quiet
    <2>3. timer.ping <= 5  BY <2>2, <1>0
    <2> QED BY <1>0, <2>1, <2>3, Opened_Inv DEF Pingers, Kraken
<1>6. CASE OkxOpened
    <2>1. feed = "okx" /\ Opened([alive |-> 6, ping |-> 5], pairs, FALSE)
        BY <1>6 DEF OkxOpened
    <2>2. PICK a \in Times, g \in Times : a = 6 /\ g = 5  BY <1>0
    <2>3. Opened([alive |-> a, ping |-> g], pairs, FALSE)  BY <2>1, <2>2
    <2>5. a = 6 /\ g <= 5 /\ g >= 0  BY <2>2
    <2>4. feed \notin {"binance", "kucoin", "coinbase"} \cup Kraken  BY <2>1 DEF Kraken
    <2> QED BY <1>0, <2>1, <2>3, <2>4, <2>5, Opened_Inv
<1>7. CASE BybitOpened
    <2>1. feed = "bybit" /\ Opened([alive |-> 6, ping |-> 4], pairs, FALSE)
        BY <1>7 DEF BybitOpened
    <2>2. PICK a \in Times, g \in Times : a = 6 /\ g = 4  BY <1>0
    <2>3. Opened([alive |-> a, ping |-> g], pairs, FALSE)  BY <2>1, <2>2
    <2>5. a = 6 /\ g <= 5 /\ g >= 0  BY <2>2
    <2>4. feed \notin {"binance", "kucoin", "coinbase"} \cup Kraken  BY <2>1 DEF Kraken
    <2> QED BY <1>0, <2>1, <2>3, <2>4, <2>5, Opened_Inv
<1> QED BY <1>1, <1>2, <1>3, <1>4, <1>5, <1>6, <1>7 DEF OnOpen

\* The timers after a frame that rearms one of them.
LEMMA Rearmed ==
    ASSUME IInv, NEW n \in Times
    PROVE  /\ \A t : t = [timer EXCEPT !.alive = n] =>
                /\ t \in TimerSet /\ t.alive = n
                /\ t.ping = timer.ping /\ t.pong = timer.pong /\ t.retry = timer.retry
           /\ \A t : t = [timer EXCEPT !.pong = n] =>
                /\ t \in TimerSet /\ t.pong = n
                /\ t.ping = timer.ping /\ t.alive = timer.alive /\ t.retry = timer.retry
BY TypeFacts DEF TimerSet

LEMMA OnMessage_Inv ==
    ASSUME IInv, OnMessage
    PROVE  IInv'
<1>0. Off \in Times /\ 2 \in Times /\ 4 \in Times /\ 5 \in Times /\ 6 \in Times  BY DEF Times, Off
<1>1. CASE CoinbaseHeard
    <2>1. PICK rows \in Frames :
            /\ \A r \in Range(rows) : r.base \in sent /\ r.quote = "USD"
            /\ Heard([timer EXCEPT !.alive = 2], rows, CoinbaseTicks(rows))
        BY <1>1 DEF CoinbaseHeard
    <2>2. feed = "coinbase"  BY <1>1 DEF CoinbaseHeard
    <2>3. \A r \in Range(rows) : r.base \in Catalog /\ r.quote = "USD"
        BY <2>1, <2>2 DEF IInv, Coverage
    <2>4. PICK t : t = [timer EXCEPT !.alive = 2]  OBVIOUS
    <2>5. t \in TimerSet /\ t.alive = 2 /\ t.pong = timer.pong /\ t.retry = timer.retry
        BY <1>0, <2>4, Rearmed
    <2>6. Heard(t, rows, CoinbaseTicks(rows))  BY <2>1, <2>4
    <2>7. feed \notin {"binance", "gate", "bybit", "kucoin", "okx"} \cup Kraken \cup Pingers
        BY <2>2 DEF Kraken, Pingers
    <2> QED BY <2>2, <2>3, <2>5, <2>6, <2>7, CoinbaseDollars, Heard_Inv
<1>2. CASE BinanceHeard
    <2>1. PICK rows \in Frames : Heard([timer EXCEPT !.pong = Off], rows, BinanceTicks(rows))
        BY <1>2 DEF BinanceHeard
    <2>2. feed = "binance"  BY <1>2 DEF BinanceHeard
    <2>4. PICK t : t = [timer EXCEPT !.pong = Off]  OBVIOUS
    <2>5. t \in TimerSet /\ t.pong = Off /\ t.alive = timer.alive /\ t.retry = timer.retry
        BY <1>0, <2>4, Rearmed
    <2>6. Heard(t, rows, BinanceTicks(rows))  BY <2>1, <2>4
    <2>7. feed \notin {"coinbase", "gate", "bybit", "kucoin", "okx"} \cup Pingers
        BY <2>2 DEF Pingers
    <2> QED BY <2>2, <2>5, <2>6, <2>7, BinanceDollars, Heard_Inv
<1>3. CASE KrakenHeard
    <2>1. PICK rows \in Frames : Heard([timer EXCEPT !.pong = Off], rows, KrakenTicks(rows))
        BY <1>3 DEF KrakenHeard
    <2>2. feed \in Kraken  BY <1>3 DEF KrakenHeard
    <2>4. PICK t : t = [timer EXCEPT !.pong = Off]  OBVIOUS
    <2>5. t \in TimerSet /\ t.pong = Off /\ t.alive = timer.alive /\ t.retry = timer.retry
        BY <1>0, <2>4, Rearmed
    <2>6. Heard(t, rows, KrakenTicks(rows))  BY <2>1, <2>4
    <2>7. feed \notin {"coinbase", "gate", "bybit", "kucoin", "okx"} \cup Pingers
        BY <2>2 DEF Pingers, Kraken
    <2> QED BY <2>2, <2>5, <2>6, <2>7, KrakenDollars, Heard_Inv
<1>4. CASE GateHeard \/ BybitHeard
    <2>1. PICK rows \in Frames : Heard([timer EXCEPT !.alive = 6], rows, UsdtTicks(rows))
        BY <1>4 DEF GateHeard, BybitHeard, GateTicks, BybitTicks
    <2>2. feed \in {"gate", "bybit"}  BY <1>4 DEF GateHeard, BybitHeard
    <2>4. PICK t : t = [timer EXCEPT !.alive = 6]  OBVIOUS
    <2>5. /\ t \in TimerSet /\ t.alive = 6 /\ t.pong = timer.pong /\ t.retry = timer.retry
          /\ t.ping = timer.ping
        BY <1>0, <2>4, Rearmed
    <2>6. Heard(t, rows, UsdtTicks(rows))  BY <2>1, <2>4
    <2>7. feed \notin {"coinbase", "binance", "kucoin", "okx"} \cup Kraken
        BY <2>2 DEF Kraken
    <2> QED BY <2>2, <2>5, <2>6, <2>7, UsdtDollars, Heard_Inv
<1>5. CASE OkxHeard
    <2>1. PICK rows \in Frames : Heard([timer EXCEPT !.alive = 6, !.ping = 5], rows, UsdtTicks(rows))
        BY <1>5 DEF OkxHeard, OkxTicks
    <2>2. feed = "okx"  BY <1>5 DEF OkxHeard
    <2>4. PICK t : t = [timer EXCEPT !.alive = 6, !.ping = 5]  OBVIOUS
    <2>5. /\ t \in TimerSet /\ t.alive = 6 /\ t.pong = timer.pong /\ t.retry = timer.retry
          /\ t.ping = 5
        <3>1. PICK n \in Times, m \in Times : n = 6 /\ m = 5  BY <1>0
        <3>2. t = [timer EXCEPT !.alive = n, !.ping = m]  BY <2>4, <3>1
        <3>3. timer \in TimerSet  BY TypeFacts
        <3>4. t = [alive |-> n, ping |-> m, pong |-> timer.pong, retry |-> timer.retry]
            BY <3>2, <3>3 DEF TimerSet
        <3>5. /\ t \in TimerSet /\ t.alive = n /\ t.ping = m
              /\ t.pong = timer.pong /\ t.retry = timer.retry
            BY <3>3, <3>4 DEF TimerSet
        <3> QED BY <3>1, <3>5
    <2>6. Heard(t, rows, UsdtTicks(rows))  BY <2>1, <2>4
    <2>7. feed \notin {"coinbase", "binance", "kucoin", "gate", "bybit"} \cup Kraken
        BY <2>2 DEF Kraken
    <2> QED BY <2>2, <2>5, <2>6, <2>7, UsdtDollars, Heard_Inv
<1>6. CASE KucoinHeard /\ sent # {}
    <2>1. PICK rows \in Frames : Heard([timer EXCEPT !.alive = 6], rows, UsdtTicks(rows))
        BY <1>6 DEF KucoinHeard, KucoinTicks
    <2>2. feed = "kucoin"  BY <1>6 DEF KucoinHeard
    <2>4. PICK t : t = [timer EXCEPT !.alive = 6]  OBVIOUS
    <2>5. /\ t \in TimerSet /\ t.alive = 6 /\ t.pong = timer.pong /\ t.retry = timer.retry
          /\ t.ping = timer.ping
        BY <1>0, <2>4, Rearmed
    <2>6. Heard(t, rows, UsdtTicks(rows))  BY <2>1, <2>4
    <2>7. feed \notin {"coinbase", "binance", "okx"} \cup Kraken  BY <2>2 DEF Kraken
    <2> QED BY <1>6, <2>2, <2>5, <2>6, <2>7, UsdtDollars, Heard_Inv
<1>7. CASE KucoinHeard /\ sent = {}
    <2>1. /\ feed = "kucoin" /\ ws = "open" /\ sent' = Market /\ due' = FALSE
          /\ timer' = [timer EXCEPT !.alive = 6, !.ping = 4]
          /\ UNCHANGED <<feed, state, ws, bullet, pairs, attempts, boot, down, stored>>
        BY <1>7 DEF KucoinHeard
    <2>2. /\ timer' \in TimerSet /\ timer'.alive = 6 /\ timer'.ping = 4
          /\ timer'.pong = timer.pong /\ timer'.retry = timer.retry
        <3>1. PICK n \in Times, m \in Times : n = 6 /\ m = 4  BY <1>0
        <3>2. timer' = [timer EXCEPT !.alive = n, !.ping = m]  BY <2>1, <3>1
        <3>3. timer \in TimerSet  BY TypeFacts
        <3>4. timer' = [alive |-> n, ping |-> m, pong |-> timer.pong, retry |-> timer.retry]
            BY <3>2, <3>3 DEF TimerSet
        <3>5. /\ timer' \in TimerSet /\ timer'.alive = n /\ timer'.ping = m
              /\ timer'.pong = timer.pong /\ timer'.retry = timer.retry
            BY <3>3, <3>4 DEF TimerSet
        <3> QED BY <3>1, <3>5
    <2>3. timer.pong = Off  BY <2>1 DEF IInv, Watched, Pingers
    <2>4. TypeOK'  BY <2>1, <2>2 DEF IInv, TypeOK, TimerSet, Times
    <2>5. Sole' /\ Quiet' /\ Down' /\ Live' /\ NotYet'
        BY <2>1, <2>2 DEF IInv, Sole, Quiet, Down, Live, NotYet
    <2>6. Watched'  BY <2>1, <2>2, <2>3 DEF Watched, Pingers, Kraken
    <2>7. Coverage' /\ ConnectedIsSubscribed' /\ DollarTicksOnly'
        BY <2>1 DEF IInv, Coverage, ConnectedIsSubscribed, DollarTicksOnly
    <2> QED BY <2>4, <2>5, <2>6, <2>7 DEF IInv
<1> QED BY <1>1, <1>2, <1>3, <1>4, <1>5, <1>6, <1>7 DEF OnMessage

LEMMA OnClose_Inv ==
    ASSUME IInv, OnClose
    PROVE  IInv'
BY Lost_Inv DEF OnClose, CoinbaseLost, BinanceLost, KrakenLost, GateLost, KucoinLost, OkxLost, BybitLost

LEMMA Timers_Inv ==
    ASSUME IInv, Timers
    PROVE  IInv'
<1>0. Off \in Times /\ 1 \in Times /\ 3 \in Times /\ 4 \in Times /\ Off <= 5  BY DEF Times, Off
<1>1. CASE \E kind \in {"alive", "pong"} : TimedOut(kind)
    BY <1>1, TimedOut_Inv
<1>2. CASE feed \in {"binance"} \cup Kraken /\ Pinged(Off, 1)
    <2>1. feed \notin {"coinbase", "gate", "bybit", "kucoin"} \cup Pingers  BY <1>2 DEF Kraken, Pingers
    <2> QED BY <1>0, <1>2, <2>1, Pinged_Inv
<1>3. CASE feed \in Pingers /\ feed # "okx" /\ \E n \in {3, 4} : Pinged(n, Off)
    <2>1. feed \notin {"coinbase", "binance"} \cup Kraken  BY <1>3 DEF Kraken, Pingers
    <2>2. PICK n \in Times : n \in {3, 4} /\ Pinged(n, Off)  BY <1>0, <1>3
    <2>3. n <= 5 /\ n >= 0  BY <2>2
    <2> QED BY <1>0, <2>1, <2>2, <2>3, Pinged_Inv
<1>4. CASE feed = "okx" /\ Pinged(Off, Off)
    <2>1. feed \notin {"coinbase", "binance", "gate", "bybit", "kucoin"} \cup Kraken  BY <1>4 DEF Kraken
    <2> QED BY <1>0, <1>4, <2>1, Pinged_Inv
<1>5. \/ \E kind \in {"alive", "pong"} : TimedOut(kind)
      \/ feed \in {"binance"} \cup Kraken /\ Pinged(Off, 1)
      \/ feed \in Pingers /\ feed # "okx" /\ \E n \in {3, 4} : Pinged(n, Off)
      \/ feed = "okx" /\ Pinged(Off, Off)
      \/ Reopen
    BY DEF Timers, CoinbaseSilent, BinancePings, KrakenPings, GatePings, KucoinPings, OkxPings,
           BybitPings, Pingers
<1> QED BY <1>1, <1>2, <1>3, <1>4, <1>5, Reopen_Inv

\* Only Coinbase registers coverage on a connection that may be open already.
LEMMA CoinbaseStart_Inv ==
    ASSUME IInv, CoinbaseStart
    PROVE  IInv'
<1>1. PICK listed \in SUBSET Market :
        /\ state' = state /\ pairs' = pairs \cup Listed(listed)
        /\ sent' = IF state' = "connected" THEN sent \cup (Listed(listed) \ pairs) ELSE sent
    BY DEF CoinbaseStart, subscribeForCoverage
<1>2. /\ feed = "coinbase" /\ boot' = "done"
      /\ UNCHANGED <<feed, ws, bullet, timer, attempts, due, down, stored>>
    BY DEF CoinbaseStart
<1>3. Listed(listed) \subseteq Catalog /\ Listed(listed) \subseteq Market
    BY CoverageFacts, CatalogIsTraded
<1>4. TypeOK'  BY <1>1, <1>2, <1>3 DEF IInv, TypeOK
<1>5. Sole' /\ Quiet' /\ Down' /\ Live' /\ NotYet' /\ DollarTicksOnly'
    BY <1>1, <1>2 DEF IInv, Sole, Quiet, Down, Live, NotYet, DollarTicksOnly
<1>6. Watched'  BY <1>2 DEF IInv, Watched, Pingers, Kraken
<1>7. Coverage' /\ ConnectedIsSubscribed'
    BY <1>1, <1>2, <1>3 DEF IInv, Coverage, ConnectedIsSubscribed
<1> QED BY <1>4, <1>5, <1>6, <1>7 DEF IInv

LEMMA LoadCatalog_Inv ==
    ASSUME IInv, LoadCatalog
    PROVE  IInv'
<1>1. /\ boot = "loading" /\ boot' \in {"listing", "done"}
      /\ UNCHANGED <<feed, state, ws, bullet, timer, pairs, sent, attempts, due, down, stored>>
    BY DEF LoadCatalog, socket
<1>2. TypeOK' /\ NotYet'  BY <1>1 DEF IInv, TypeOK, NotYet
<1>3. Sole' /\ Quiet' /\ Down' /\ Live' /\ Watched'
    BY <1>1 DEF IInv, Sole, Quiet, Down, Live, Watched
<1>4. Coverage' /\ ConnectedIsSubscribed' /\ DollarTicksOnly'
    BY <1>1 DEF IInv, Coverage, ConnectedIsSubscribed, DollarTicksOnly
<1> QED BY <1>2, <1>3, <1>4 DEF IInv

LEMMA BootStart_Inv ==
    ASSUME IInv, Start
    PROVE  IInv'
<1>0. pairs \subseteq Market /\ (feed \notin {"binance", "kucoin"} => pairs \subseteq Catalog)
    BY TypeFacts DEF IInv, Coverage
<1>1. CASE BinanceStart \/ KucoinStart
    BY <1>0, <1>1, Start_Inv DEF BinanceStart, KucoinStart
<1>2. CASE KrakenStart
    <2>1. /\ feed \in Kraken /\ boot = "listing" /\ boot' = "done" /\ Connect
          /\ pairs' = pairs \cup getKrakenCoverage /\ UNCHANGED <<feed, down, stored>>
        BY <1>2 DEF KrakenStart
    <2> QED BY <1>0, <2>1, CoverageFacts, CatalogIsTraded, Start_Inv DEF Kraken
<1>3. CASE GateStart \/ OkxStart \/ BybitStart
    <2>1. /\ feed \in {"gate", "okx", "bybit"} /\ boot = "listing" /\ boot' = "done" /\ Connect
          /\ \E listed \in SUBSET Market : pairs' = pairs \cup Listed(listed)
          /\ UNCHANGED <<feed, down, stored>>
        BY <1>3 DEF GateStart, OkxStart, BybitStart, buildGateCoverage, buildOkxCoverage, buildBybitCoverage
    <2> QED BY <1>0, <2>1, CoverageFacts, CatalogIsTraded, Start_Inv
<1> QED BY <1>1, <1>2, <1>3, CoinbaseStart_Inv, LoadCatalog_Inv DEF Start

LEMMA KucoinBullet_Inv ==
    ASSUME IInv, KucoinBullet
    PROVE  IInv'
<1>1. /\ feed = "kucoin" /\ bullet /\ bullet' = FALSE
      /\ UNCHANGED <<feed, pairs, boot, down, stored>>
      /\ ws = "none" /\ timer.retry = Off
    BY DEF KucoinBullet, IInv, Sole
<1>2. boot = "done"  BY <1>1 DEF IInv, NotYet
<1>3. timer.alive = Off /\ timer.ping = Off /\ timer.pong = Off  BY <1>1 DEF IInv, Quiet
<1>4. Coverage' /\ ConnectedIsSubscribed' /\ DollarTicksOnly' /\ NotYet'
    BY <1>1, <1>2 DEF IInv, Coverage, ConnectedIsSubscribed, DollarTicksOnly, NotYet
<1>5. CASE ws' = "opening" /\ sent' = {} /\ due' = FALSE /\ UNCHANGED <<state, timer, attempts>>
    <2>1. TypeOK'  BY <1>1, <1>5 DEF IInv, TypeOK
    <2>2. Sole' /\ Quiet' /\ Down' /\ Live' /\ Watched'
        BY <1>1, <1>3, <1>5 DEF IInv, Sole, Quiet, Down, Live, Watched
    <2> QED BY <1>4, <2>1, <2>2 DEF IInv
<1>6. CASE Reconnecting /\ UNCHANGED <<ws, sent, due>>
    <2>1. TypeOK'
        BY <1>1, <1>6, ReconnectingFacts, BackoffFacts DEF IInv, TypeOK, TimerSet, Times
    <2>2. Sole' /\ Quiet' /\ Down' /\ Live' /\ Watched'
        BY <1>1, <1>6, ReconnectingFacts DEF IInv, Sole, Quiet, Down, Live, Watched
    <2> QED BY <1>4, <2>1, <2>2 DEF IInv
<1> QED BY <1>5, <1>6 DEF KucoinBullet

LEMMA disconnect_Inv ==
    ASSUME IInv, disconnect
    PROVE  IInv'
<1>1. /\ down' = TRUE /\ state' = "disconnected" /\ ws' = "none" /\ timer' = NoTimers
      /\ sent' = {} /\ due' = FALSE
      /\ UNCHANGED <<feed, bullet, pairs, attempts, boot, stored>>
    BY DEF disconnect
<1>2. TypeOK'  BY <1>1, NoTimersFields DEF IInv, TypeOK, TimerSet, Times
<1>3. Sole' /\ Quiet' /\ Down' /\ Live' /\ Watched' /\ NotYet'
    BY <1>1, NoTimersFields DEF IInv, Sole, Quiet, Down, Live, Watched, NotYet
<1>4. Coverage' /\ ConnectedIsSubscribed' /\ DollarTicksOnly'
    BY <1>1 DEF IInv, Coverage, ConnectedIsSubscribed, DollarTicksOnly
<1> QED BY <1>2, <1>3, <1>4 DEF IInv

LEMMA CloseOrStall_Inv ==
    ASSUME IInv, Close \/ Stall
    PROVE  IInv'
<1>1. /\ ws \in {"opening", "open", "stalled"} /\ due' = FALSE
      /\ ws' = "closed" \/ (ws = "open" /\ ws' = "stalled")
      /\ UNCHANGED <<feed, state, bullet, timer, pairs, sent, attempts, boot, down, stored>>
    BY DEF Close, Stall
<1>2. TypeOK'  BY <1>1 DEF IInv, TypeOK
<1>3. Sole' /\ Quiet' /\ Live' /\ Watched' /\ NotYet'
    BY <1>1 DEF IInv, Sole, Quiet, Live, Watched, NotYet
<1>4. Down'  BY <1>1 DEF IInv, Down
<1>5. Coverage' /\ ConnectedIsSubscribed' /\ DollarTicksOnly'
    BY <1>1 DEF IInv, Coverage, ConnectedIsSubscribed, DollarTicksOnly
<1> QED BY <1>2, <1>3, <1>4, <1>5 DEF IInv

\* Time passes only when no frame is owed and no timer has run out.
LEMMA Tick_Inv ==
    ASSUME IInv, Tick
    PROVE  IInv'
<1>0. DOMAIN timer = {"alive", "ping", "pong", "retry"}  BY TypeFacts DEF TimerSet
<1>1. /\ ~due
      /\ timer.alive # 0 /\ timer.ping # 0 /\ timer.pong # 0 /\ timer.retry # 0
      /\ timer' = [k \in DOMAIN timer |-> IF timer[k] = Off THEN Off ELSE timer[k] - 1]
      /\ due' = (ws = "open" /\ feed \in Chatty)
      /\ UNCHANGED <<feed, state, ws, bullet, pairs, sent, attempts, boot, down, stored>>
    BY <1>0 DEF Tick
<1>2. /\ timer'.alive = IF timer.alive = Off THEN Off ELSE timer.alive - 1
      /\ timer'.ping = IF timer.ping = Off THEN Off ELSE timer.ping - 1
      /\ timer'.pong = IF timer.pong = Off THEN Off ELSE timer.pong - 1
      /\ timer'.retry = IF timer.retry = Off THEN Off ELSE timer.retry - 1
    BY <1>0, <1>1
<1>3. /\ timer'.alive \in Times /\ timer'.ping \in Times /\ timer'.pong \in Times
      /\ timer'.retry \in Times
    BY <1>1, <1>2, TypeFacts DEF Times, Off
<1>4. timer' \in TimerSet
    <2>1. timer' = [alive |-> timer'.alive, ping |-> timer'.ping, pong |-> timer'.pong,
                    retry |-> timer'.retry]
        BY <1>0, <1>1
    <2> QED BY <1>3, <2>1 DEF TimerSet
<1>5. due' \in {TRUE, FALSE}  BY <1>1
<1>6. TypeOK'  BY <1>1, <1>4, <1>5 DEF IInv, TypeOK, TimerSet, Times
<1>7. timer'.retry # Off => timer.retry # Off  BY <1>2
<1>8. timer.alive = Off => timer'.alive = Off  BY <1>2
<1>9. timer.ping = Off => timer'.ping = Off  BY <1>2
<1>10. timer.pong = Off => timer'.pong = Off  BY <1>2
<1>11. state # "disconnected"
    <2>1. \E k \in DOMAIN timer : timer[k] > 0  BY DEF Tick
    <2>2. timer # NoTimers  BY <2>1, <1>0, NoTimersFields DEF Off
    <2> QED BY <2>2 DEF IInv, Down
<1>12. Sole' /\ Quiet' /\ Down' /\ Live' /\ NotYet'
    BY <1>1, <1>7, <1>8, <1>9, <1>10, <1>11 DEF IInv, Sole, Quiet, Down, Live, NotYet
<1>13. Watched'
    <2> SUFFICES ASSUME ws' = "open" PROVE Watched'
        BY DEF Watched
    <2>0. ws = "open"  BY <1>1
    <2>1. CASE feed = "coinbase"
        <3>1. timer.pong = Off /\ timer.alive >= 2 /\ timer.alive \in Times
            BY <1>1, <2>0, <2>1, TypeFacts DEF IInv, Watched
        <3>2. timer'.pong = Off /\ timer'.alive >= 1  BY <1>2, <3>1 DEF Times, Off
        <3>3. due'  BY <1>1, <2>0, <2>1 DEF Chatty
        <3> QED BY <1>1, <2>1, <3>2, <3>3 DEF Watched, Pingers, Kraken
    <2>2. CASE feed \in {"binance"} \cup Kraken
        BY <1>1, <1>8, <1>10, <2>0, <2>2 DEF IInv, Watched, Pingers, Kraken
    <2>3. CASE feed \in Pingers
        <3>1. /\ timer.pong = Off /\ timer.alive > 0 /\ timer.ping \in 0..5 /\ timer.alive > timer.ping
              /\ timer.alive \in Times
            <4>1. /\ timer.pong = Off /\ timer.alive > 0 /\ timer.ping <= 5 /\ timer.ping >= 0
                  /\ timer.alive > timer.ping
                BY <1>1, <2>0, <2>3 DEF IInv, Watched
            <4>2. timer.ping \in Times /\ timer.alive \in Times  BY TypeFacts
            <4> QED BY <4>1, <4>2 DEF Times, Off
        <3>2. timer.ping \in 1..5  BY <1>1, <3>1
        <3>3. timer'.ping = timer.ping - 1 /\ timer'.alive = timer.alive - 1 /\ timer'.pong = Off
            BY <1>2, <3>1, <3>2 DEF Off
        <3>4. /\ timer'.pong = Off /\ timer'.alive > 0 /\ timer'.ping <= 5 /\ timer'.ping >= 0
              /\ timer'.alive > timer'.ping
            BY <3>1, <3>2, <3>3 DEF Times
        <3> QED BY <1>1, <2>3, <3>4 DEF Watched, Pingers, Kraken
    <2> QED BY <2>1, <2>2, <2>3, TypeFacts DEF Names, Pingers, Kraken
<1>14. Coverage' /\ ConnectedIsSubscribed' /\ DollarTicksOnly'
    BY <1>1 DEF IInv, Coverage, ConnectedIsSubscribed, DollarTicksOnly
<1> QED BY <1>6, <1>12, <1>13, <1>14 DEF IInv

-----------------------------------------------------------------------------
(* The theorems *)

LEMMA Init_Inv == Init => IInv
<1> SUFFICES ASSUME Init PROVE IInv
    OBVIOUS
<1>1. TypeOK
    <2>1. timer \in TimerSet  BY NoTimersFields DEF Init
    <2>2. attempts \in 0..Len(Backoff)  BY BackoffFacts DEF Init
    <2>3. stored \in [Market -> Quotes \cup {"none"}]  BY DEF Init
    <2> QED BY <2>1, <2>2, <2>3 DEF Init, TypeOK, TimerSet, Times
<1>2. Sole /\ Quiet /\ Down /\ Live /\ NotYet /\ Watched
    BY NoTimersFields DEF Init, Sole, Quiet, Down, Live, NotYet, Watched
<1>3. Coverage /\ ConnectedIsSubscribed /\ DollarTicksOnly
    BY DEF Init, Coverage, ConnectedIsSubscribed, DollarTicksOnly
<1> QED BY <1>1, <1>2, <1>3 DEF IInv

LEMMA Next_Inv == IInv /\ [Next]_vars => IInv'
<1> SUFFICES ASSUME IInv, [Next]_vars PROVE IInv'
    OBVIOUS
<1>1. CASE UNCHANGED vars
    <2>1. UNCHANGED <<feed, state, ws, bullet, timer, pairs, sent, attempts, due, boot, down, stored>>
        BY <1>1 DEF vars
    <2>2. TypeOK' /\ Sole' /\ Quiet' /\ Down' /\ Live' /\ NotYet'
        BY <2>1 DEF IInv, TypeOK, Sole, Quiet, Down, Live, NotYet
    <2>3. Watched' /\ Coverage' /\ ConnectedIsSubscribed' /\ DollarTicksOnly'
        BY <2>1 DEF IInv, Watched, Coverage, ConnectedIsSubscribed, DollarTicksOnly
    <2> QED BY <2>2, <2>3 DEF IInv
<1>2. CASE Next
    BY <1>2, OnOpen_Inv, OnMessage_Inv, OnClose_Inv, Timers_Inv, BootStart_Inv, KucoinBullet_Inv,
       disconnect_Inv, CloseOrStall_Inv, Tick_Inv DEF Next
<1> QED BY <1>1, <1>2

\* Every state of a client satisfies the inductive invariant: socket, token request and backoff
\* timer exclude one another, timers belong to a socket, and time never outruns what is owed.
THEOREM Invariance == Spec => []IInv
BY Init_Inv, Next_Inv, PTL DEF Spec

\* The state of a client has the types the code gives it.
THEOREM TypeCorrect == Spec => []TypeOK
<1>1. IInv => TypeOK  BY DEF IInv
<1> QED BY <1>1, Invariance, PTL

\* _onOpen and subscribeForCoverage, in whatever order boot, socket and coverage come: a client
\* that says it is connected has subscribed exactly its coverage.
THEOREM Subscribed == Spec => []ConnectedIsSubscribed
<1>1. IInv => ConnectedIsSubscribed  BY DEF IInv
<1> QED BY <1>1, Invariance, PTL

\* No liveness timer of any client runs out on a socket whose exchange answers in time.
THEOREM Healthy == Spec => []HealthyIsKept
<1>1. IInv => HealthyIsKept
    <2> SUFFICES ASSUME IInv, ws = "open" PROVE timer.alive # 0 /\ timer.pong # 0
        BY DEF HealthyIsKept
    <2>1. CASE feed = "coinbase"
        BY <2>1, TypeFacts DEF IInv, Watched, Times, Off
    <2>2. CASE feed \in {"binance"} \cup Kraken
        BY <2>2 DEF IInv, Watched, Off
    <2>3. CASE feed \in Pingers
        BY <2>3, TypeFacts DEF IInv, Watched, Times, Off
    <2> QED BY <2>1, <2>2, <2>3, TypeFacts DEF Names, Pingers, Kraken
<1> QED BY <1>1, Invariance, PTL

\* Every recorded tick is a catalogue symbol priced in dollars or a dollar stablecoin.
THEOREM InDollars == Spec => []DollarTicksOnly
<1>1. IInv => DollarTicksOnly  BY DEF IInv
<1> QED BY <1>1, Invariance, PTL

\* A client that disconnect() has stopped and boot has dealt with takes no step of its own any
\* more: it has no timer that could fire and no socket that could report.
THEOREM DisconnectStays == Spec => DisconnectIsFinal
<1> DEFINE Final == (down /\ state = "disconnected" /\ boot = "done" /\ feed # "kucoin") =>
                      (ws' = ws /\ state' = state)
<1>1. IInv /\ [Next]_vars => [Final]_vars
    <2> SUFFICES ASSUME IInv, Next, down, state = "disconnected", boot = "done", feed # "kucoin"
                 PROVE  ws' = ws /\ state' = state
        OBVIOUS
    <2>1. ws = "none" /\ timer = NoTimers /\ ~bullet  BY DEF IInv, Down, Sole
    <2>2. /\ timer.alive = Off /\ timer.ping = Off /\ timer.pong = Off /\ timer.retry = Off
        BY <2>1, NoTimersFields
    <2>3. ~OnOpen
        BY <2>1 DEF OnOpen, Opened, CoinbaseOpened, BinanceOpened, KrakenOpened, GateOpened,
                    KucoinOpened, OkxOpened, BybitOpened
    <2>4. ~OnMessage
        BY <2>1 DEF OnMessage, Heard, CoinbaseHeard, BinanceHeard, KrakenHeard, GateHeard,
                    KucoinHeard, OkxHeard, BybitHeard
    <2>5. ~OnClose
        BY <2>1 DEF OnClose, Lost, CoinbaseLost, BinanceLost, KrakenLost, GateLost, KucoinLost,
                    OkxLost, BybitLost
    <2>6. ~Timers
        <3>1. timer.alive # 0 /\ timer.ping # 0 /\ timer.pong # 0 /\ timer.retry # 0
            BY <2>2 DEF Off
        <3>2. ~TimedOut("alive") /\ ~TimedOut("pong") /\ ~Reopen  BY <3>1 DEF TimedOut, Reopen
        <3>3. \A n, m : ~Pinged(n, m)  BY <3>1 DEF Pinged
        <3> QED BY <3>2, <3>3 DEF Timers, CoinbaseSilent, BinancePings, KrakenPings, GatePings,
                                  KucoinPings, OkxPings, BybitPings
    <2>7. ~Start
        BY DEF Start, LoadCatalog, CoinbaseStart, BinanceStart, KrakenStart, GateStart,
               KucoinStart, OkxStart, BybitStart
    <2>8. ~KucoinBullet /\ ~disconnect /\ ~Close /\ ~Stall
        BY <2>1 DEF KucoinBullet, disconnect, Close, Stall
    <2>9. Tick  BY <2>3, <2>4, <2>5, <2>6, <2>7, <2>8 DEF Next
    <2> QED BY <2>9 DEF Tick
<1> QED BY <1>1, Invariance, PTL DEF Spec, DisconnectIsFinal
=============================================================================
