----------------------------- MODULE WalletData -----------------------------
(* What the wallet-data providers answer about one wallet: wallet-data/index.ts, build-summary.ts
   and providers/. The chain itself is outside the program: Chain is the sequence of the wallet's
   transactions, each a sequence of legs in the order every provider and the webhook list them
   (native, erc20, nft), and the hash of a transaction is its place. An answer is taken at a
   height, the number of transactions mined, by the providers that are up. Amounts are in units:
   a fungible leg moves one. *)
EXTENDS Naturals, Sequences, FiniteSets, SequencesExt

CONSTANTS Chain,       \* the transactions: sequences of legs [kind, item, dir]
          Tokens,      \* the fungible tokens, in the order the providers list them
          Native,      \* the one that pays for gas
          Nfts,        \* the NFTs
          Opening,     \* what the wallet holds before the first transaction
          Usd,         \* the dollar value of one unit, 0 when no provider has a price
          Spam,        \* tokens and NFTs the providers flag as spam
          Unlisted,    \* tokens Ankr's whitelist lacks
          PnlItems,    \* the tokens on the PnL list of a provider at a height: its own choice
          PnlInfo,     \* those whose item says a cost per unit or a realized gain
          Configured,  \* the providers with a key that support the chain
          PageSize,    \* transactions on a page of the history, by provider
          MaxTokens    \* MAX_TOKENS of a summary

PROVIDERS == {"moralis", "zerion", "mobula", "goldrush", "alchemy", "ankr"}
PRIORITY == [moralis |-> 1, zerion |-> 2, mobula |-> 3, goldrush |-> 4, alchemy |-> 5, ankr |-> 6]
PNL == {"goldrush", "moralis"}
TokenSet == ToSet(Tokens)
Heights == 0..Len(Chain)
Hashes == 1..Len(Chain)
Legs == [kind : {"native", "erc20"}, item : TokenSet, dir : {"in", "out"}]
        \cup [kind : {"nft"}, item : Nfts, dir : {"in", "out"}]

ASSUME WalletDataAssumption ==
    /\ Tokens \in Seq(TokenSet) /\ Chain \in Seq(Seq(Legs)) /\ Native \in TokenSet
    /\ Opening \in [TokenSet -> Nat] /\ Usd \in [TokenSet -> Nat]
    /\ Spam \subseteq TokenSet \cup Nfts /\ Unlisted \subseteq TokenSet
    /\ Configured \subseteq PROVIDERS
    /\ PageSize \in [PROVIDERS -> Nat \ {0}] /\ MaxTokens \in Nat \ {0}
    /\ Nfts \cap TokenSet = {}
    /\ PnlItems \in [PNL -> [Heights -> SUBSET TokenSet]]
    /\ PnlInfo \in [PNL -> [Heights -> SUBSET (TokenSet \ {Native})]]

\* The provider of S that is asked first.
Preferred(S) == CHOOSE p \in S : \A q \in S : PRIORITY[p] <= PRIORITY[q]

-----------------------------------------------------------------------------
(* The chain *)

LegsOf(h, i, d) == UNION {{<<n, k>> : k \in {j \in DOMAIN Chain[n] : Chain[n][j].item = i /\ Chain[n][j].dir = d}} :
                           n \in 1..h}

\* What the wallet holds of a token, and whether it holds an NFT, at a height.
holdings == [h \in 0..Len(Chain) |-> [t \in TokenSet |->
                Opening[t] + Cardinality(LegsOf(h, t, "in")) - Cardinality(LegsOf(h, t, "out"))]]
HeldAt(h, t) == holdings[h][t]
OwnedAt(h, i) == Cardinality(LegsOf(h, i, "in")) > Cardinality(LegsOf(h, i, "out"))
NftsAt(h) == {i \in Nfts : OwnedAt(h, i)}

\* A transaction of the wallet has a leg, and none spends what the wallet does not hold.
ASSUME ChainAssumption ==
    /\ \A n \in Hashes : Chain[n] # <<>>
    /\ \A h \in 0..Len(Chain), t \in TokenSet : HeldAt(h, t) \in Nat

-----------------------------------------------------------------------------
(* getSummary, by provider: the tokens it lists, ... *)

priced(t) == Usd[t] > 0 \/ t = Native
getEvm(t) == t \notin Spam /\ priced(t)
goldrushKeeps(t) == t \notin Spam /\ priced(t)
alchemyKeeps(t) == priced(t)
ankrKeeps(t) == t \notin Unlisted /\ priced(t)

keeps(p, t) == CASE p = "moralis"  -> getEvm(t)
                 [] p = "goldrush" -> goldrushKeeps(t)
                 [] p = "alchemy"  -> alchemyKeeps(t)
                 [] p = "ankr"     -> ankrKeeps(t)
                 [] p \in {"zerion", "mobula"} -> FALSE

\* ... the most valuable ones, up to a maximum (usdValue descending, the unpriced last, and as
\* listed where the value is the same), ...
place(t) == CHOOSE n \in DOMAIN Tokens : Tokens[n] = t
buildSummary(S, h) ==
    LET value(t) == Usd[t] * HeldAt(h, t)
        before(u, t) == value(u) > value(t) \/ (value(u) = value(t) /\ place(u) < place(t))
        shown == {t \in S : Cardinality({u \in S : before(u, t)}) < MaxTokens}
    IN  [t \in shown |-> HeldAt(h, t)]

\* ... and its verdict. Zerion and Mobula only know value histories: their getSummary is an error.
NoSummary(status) == [status |-> status, tokens |-> [t \in {} |-> 0]]
getSummary(p, h, up) ==
    LET kept == {t \in TokenSet : HeldAt(h, t) > 0 /\ keeps(p, t)}
    IN  IF p \in {"zerion", "mobula"} \/ p \notin up THEN NoSummary("error")
        ELSE IF kept = {} THEN NoSummary("empty")
        ELSE [status |-> "ok", tokens |-> buildSummary(kept, h)]

\* fetchWalletSummaryForSync: the first summary in order of priority; nothing held only when
\* nobody failed to answer.
fetchSummaryOrEmpty(h, up) ==
    LET found == {p \in Configured : getSummary(p, h, up).status = "ok"}
    IN  IF found # {} THEN getSummary(Preferred(found), h, up) ELSE NoSummary("empty")
fetchWalletSummaryForSync(h, up) ==
    LET found == {p \in Configured : getSummary(p, h, up).status = "ok"}
        verdicts == {getSummary(p, h, up).status : p \in Configured}
    IN  IF found # {} THEN getSummary(Preferred(found), h, up)
        ELSE NoSummary(IF verdicts = {"empty"} THEN "empty" ELSE "error")

-----------------------------------------------------------------------------
(* getTransferHistory, by provider. A cursor [by, f, t] belongs to the provider that made it: the
   next page holds sends older than f and receipts older than t. Only Alchemy pages the two
   directions apart; 0 there is a direction with no page key. *)

NoCursor == [by |-> "none", f |-> 0, t |-> 0]
NoPage == [ok |-> FALSE, legs |-> {}, next |-> NoCursor]
LegsIn(N, D) == UNION {{<<n, k>> : k \in {j \in DOMAIN Chain[n] : Chain[n][j].dir \in D}} : n \in N}

\* The newest `size` members of N, and the place where the page after it starts: 0 for none.
Newest(N, size) == {n \in N : Cardinality({m \in N : m > n}) < size}
Older(N, size) == IF Cardinality(N) > size THEN CHOOSE n \in Newest(N, size) : \A m \in Newest(N, size) : n <= m
                  ELSE 0

wholePage(p, N) == LET o == Older(N, PageSize[p])
                   IN  [ok |-> TRUE, legs |-> LegsIn(Newest(N, PageSize[p]), {"in", "out"}),
                        next |-> IF o = 0 THEN NoCursor ELSE [by |-> p, f |-> o, t |-> o]]

\* Moralis continues its own cursors and refuses those of others.
moralisPage(c, h) ==
    IF c = NoCursor THEN wholePage("moralis", 1..h)
    ELSE IF c.by = "moralis" THEN wholePage("moralis", 1..(c.f - 1)) ELSE NoPage

\* GoldRush follows a cursor that is a URL, its own, and starts from the newest page otherwise.
goldrushPage(c, h) == wholePage("goldrush", IF c.by = "goldrush" THEN 1..(c.f - 1) ELSE 1..h)

\* Alchemy asks for each direction that still has a key; `answers` are the directions whose query
\* succeeded. One failed direction is a page without it, and without its key.
alchemyPage(c, h, answers) ==
    LET first == c = NoCursor
        N(d, below) == {n \in 1..(IF first THEN h ELSE below - 1) : LegsIn({n}, {d}) # {}}
        asked == (IF first \/ c.f # 0 THEN {"out"} ELSE {}) \cup (IF first \/ c.t # 0 THEN {"in"} ELSE {})
        got(d) == d \in asked \cap answers
        legs(d, below) == IF got(d) THEN LegsIn(Newest(N(d, below), PageSize["alchemy"]), {d}) ELSE {}
        key(d, below) == IF got(d) THEN Older(N(d, below), PageSize["alchemy"]) ELSE 0
        next == [by |-> "alchemy", f |-> key("out", c.f), t |-> key("in", c.t)]
    IN  IF c.by \notin {"none", "alchemy"} \/ asked \cap answers = {} THEN NoPage
        ELSE [ok |-> TRUE, legs |-> legs("out", c.f) \cup legs("in", c.t),
              next |-> IF next.f = 0 /\ next.t = 0 THEN NoCursor ELSE next]

\* fetchTransferPage: the first page a provider returns.
pageOf(p, c, h, answers) == CASE p = "moralis"  -> moralisPage(c, h)
                              [] p = "goldrush" -> goldrushPage(c, h)
                              [] p = "alchemy"  -> alchemyPage(c, h, answers)
                              [] p \in {"zerion", "mobula", "ankr"} -> NoPage
fetchTransferPage(c, h, up, answers) ==
    LET able == {p \in up \cap Configured : pageOf(p, c, h, answers).ok}
    IN  IF able = {} THEN NoPage ELSE pageOf(Preferred(able), c, h, answers)

-----------------------------------------------------------------------------
(* getNftHoldings and getWalletPnl, by provider *)

moralisNfts(h) == NftsAt(h)
goldrushNfts(h) == NftsAt(h) \ Spam
alchemyNfts(h) == NftsAt(h)

\* fetchNftHoldings: the first provider that answers.
fetchNftHoldings(h, up) ==
    LET able == up \cap Configured \cap {"moralis", "goldrush", "alchemy"}
        held == [moralis |-> moralisNfts(h), goldrush |-> goldrushNfts(h), alchemy |-> alchemyNfts(h)]
    IN  IF able = {} THEN {} ELSE held[Preferred(able)]

\* A PnL answer: who gave it and the tokens it has a cost or a gain for; an item without either
\* says nothing, and the native token has no contract to be found by. The two providers keep
\* lists of their own, and an answer without items is none.
NoPnl == [by |-> "none", tokens |-> {}]
pnlAnswer(p, h) == IF PnlItems[p][h] = {} THEN NoPnl ELSE [by |-> p, tokens |-> PnlInfo[p][h]]
goldrushPnl(h) == pnlAnswer("goldrush", h)
moralisPnl(h) == pnlAnswer("moralis", h)

\* fetchWalletPnl: the cache (unless bypassed), GoldRush, Moralis, and the cache again for a
\* bypass that found nothing.
pnlOf(h, up) ==
    IF "goldrush" \in up \cap Configured /\ goldrushPnl(h) # NoPnl THEN goldrushPnl(h)
    ELSE IF "moralis" \in up \cap Configured THEN moralisPnl(h) ELSE NoPnl
fetchWalletPnl(cache, bypass, fetched) ==
    IF cache # NoPnl /\ ~bypass THEN cache ELSE IF fetched # NoPnl THEN fetched ELSE cache

-----------------------------------------------------------------------------
(* The answers a call can have at a height: with an outage, those of any set of providers that
   are up; each call of a request meets its own. *)

Cursors == {NoCursor} \cup [by : {"alchemy"}, f : Heights, t : Heights]
           \cup {[by |-> p, f |-> n, t |-> n] : p \in {"moralis", "goldrush"}, n \in Hashes}
Ups(outage) == IF outage THEN SUBSET Configured ELSE {Configured}
Halves(outage) == IF outage THEN SUBSET {"in", "out"} ELSE {{"in", "out"}}

Summaries == [outage \in BOOLEAN |-> [h \in Heights |->
                {fetchWalletSummaryForSync(h, up) : up \in Ups(outage)}]]
Pages == [outage \in BOOLEAN |-> [h \in Heights |-> [c \in Cursors |->
                {fetchTransferPage(c, h, up, a) : up \in Ups(outage), a \in Halves(outage)}]]]
\* (history) The pages of providers that answer in full.
WholePages == [h \in Heights |-> [c \in Cursors |->
                {fetchTransferPage(c, h, up, {"in", "out"}) : up \in SUBSET Configured}]]
Holdings == [outage \in BOOLEAN |-> [h \in Heights |-> {fetchNftHoldings(h, up) : up \in Ups(outage)}]]
Gains == [outage \in BOOLEAN |-> [h \in Heights |-> {pnlOf(h, up) : up \in Ups(outage)}]]

\* Every answer has its shape.
Answers(S) == [BOOLEAN -> [Heights -> SUBSET S]]
PageSet == [ok : BOOLEAN, legs : SUBSET LegsIn(Hashes, {"in", "out"}), next : Cursors]
ASSUME AnswersAssumption ==
    /\ \A o \in BOOLEAN, h \in Heights : \A s \in Summaries[o][h] :
            /\ s.status \in {"ok", "empty", "error"} /\ DOMAIN s.tokens \subseteq TokenSet
            /\ (s.status = "ok") = (DOMAIN s.tokens # {})
    /\ Pages \in [BOOLEAN -> [Heights -> [Cursors -> SUBSET PageSet]]]
    /\ WholePages \in [Heights -> [Cursors -> SUBSET PageSet]]
    /\ Holdings \in Answers(SUBSET Nfts) /\ Gains \in Answers([by : PNL \cup {"none"}, tokens : SUBSET TokenSet])
=============================================================================
