---------------------------- MODULE WalletProofs ----------------------------
(* Proofs about Wallet, for any chain, any tokens and prices, any set of configured providers and
   page sizes, any number of processes and faults and any outage of the providers. *)
EXTENDS Wallet, FiniteSetTheorems, SequenceTheorems, WellFoundedInduction, TLAPS

-----------------------------------------------------------------------------
(* The inductive invariant *)

AllLegs == LegsIn(Hashes, {"in", "out"})
HeldSet == UNION {[S -> Nat] : S \in SUBSET TokenSet}
JobSet == [op : {"none", "hook", "sync", "resync", "more"},
           at : {"idle", "legs", "refresh", "set", "import", "nfts", "cost", "finish", "page"},
           n : Heights, k : Nat \ {0}, touched : BOOLEAN, held : HeldSet, todo : SUBSET TokenSet,
           cost : SUBSET TokenSet, by : PNL \cup {"none"}, owned : SUBSET Nfts, page : SUBSET AllLegs, next : Cursors,
           blank : BOOLEAN, lone : BOOLEAN]
Sourced == PNL \cup {"none"}
PnlSet == {NoPnl} \cup [by : PNL, tokens : SUBSET TokenSet]

Types ==
    /\ height \in Heights /\ seen \in 0..height
    /\ feed \in [Hashes -> Nat]
    /\ balance \in [TokenSet -> Nat \cup {None}] /\ known \in [TokenSet -> PNL \cup {"none"}]
    /\ written \subseteq TokenSet
    /\ Catalog \subseteq listed /\ acked \subseteq 1..height /\ pnl \in PnlSet
    /\ cursor \in Cursors
    /\ drained \in BOOLEAN /\ drift \in BOOLEAN /\ connected \in BOOLEAN
    /\ job \in [Procs -> JobSet]

\* Which request is where, and what it has with it.
Shape(j) ==
    /\ j.at = "idle" => j = Idle
    /\ j.at \in {"legs", "refresh"} => j.op = "hook"
    /\ j.at = "set" => j.op \in {"hook", "sync", "resync"}
    /\ j.at = "import" => j.op \in {"sync", "resync", "more"}
    /\ j.at \in {"nfts", "cost", "finish"} => Full(j)
    /\ j.at = "page" => j.op = "more" /\ j.next # NoCursor
    /\ Full(j) \/ j.cost = {}
    /\ j.todo \subseteq DOMAIN j.held \cup j.cost
    /\ j.page # {} => j.at = "import"
Shapes == \A p \in Procs : Shape(job[p]) /\ (At(p, "legs") => job[p].n \in 1..height)

\* Nothing happens before the portfolio is connected.
Before == ~connected => /\ \A p \in Procs : job[p] = Idle
                        /\ seen = 0 /\ cursor = NoCursor /\ ~drained

\* The legs a delivery has behind it: a fungible one of the catalog has claimed the hash, or
\* found it claimed, and made a refresh due.
Handled(j) == \A k \in 1..(j.k - 1) :
                 (k \in DOMAIN Chain[j.n] /\ Chain[j.n][k].kind # "nft" /\ Chain[j.n][k].item \in Catalog)
                     => (feed[j.n] # 0 /\ j.touched)
Deliveries == AckedIsRecorded /\ \A p \in Procs : At(p, "legs") => Handled(job[p])

\* What a provider knows of the tokens it keeps on its list; an answer for each provider at a
\* height; the tokens with a cost of that provider. What is known from a provider is in every
\* later answer of it, and in the answer of the only sync under way when that is its own.
Gained(q, h) == PnlInfo[q][h] \cap Steady
Fresh(h) == {[by |-> q, tokens |-> PnlInfo[q][h]] : q \in PNL}
From(q) == {t \in Steady : known[t] = q}
Sources ==
    /\ \A t \in TokenSet : known[t] = "none" \/ balance[t] # None
    /\ \A q \in PNL : From(q) \subseteq Gained(q, height)
    /\ \A p \in Procs : job[p].cost = {} \/ (/\ job[p].by \in PNL
                                             /\ job[p].cost \cap Steady \subseteq Gained(job[p].by, height))
Cache == pnl.by \in PNL =>
    /\ pnl.tokens \cap Steady \subseteq Gained(pnl.by, height) /\ From(pnl.by) \subseteq pnl.tokens
    /\ \A p \in Procs : job[p].by = pnl.by => job[p].cost \cap Steady \subseteq pnl.tokens
Alone ==
    /\ \A p \in Procs : (Full(job[p]) /\ job[p].lone /\ job[p].cost # {}) => From(job[p].by) \subseteq job[p].cost
    /\ \A p, q \in Procs : (Full(job[p]) /\ Full(job[q]) /\ job[p].lone) => p = q
Costs == Sources /\ Cache /\ Alone

\* The transactions before a cursor (all of them when there is none and `done`) ...
Behind(c, done, n) == IF c = NoCursor THEN done
                      ELSE \A k \in DOMAIN Chain[n] : n >= (IF Chain[n][k].dir = "out" THEN c.f ELSE c.t)
\* ... are in the feed, or on the part of the page that is still to be imported.
Importing(j) == \A n \in (1..seen) \ lost :
                   Behind(j.next, j.op = "more" \/ ~j.blank, n) =>
                       (feed[n] # 0 \/ \E k \in DOMAIN Chain[n] : <<n, k>> \in j.page)
Gaps ==
    /\ \A n \in (1..seen) \ lost : Behind(cursor, drained, n) => feed[n] # 0
    /\ \A p \in Procs :
          /\ At(p, "page") => \A n \in (1..seen) \ lost : Behind(job[p].next, FALSE, n) => feed[n] # 0
          /\ (job[p].op \in {"sync", "more"} /\ ~At(p, "page")) => Importing(job[p])

IInv == Types /\ Shapes /\ Before /\ Deliveries /\ Costs /\ Gaps

\* A summary that was not cut is right about every token all providers list.
Right(held, h) == \A t \in Everywhere : IF t \in DOMAIN held THEN held[t] = HeldAt(h, t) ELSE HeldAt(h, t) = 0
Reading(j) == j.op # "more" /\ j.at \in {"import", "nfts", "cost", "set"}

HeldOnce ==
    /\ \A t \in written : balance[t] # None
    /\ BalanceWasHeld
    /\ \A p \in Procs : Reading(job[p]) => \E h \in 0..height : Right(job[p].held, h)

\* The balances are, or are about to be, those of a height r; a later transaction that is
\* acknowledged and moved a token of the catalog has a refresh due.
Cared == Everywhere \cap Catalog
Val(t) == IF balance[t] = None THEN 0 ELSE balance[t]
Want(j, t) == IF t \in DOMAIN j.held THEN j.held[t] ELSE 0
Due(r) == \A n \in acked : (n > r /\ HasLeg(n)) => \E q \in Procs : At(q, "refresh")
Written(j) == \A t \in Cared \cap ((DOMAIN j.held \cup j.cost) \ j.todo) : Val(t) = Want(j, t)
AsOf(r) == /\ \A q \in Procs : Reading(job[q]) => (Right(job[q].held, r) /\ (At(q, "set") => Written(job[q])))
           /\ (\A q \in Procs : ~Reading(job[q])) => \A t \in Cared : Val(t) = HeldAt(r, t)
Settling ==
    (connected /\ ~drift) => /\ \A p, q \in Procs : Writing(p) /\ Writing(q) => p = q
                             /\ \E r \in 0..height : Due(r) /\ AsOf(r)

HInv == HeldOnce /\ Settling

-----------------------------------------------------------------------------
(* Sets of naturals *)

LEMMA LeastOf == ASSUME NEW S \in SUBSET Nat, S # {} PROVE \E m \in S : \A n \in S : m <= n
<1>1. \E m \in S : \A n \in S : ~(<<n, m>> \in OpToRel(<, Nat))  BY NatLessThanWellFounded, WFMin
<1>2. \A n, m \in S : ~(<<n, m>> \in OpToRel(<, Nat)) => m <= n  BY DEF OpToRel
<1> QED BY <1>1, <1>2

LEMMA GreatestOf ==
    ASSUME NEW h \in Nat, NEW S \in SUBSET (0..h), S # {}
    PROVE  \E m \in S : \A n \in S : n <= m
<1> DEFINE T == {h - n : n \in S}
<1>1. T \in SUBSET Nat /\ T # {}
    <2>1. \A n \in S : h - n \in Nat  OBVIOUS
    <2> QED BY <2>1
<1>2. PICK m \in T : \A n \in T : m <= n  BY <1>1, LeastOf
<1>3. PICK g \in S : m = h - g  OBVIOUS
<1>4. ASSUME NEW n \in S PROVE n <= g
    <2>1. h - g <= h - n  BY <1>2, <1>3
    <2> QED BY <2>1
<1> QED BY <1>4

-----------------------------------------------------------------------------
(* The providers *)

LEMMA PreferredIsOne == ASSUME NEW S \in SUBSET PROVIDERS, S # {} PROVE Preferred(S) \in S
<1>1. /\ PRIORITY["moralis"] = 1 /\ PRIORITY["zerion"] = 2 /\ PRIORITY["mobula"] = 3
      /\ PRIORITY["goldrush"] = 4 /\ PRIORITY["alchemy"] = 5 /\ PRIORITY["ankr"] = 6
    BY DEF PRIORITY
<1>2. \E p \in S : \A q \in S : PRIORITY[p] <= PRIORITY[q]
    <2>1. CASE "moralis" \in S
        <3>1. \A q \in S : PRIORITY["moralis"] <= PRIORITY[q]  BY <1>1, <2>1 DEF PROVIDERS
        <3> QED BY <3>1, <2>1
    <2>2. CASE S \cap {"moralis"} = {} /\ "zerion" \in S
        <3>1. \A q \in S : PRIORITY["zerion"] <= PRIORITY[q]  BY <1>1, <2>2 DEF PROVIDERS
        <3> QED BY <3>1, <2>2
    <2>3. CASE S \cap {"moralis", "zerion"} = {} /\ "mobula" \in S
        <3>1. \A q \in S : PRIORITY["mobula"] <= PRIORITY[q]  BY <1>1, <2>3 DEF PROVIDERS
        <3> QED BY <3>1, <2>3
    <2>4. CASE S \cap {"moralis", "zerion", "mobula"} = {} /\ "goldrush" \in S
        <3>1. \A q \in S : PRIORITY["goldrush"] <= PRIORITY[q]  BY <1>1, <2>4 DEF PROVIDERS
        <3> QED BY <3>1, <2>4
    <2>5. CASE S \cap {"moralis", "zerion", "mobula", "goldrush"} = {} /\ "alchemy" \in S
        <3>1. \A q \in S : PRIORITY["alchemy"] <= PRIORITY[q]  BY <1>1, <2>5 DEF PROVIDERS
        <3> QED BY <3>1, <2>5
    <2>6. CASE S \cap {"moralis", "zerion", "mobula", "goldrush", "alchemy"} = {} /\ "ankr" \in S
        <3>1. \A q \in S : PRIORITY["ankr"] <= PRIORITY[q]  BY <1>1, <2>6 DEF PROVIDERS
        <3> QED BY <3>1, <2>6
    <2> QED BY <2>1, <2>2, <2>3, <2>4, <2>5, <2>6 DEF PROVIDERS
<1> QED BY <1>2 DEF Preferred

-----------------------------------------------------------------------------
(* The chain *)

LEMMA HeightsAre == Len(Chain) \in Nat /\ Heights = 0..Len(Chain) /\ Hashes = 1..Len(Chain)
<1>1. Chain \in Seq(Seq(Legs))  BY WalletDataAssumption
<1> QED BY <1>1, LenProperties DEF Heights, Hashes

LEMMA ChainLegs ==
    ASSUME NEW n \in Hashes
    PROVE  /\ Len(Chain[n]) \in Nat \ {0} /\ DOMAIN Chain[n] = 1..Len(Chain[n])
           /\ \A k \in DOMAIN Chain[n] : Chain[n][k] \in Legs
<1>1. Chain[n] \in Seq(Legs)
    <2>1. Chain \in Seq(Seq(Legs))  BY WalletDataAssumption
    <2> QED BY <2>1, ElementOfSeq DEF Hashes
<1>2. Chain[n] # <<>>  BY ChainAssumption
<1>3. Len(Chain[n]) \in Nat \ {0}  BY <1>1, <1>2, EmptySeq, LenProperties
<1>4. DOMAIN Chain[n] = 1..Len(Chain[n])  BY <1>1, LenProperties
<1> QED BY <1>1, <1>3, <1>4, ElementOfSeq

LEMMA LegShape ==
    ASSUME NEW l \in Legs
    PROVE  /\ l.dir \in {"in", "out"}
           /\ l.kind \in {"native", "erc20", "nft"}
           /\ l.kind # "nft" => l.item \in TokenSet
           /\ l.kind = "nft" => l.item \in Nfts
BY DEF Legs

LEMMA LegsOfIs ==
    ASSUME NEW h \in Heights, NEW i, NEW d
    PROVE  \A x : x \in LegsOf(h, i, d) <=>
                \E n \in 1..h : \E k \in DOMAIN Chain[n] :
                    x = <<n, k>> /\ Chain[n][k].item = i /\ Chain[n][k].dir = d
BY DEF LegsOf

\* The legs of a height, at a later one without a leg of the item in between.
LEMMA LegsOfGrow ==
    ASSUME NEW h \in Heights, NEW g \in Heights, h <= g, NEW i, NEW d
    PROVE  /\ LegsOf(h, i, d) \subseteq LegsOf(g, i, d)
           /\ (\A n \in (h + 1)..g : \A k \in DOMAIN Chain[n] : Chain[n][k].item # i)
                => LegsOf(g, i, d) = LegsOf(h, i, d)
<1>1. 1..h \subseteq 1..g /\ \A n \in 1..g : n \in 1..h \/ n \in (h + 1)..g  BY HeightsAre
<1>2. ASSUME NEW x \in LegsOf(h, i, d) PROVE x \in LegsOf(g, i, d)
    <2>1. PICK n \in 1..h : \E k \in DOMAIN Chain[n] :
                    x = <<n, k>> /\ Chain[n][k].item = i /\ Chain[n][k].dir = d
        BY <1>2, LegsOfIs
    <2> QED BY <1>1, <2>1, LegsOfIs
<1>3. ASSUME \A n \in (h + 1)..g : \A k \in DOMAIN Chain[n] : Chain[n][k].item # i,
             NEW x \in LegsOf(g, i, d)
      PROVE  x \in LegsOf(h, i, d)
    <2>1. PICK n \in 1..g : \E k \in DOMAIN Chain[n] :
                    x = <<n, k>> /\ Chain[n][k].item = i /\ Chain[n][k].dir = d
        BY <1>3, LegsOfIs
    <2>2. n \in 1..h  BY <1>1, <1>3, <2>1
    <2> QED BY <2>1, <2>2, LegsOfIs
<1> QED BY <1>2, <1>3

LEMMA GainedGrows ==
    ASSUME NEW q \in PNL, NEW h \in Heights, NEW g \in Heights, h <= g
    PROVE  Gained(q, h) \subseteq Gained(q, g)
<1>1. g \in h..Len(Chain)  BY HeightsAre
<1> QED BY <1>1 DEF Gained, Steady

\* A PnL answer is that of a provider, or none.
LEMMA GainsAre ==
    ASSUME NEW o \in BOOLEAN, NEW h \in Heights, NEW f \in Gains[o][h]
    PROVE  f = NoPnl \/ f \in Fresh(h)
<1>1. PICK up \in Ups(o) : f = pnlOf(h, up)  BY DEF Gains
<1>2. \A q \in PNL : pnlAnswer(q, h) = NoPnl \/ pnlAnswer(q, h) \in Fresh(h)  BY DEF pnlAnswer, Fresh
<1>3. goldrushPnl(h) = pnlAnswer("goldrush", h) /\ moralisPnl(h) = pnlAnswer("moralis", h)
    BY DEF goldrushPnl, moralisPnl
<1>4. f \in {goldrushPnl(h), moralisPnl(h), NoPnl}  BY <1>1 DEF pnlOf
<1> QED BY <1>2, <1>3, <1>4 DEF PNL

LEMMA FreshIs ==
    ASSUME NEW h \in Heights, NEW f \in Fresh(h)
    PROVE  f \in PnlSet /\ f.by \in PNL /\ f.tokens \cap Steady = Gained(f.by, h)
<1>1. PICK q \in PNL : f = [by |-> q, tokens |-> PnlInfo[q][h]]  BY DEF Fresh
<1>2. PnlInfo[q][h] \in SUBSET TokenSet  BY WalletDataAssumption
<1> QED BY <1>1, <1>2 DEF PnlSet, Gained

\* Nothing is between two heights that moved a token: the balance is the same.
LEMMA SameBalance ==
    ASSUME NEW h \in Heights, NEW g \in Heights, h <= g, NEW t \in TokenSet,
           \A n \in (h + 1)..g : \A k \in DOMAIN Chain[n] : Chain[n][k].item # t
    PROVE  HeldAt(h, t) = HeldAt(g, t)
<1>1. LegsOf(g, t, "in") = LegsOf(h, t, "in") /\ LegsOf(g, t, "out") = LegsOf(h, t, "out")  BY LegsOfGrow
<1>2. \A m \in Heights : HeldAt(m, t) = Opening[t] + Cardinality(LegsOf(m, t, "in")) - Cardinality(LegsOf(m, t, "out"))
    BY DEF HeldAt, holdings, Heights
<1> QED BY <1>1, <1>2

-----------------------------------------------------------------------------
(* The summaries *)

\* A wallet whose tokens fit into a summary.
Small == Cardinality(TokenSet) <= MaxTokens

LEMMA PlaceIs == ASSUME NEW t \in TokenSet PROVE place(t) \in Nat
<1>1. \E n \in DOMAIN Tokens : Tokens[n] = t  BY DEF TokenSet, ToSet
<1>2. DOMAIN Tokens \subseteq Nat
    <2>1. Tokens \in Seq(TokenSet)  BY WalletDataAssumption
    <2> QED BY <2>1, LenProperties
<1> QED BY <1>1, <1>2 DEF place

LEMMA TokensAreFinite == IsFiniteSet(TokenSet) /\ Cardinality(TokenSet) \in Nat
<1>1. Tokens \in [1..Len(Tokens) -> TokenSet] /\ Len(Tokens) \in Nat /\ DOMAIN Tokens = 1..Len(Tokens)
    <2>1. Tokens \in Seq(TokenSet)  BY WalletDataAssumption
    <2> QED BY <2>1, LenProperties
<1>2. \A t \in TokenSet : \E n \in 1..Len(Tokens) : Tokens[n] = t  BY <1>1 DEF TokenSet, ToSet
<1>3. Tokens \in Surjection(1..Len(Tokens), TokenSet)  BY <1>1, <1>2 DEF Surjection
<1>4. IsFiniteSet(TokenSet)  BY <1>1, <1>3, FS_NatSurjection DEF ExistsSurjection
<1> QED BY <1>4, FS_CardinalityType

\* What one provider answers: it leaves no token out that it keeps.
LEMMA SummaryOf ==
    ASSUME NEW p \in PROVIDERS, NEW h \in Heights, NEW up
    PROVE  LET s == getSummary(p, h, up)
               kept == {t \in TokenSet : HeldAt(h, t) > 0 /\ keeps(p, t)}
           IN  /\ s.status \in {"ok", "empty", "error"} /\ s.tokens \in HeldSet
               /\ s.status # "error" => p \notin {"zerion", "mobula"}
               /\ (s.status = "empty") => kept = {}
               /\ (s.status = "ok" /\ Small) => s.tokens = [t \in kept |-> HeldAt(h, t)]
<1> DEFINE s == getSummary(p, h, up)
           kept == {t \in TokenSet : HeldAt(h, t) > 0 /\ keeps(p, t)}
           b == buildSummary(kept, h)
           none == [t \in {} |-> 0]
<1>1. \A t \in TokenSet : HeldAt(h, t) \in Nat  BY ChainAssumption DEF Heights
<1>2. none \in HeldSet
    <2>1. none \in [{} -> Nat]  OBVIOUS
    <2> QED BY <2>1 DEF HeldSet
<1>3. b \in HeldSet /\ (Small => b = [t \in kept |-> HeldAt(h, t)])
    <2> DEFINE value(t) == Usd[t] * HeldAt(h, t)
               before(u, t) == value(u) > value(t) \/ (value(u) = value(t) /\ place(u) < place(t))
               shown == {t \in kept : Cardinality({u \in kept : before(u, t)}) < MaxTokens}
    <2>1. b = [t \in shown |-> HeldAt(h, t)]  BY DEF buildSummary
    <2>2. shown \subseteq kept /\ kept \subseteq TokenSet  OBVIOUS
    <2>3. Small => kept \subseteq shown
        <3>1. SUFFICES ASSUME Small, NEW t \in kept PROVE Cardinality({u \in kept : before(u, t)}) < MaxTokens
            OBVIOUS
        <3>2. ~before(t, t)
            <4>1. t \in TokenSet /\ Usd[t] \in Nat /\ HeldAt(h, t) \in Nat /\ place(t) \in Nat
                BY <1>1, PlaceIs, WalletDataAssumption
            <4>2. value(t) \in Nat  BY <4>1
            <4> HIDE DEF value
            <4> QED BY <4>1, <4>2
        <3>3. {u \in kept : before(u, t)} \subseteq TokenSet \ {t}  BY <3>2
        <3>4. IsFiniteSet(TokenSet \ {t}) /\ Cardinality(TokenSet \ {t}) = Cardinality(TokenSet) - 1
            BY TokensAreFinite, FS_RemoveElement
        <3>5. /\ Cardinality({u \in kept : before(u, t)}) <= Cardinality(TokenSet \ {t})
              /\ IsFiniteSet({u \in kept : before(u, t)})
            BY <3>3, <3>4, FS_Subset
        <3>6. Cardinality({u \in kept : before(u, t)}) \in Nat  BY <3>5, FS_CardinalityType
        <3>7. MaxTokens \in Nat  BY WalletDataAssumption
        <3> HIDE DEF before
        <3> QED BY <3>1, <3>4, <3>5, <3>6, <3>7, TokensAreFinite DEF Small
    <2> HIDE DEF shown, kept, b
    <2>4. b \in [shown -> Nat]  BY <1>1, <2>1, <2>2
    <2>5. b \in HeldSet  BY <2>2, <2>4 DEF HeldSet
    <2>6. Small => shown = kept  BY <2>2, <2>3
    <2> QED BY <2>1, <2>5, <2>6
<1>4. s = IF p \in {"zerion", "mobula"} \/ p \notin up THEN [status |-> "error", tokens |-> none]
          ELSE IF kept = {} THEN [status |-> "empty", tokens |-> none]
          ELSE [status |-> "ok", tokens |-> b]
    BY DEF getSummary, NoSummary
<1> HIDE DEF s, kept, b, none
<1>5. /\ s.status \in {"ok", "empty", "error"} /\ s.tokens \in HeldSet
      /\ s.status # "error" => p \notin {"zerion", "mobula"}
      /\ (s.status = "empty") => kept = {}
      /\ (s.status = "ok" /\ Small) => s.tokens = [t \in kept |-> HeldAt(h, t)]
    BY <1>2, <1>3, <1>4
<1> QED BY <1>5 DEF s, kept

\* A verified answer is right about the tokens every provider lists, however many are down.
LEMMA SummariesAre ==
    ASSUME NEW o \in BOOLEAN, NEW h \in Heights, NEW s \in Summaries[o][h]
    PROVE  /\ s.status \in {"ok", "empty", "error"} /\ s.tokens \in HeldSet /\ DOMAIN s.tokens \subseteq TokenSet
           /\ (s.status # "error" /\ Small) => Right(s.tokens, h)
<1>1. PICK up \in Ups(o) : s = fetchWalletSummaryForSync(h, up)  BY DEF Summaries
<1> DEFINE a(p) == getSummary(p, h, up)
           found == {p \in Configured : a(p).status = "ok"}
           verdicts == {a(p).status : p \in Configured}
           none == [t \in {} |-> 0]
<1>2. s = IF found # {} THEN a(Preferred(found))
          ELSE [status |-> IF verdicts = {"empty"} THEN "empty" ELSE "error", tokens |-> none]
    BY <1>1 DEF fetchWalletSummaryForSync, NoSummary
<1>3. Configured \subseteq PROVIDERS  BY WalletDataAssumption
<1>4. none \in HeldSet /\ DOMAIN none = {}
    <2>1. none \in [{} -> Nat]  OBVIOUS
    <2> QED BY <2>1 DEF HeldSet
<1>5. \A x \in HeldSet : DOMAIN x \subseteq TokenSet  BY DEF HeldSet
<1>6. \A t \in Everywhere : t \in TokenSet /\ HeldAt(h, t) \in Nat  BY ChainAssumption DEF Everywhere, Heights
<1>7. CASE found # {}
    <2>1. PICK p \in found : p = Preferred(found)  BY <1>3, <1>7, PreferredIsOne
    <2>2. s = a(p) /\ p \in PROVIDERS /\ p \in Configured /\ a(p).status = "ok"  BY <1>2, <1>3, <1>7, <2>1
    <2> DEFINE kept == {t \in TokenSet : HeldAt(h, t) > 0 /\ keeps(p, t)}
    <2>3. /\ s.tokens \in HeldSet /\ p \notin {"zerion", "mobula"} /\ s.status = "ok"
          /\ Small => s.tokens = [t \in kept |-> HeldAt(h, t)]
        BY <2>2, SummaryOf
    <2>4. \A t \in Everywhere : t \in kept <=> HeldAt(h, t) > 0  BY <1>6, <2>2, <2>3 DEF Everywhere
    <2>5. Small => Right(s.tokens, h)
        BY <1>6, <2>3, <2>4 DEF Right
    <2> QED BY <1>5, <2>3, <2>5
<1>8. CASE found = {}
    <2>1. s = [status |-> IF verdicts = {"empty"} THEN "empty" ELSE "error", tokens |-> none]  BY <1>2, <1>8
    <2>2. ASSUME verdicts = {"empty"}, NEW t \in Everywhere PROVE HeldAt(h, t) = 0
        <3>1. PICK p \in Configured : a(p).status = "empty"  BY <2>2
        <3>2. p \notin {"zerion", "mobula"} /\ {u \in TokenSet : HeldAt(h, u) > 0 /\ keeps(p, u)} = {}
            BY <1>3, <3>1, SummaryOf
        <3>3. keeps(p, t)  BY <3>2 DEF Everywhere
        <3> QED BY <1>6, <3>2, <3>3
    <2> HIDE DEF verdicts, none
    <2>3. s.tokens = none /\ s.status \in {"empty", "error"} /\ (s.status = "empty" => verdicts = {"empty"})
        BY <2>1
    <2> QED BY <1>4, <1>5, <2>2, <2>3 DEF Right
<1> QED BY <1>7, <1>8

LEMMA HoldingsAre ==
    ASSUME NEW o \in BOOLEAN, NEW h \in Heights, NEW S \in Holdings[o][h]
    PROVE  S \subseteq Nfts
<1>1. PICK up \in Ups(o) : S = fetchNftHoldings(h, up)  BY DEF Holdings
<1> DEFINE able == up \cap Configured \cap {"moralis", "goldrush", "alchemy"}
           held == [moralis |-> moralisNfts(h), goldrush |-> goldrushNfts(h), alchemy |-> alchemyNfts(h)]
<1>2. S = IF able = {} THEN {} ELSE held[Preferred(able)]  BY <1>1 DEF fetchNftHoldings
<1>3. able # {} => Preferred(able) \in {"moralis", "goldrush", "alchemy"}
    <2>1. able \in SUBSET PROVIDERS  BY WalletDataAssumption
    <2> QED BY <2>1, PreferredIsOne
<1>4. \A p \in {"moralis", "goldrush", "alchemy"} : held[p] \subseteq Nfts
    BY DEF moralisNfts, goldrushNfts, alchemyNfts, NftsAt
<1> HIDE DEF held, able
<1> QED BY <1>2, <1>3, <1>4

-----------------------------------------------------------------------------
(* The pages *)

LEMMA LegsInIs ==
    ASSUME NEW N, NEW D
    PROVE  \A n, k : <<n, k>> \in LegsIn(N, D) <=> (n \in N /\ k \in DOMAIN Chain[n] /\ Chain[n][k].dir \in D)
BY DEF LegsIn

LEMMA LegsInAll ==
    ASSUME NEW N \in SUBSET Hashes, NEW D \in SUBSET {"in", "out"}
    PROVE  LegsIn(N, D) \subseteq AllLegs
<1>1. ASSUME NEW x \in LegsIn(N, D) PROVE x \in AllLegs
    <2>1. PICK n \in N : \E k \in DOMAIN Chain[n] : x = <<n, k>> /\ Chain[n][k].dir \in D  BY <1>1 DEF LegsIn
    <2>2. PICK k \in DOMAIN Chain[n] : x = <<n, k>> /\ Chain[n][k].dir \in D  BY <2>1
    <2>3. n \in Hashes /\ Chain[n][k].dir \in {"in", "out"}  BY <2>2
    <2> QED BY <2>2, <2>3, LegsInIs DEF AllLegs
<1> QED BY <1>1

\* The newest of N: those from the place on where the next page starts.
LEMMA NewestAre ==
    ASSUME NEW h \in Nat, NEW N \in SUBSET (1..h), NEW size \in Nat \ {0}
    PROVE  /\ Newest(N, size) \subseteq N
           /\ Older(N, size) \in N \cup {0}
           /\ \A n \in N : n >= Older(N, size) => n \in Newest(N, size)
<1> DEFINE Above(n) == {m \in N : m > n}
<1>0. \A n \in N : n \in Nat  OBVIOUS
<1>1. IsFiniteSet(N) /\ Cardinality(N) \in Nat
    <2>1. IsFiniteSet(1..h)  BY FS_Interval
    <2> QED BY <2>1, FS_Subset, FS_CardinalityType
<1>2. \A n \in N : IsFiniteSet(Above(n)) /\ Cardinality(Above(n)) \in Nat
    BY <1>1, FS_Subset, FS_CardinalityType
<1>3. Newest(N, size) = {n \in N : Cardinality(Above(n)) < size}  BY DEF Newest
<1>4. CASE Cardinality(N) > size
    <2>1. N # {}
        <3>1. SUFFICES ASSUME N = {} PROVE FALSE  OBVIOUS
        <3>2. Cardinality(N) = 0  BY <3>1, FS_EmptySet
        <3> QED BY <1>4, <3>2
    <2>2. N \in SUBSET (0..h)  OBVIOUS
    <2>3. PICK g \in N : \A n \in N : n <= g  BY <2>1, <2>2, GreatestOf
    <2>4. Above(g) = {}
        <3>1. ASSUME NEW m \in N PROVE ~(m > g)
            <4>1. m \in Nat /\ g \in Nat /\ m <= g  BY <1>0, <2>3
            <4> QED BY <4>1
        <3> QED BY <3>1
    <2>5. Cardinality(Above(g)) = 0  BY <2>4, FS_EmptySet
    <2>6. g \in Newest(N, size)  BY <1>3, <2>5
    <2>7. Newest(N, size) \in SUBSET Nat  BY <1>0, <1>3
    <2>8. PICK l \in Newest(N, size) : \A m \in Newest(N, size) : l <= m  BY <2>6, <2>7, LeastOf
    <2>9. Older(N, size) \in Newest(N, size)  BY <1>4, <2>8 DEF Older
    <2>10. ASSUME NEW n \in N, n >= Older(N, size) PROVE n \in Newest(N, size)
        <3>1. PICK l2 \in Newest(N, size) : l2 = Older(N, size)  BY <2>9
        <3>2. Above(n) \subseteq Above(l2) /\ l2 \in N
            <4>1. l2 \in N /\ n \in Nat /\ l2 \in Nat /\ n >= l2  BY <1>0, <1>3, <2>10, <3>1
            <4>2. ASSUME NEW m \in N, m > n PROVE m > l2
                <5>1. m \in Nat  BY <1>0
                <5> QED BY <4>1, <4>2, <5>1
            <4> QED BY <4>1, <4>2
        <3>3. Cardinality(Above(n)) <= Cardinality(Above(l2))  BY <1>2, <3>2, FS_Subset
        <3>4. Cardinality(Above(l2)) < size  BY <1>3, <3>1
        <3> HIDE DEF Above
        <3> QED BY <1>2, <1>3, <3>2, <3>3, <3>4
    <2> QED BY <1>3, <2>9, <2>10
<1>5. CASE ~(Cardinality(N) > size)
    <2>1. Older(N, size) = 0  BY <1>5 DEF Older
    <2>2. ASSUME NEW n \in N PROVE n \in Newest(N, size)
        <3>1. Above(n) \subseteq N \ {n}  OBVIOUS
        <3>2. IsFiniteSet(N \ {n}) /\ Cardinality(N \ {n}) = Cardinality(N) - 1  BY <1>1, FS_RemoveElement
        <3>3. Cardinality(Above(n)) <= Cardinality(N \ {n})  BY <3>1, <3>2, FS_Subset
        <3> HIDE DEF Above
        <3> QED BY <1>1, <1>2, <1>3, <1>5, <3>2, <3>3
    <2> QED BY <1>3, <2>1, <2>2
<1> QED BY <1>4, <1>5

LEMMA CursorFacts ==
    /\ NoCursor \in Cursors
    /\ \A c \in Cursors :
         /\ c.f \in Heights /\ c.t \in Heights
         /\ c.by \in {"none", "moralis", "goldrush", "alchemy"}
         /\ c.by = "none" <=> c = NoCursor
         /\ c.by \in {"moralis", "goldrush"} => c.f = c.t /\ c.f \in Hashes
    /\ \A f, t \in Heights : [by |-> "alchemy", f |-> f, t |-> t] \in Cursors
    /\ \A p \in {"moralis", "goldrush"}, n \in Hashes : [by |-> p, f |-> n, t |-> n] \in Cursors
<1>1. NoCursor \in Cursors  BY DEF Cursors
<1>2. ASSUME NEW c \in Cursors
      PROVE  /\ c.f \in Heights /\ c.t \in Heights
             /\ c.by \in {"none", "moralis", "goldrush", "alchemy"}
             /\ c.by = "none" <=> c = NoCursor
             /\ c.by \in {"moralis", "goldrush"} => c.f = c.t /\ c.f \in Hashes
    <2>1. NoCursor.by = "none" /\ NoCursor.f = 0 /\ NoCursor.t = 0 /\ 0 \in Heights
        BY HeightsAre DEF NoCursor
    <2>2. CASE c = NoCursor  BY <2>1, <2>2
    <2>3. CASE c \in [by : {"alchemy"}, f : Heights, t : Heights]
        <3>1. c.by = "alchemy" /\ c.f \in Heights /\ c.t \in Heights  BY <2>3
        <3> QED BY <2>1, <3>1
    <2>4. ASSUME NEW p \in {"moralis", "goldrush"}, NEW n \in Hashes, c = [by |-> p, f |-> n, t |-> n]
          PROVE  c.by = p /\ c.f = n /\ c.t = n /\ n \in Heights
        BY <2>4, HeightsAre
    <2>5. \/ c = NoCursor \/ c \in [by : {"alchemy"}, f : Heights, t : Heights]
          \/ \E p \in {"moralis", "goldrush"}, n \in Hashes : c = [by |-> p, f |-> n, t |-> n]
        BY DEF Cursors
    <2> QED BY <2>1, <2>2, <2>3, <2>4, <2>5
<1>3. \A f, t \in Heights : [by |-> "alchemy", f |-> f, t |-> t] \in Cursors  BY DEF Cursors
<1>4. \A p \in {"moralis", "goldrush"}, n \in Hashes : [by |-> p, f |-> n, t |-> n] \in Cursors
    BY DEF Cursors
<1> QED BY <1>1, <1>2, <1>3, <1>4

\* What a page is for: of the transactions up to h that lie behind its next cursor, those that did
\* not lie behind the cursor it was asked for with are on it.
Carries(g, c, h) == \A n \in 1..h :
    Behind(g.next, g.ok, n) => (Behind(c, FALSE, n) \/ \E k \in DOMAIN Chain[n] : <<n, k>> \in g.legs)

LEMMA NoPageIs == ASSUME NEW c, NEW h PROVE NoPage \in PageSet /\ Carries(NoPage, c, h) /\ ~NoPage.ok
<1>1. NoPage.next = NoCursor /\ ~NoPage.ok  BY DEF NoPage
<1>2. NoPage \in PageSet  BY CursorFacts DEF NoPage, PageSet
<1> QED BY <1>1, <1>2 DEF Carries, Behind

LEMMA WholePageIs ==
    ASSUME NEW p \in {"moralis", "goldrush"}, NEW b \in Heights
    PROVE  LET g == wholePage(p, 1..b)
           IN  /\ g \in PageSet /\ g.ok
               /\ \A n \in 1..b : Behind(g.next, TRUE, n) => \E k \in DOMAIN Chain[n] : <<n, k>> \in g.legs
<1> DEFINE N == 1..b
           size == PageSize[p]
           legs == LegsIn(Newest(N, size), {"in", "out"})
           next == IF Older(N, size) = 0 THEN NoCursor ELSE [by |-> p, f |-> Older(N, size), t |-> Older(N, size)]
           g == wholePage(p, N)
<1>1. g = [ok |-> TRUE, legs |-> legs, next |-> next]  BY DEF wholePage
<1>2. size \in Nat \ {0} /\ b \in Nat /\ N \subseteq Hashes
    BY HeightsAre, WalletDataAssumption DEF PROVIDERS
<1>3. /\ Newest(N, size) \subseteq N /\ Older(N, size) \in N \cup {0}
      /\ \A n \in N : n >= Older(N, size) => n \in Newest(N, size)
    BY <1>2, NewestAre
<1>4. legs \subseteq AllLegs  BY <1>2, <1>3, LegsInAll
<1>5. next \in Cursors  BY <1>2, <1>3, CursorFacts
<1>6. ASSUME NEW n \in N, Behind(next, TRUE, n) PROVE \E k \in DOMAIN Chain[n] : <<n, k>> \in legs
    <2>1. n \in Hashes /\ 1 \in DOMAIN Chain[n]  BY <1>2, ChainLegs
    <2>2. Chain[n][1].dir \in {"in", "out"}  BY <2>1, ChainLegs, LegShape
    <2>3. n >= Older(N, size)
        <3>1. CASE Older(N, size) = 0  BY <1>2, <3>1
        <3>2. CASE Older(N, size) # 0
            <4>1. PICK o \in N : o = Older(N, size)  BY <1>3, <3>2
            <4>2. next = [by |-> p, f |-> o, t |-> o]  BY <3>2, <4>1
            <4>3. next.f = o /\ next.t = o /\ next # NoCursor  BY <4>2 DEF NoCursor
            <4>4. n >= (IF Chain[n][1].dir = "out" THEN next.f ELSE next.t)  BY <1>6, <2>1, <4>3 DEF Behind
            <4> QED BY <4>1, <4>3, <4>4
        <3> QED BY <3>1, <3>2
    <2>4. n \in Newest(N, size)  BY <1>3, <2>3
    <2>5. <<n, 1>> \in legs  BY <2>1, <2>2, <2>4, LegsInIs
    <2> QED BY <2>1, <2>5
<1> HIDE DEF N, legs, next, g
<1>7. g \in PageSet /\ g.ok /\ g.legs = legs /\ g.next = next  BY <1>1, <1>4, <1>5 DEF PageSet, AllLegs
<1>8. \A n \in N : Behind(g.next, TRUE, n) => \E k \in DOMAIN Chain[n] : <<n, k>> \in g.legs  BY <1>6, <1>7
<1> QED BY <1>7, <1>8 DEF g, N

LEMMA MoralisPageIs ==
    ASSUME NEW c \in Cursors, NEW h \in Heights
    PROVE  moralisPage(c, h) \in PageSet /\ Carries(moralisPage(c, h), c, h)
<1>1. CASE c = NoCursor
    <2>1. moralisPage(c, h) = wholePage("moralis", 1..h)  BY <1>1 DEF moralisPage
    <2>2. PICK g : g = wholePage("moralis", 1..h)  OBVIOUS
    <2> QED BY <2>1, <2>2, WholePageIs DEF Carries
<1>2. CASE c # NoCursor /\ c.by = "moralis"
    <2>1. PICK b \in Heights : b = c.f - 1 /\ c.t = c.f /\ c.f \in Hashes  BY <1>2, CursorFacts, HeightsAre
    <2>2. PICK g : g = wholePage("moralis", 1..b)  OBVIOUS
    <2>3. moralisPage(c, h) = g  BY <1>2, <2>1, <2>2 DEF moralisPage
    <2>4. /\ g \in PageSet /\ g.ok
          /\ \A n \in 1..b : Behind(g.next, TRUE, n) => \E k \in DOMAIN Chain[n] : <<n, k>> \in g.legs
        BY <2>2, WholePageIs
    <2>5. \A n \in 1..h : n \in 1..b \/ n >= c.f  BY <2>1, HeightsAre
    <2>6. \A n \in 1..h : n \in 1..b \/ Behind(c, FALSE, n)  BY <1>2, <2>1, <2>5 DEF Behind
    <2> QED BY <2>3, <2>4, <2>6 DEF Carries
<1>3. CASE c # NoCursor /\ c.by # "moralis"
    BY <1>3, NoPageIs DEF moralisPage
<1> QED BY <1>1, <1>2, <1>3

LEMMA GoldrushPageIs ==
    ASSUME NEW c \in Cursors, NEW h \in Heights
    PROVE  goldrushPage(c, h) \in PageSet /\ Carries(goldrushPage(c, h), c, h)
<1>1. CASE c.by # "goldrush"
    <2>1. goldrushPage(c, h) = wholePage("goldrush", 1..h)  BY <1>1 DEF goldrushPage
    <2>2. PICK g : g = wholePage("goldrush", 1..h)  OBVIOUS
    <2> QED BY <2>1, <2>2, WholePageIs DEF Carries
<1>2. CASE c.by = "goldrush"
    <2>1. PICK b \in Heights : b = c.f - 1 /\ c.t = c.f /\ c.f \in Hashes  BY <1>2, CursorFacts, HeightsAre
    <2>2. PICK g : g = wholePage("goldrush", 1..b)  OBVIOUS
    <2>3. goldrushPage(c, h) = g /\ c # NoCursor  BY <1>2, <2>1, <2>2 DEF goldrushPage, NoCursor
    <2>4. /\ g \in PageSet /\ g.ok
          /\ \A n \in 1..b : Behind(g.next, TRUE, n) => \E k \in DOMAIN Chain[n] : <<n, k>> \in g.legs
        BY <2>2, WholePageIs
    <2>5. \A n \in 1..h : n \in 1..b \/ n >= c.f  BY <2>1, HeightsAre
    <2>6. \A n \in 1..h : n \in 1..b \/ Behind(c, FALSE, n)  BY <2>1, <2>3, <2>5 DEF Behind
    <2> QED BY <2>3, <2>4, <2>6 DEF Carries
<1> QED BY <1>1, <1>2

LEMMA AlchemyPageIs ==
    ASSUME NEW c \in Cursors, NEW h \in Heights, NEW answers \in SUBSET {"in", "out"}
    PROVE  /\ alchemyPage(c, h, answers) \in PageSet
           /\ answers = {"in", "out"} => Carries(alchemyPage(c, h, answers), c, h)
<1> DEFINE first == c = NoCursor
           N(d, below) == {n \in 1..(IF first THEN h ELSE below - 1) : LegsIn({n}, {d}) # {}}
           asked == (IF first \/ c.f # 0 THEN {"out"} ELSE {}) \cup (IF first \/ c.t # 0 THEN {"in"} ELSE {})
           got(d) == d \in asked \cap answers
           size == PageSize["alchemy"]
           legs(d, below) == IF got(d) THEN LegsIn(Newest(N(d, below), size), {d}) ELSE {}
           key(d, below) == IF got(d) THEN Older(N(d, below), size) ELSE 0
           next == [by |-> "alchemy", f |-> key("out", c.f), t |-> key("in", c.t)]
           refused == c.by \notin {"none", "alchemy"} \/ asked \cap answers = {}
           g == alchemyPage(c, h, answers)
<1>1. g = IF refused THEN NoPage
          ELSE [ok |-> TRUE, legs |-> legs("out", c.f) \cup legs("in", c.t),
                next |-> IF next.f = 0 /\ next.t = 0 THEN NoCursor ELSE next]
    BY DEF alchemyPage
<1>2. size \in Nat \ {0}  BY WalletDataAssumption DEF PROVIDERS
<1>3. c.f \in Heights /\ c.t \in Heights  BY CursorFacts
\* One direction.
<1>4. ASSUME NEW d \in {"in", "out"}, NEW below \in Heights
      PROVE  /\ key(d, below) \in Heights /\ legs(d, below) \subseteq AllLegs
             /\ \A n \in N(d, below), k \in Nat :
                  (got(d) /\ n >= key(d, below) /\ k \in DOMAIN Chain[n] /\ Chain[n][k].dir = d)
                      => <<n, k>> \in legs(d, below)
    <2>1. N(d, below) \in SUBSET (1..Len(Chain)) /\ Len(Chain) \in Nat  BY HeightsAre
    <2>2. PICK M \in SUBSET (1..Len(Chain)) : M = N(d, below)  BY <2>1
    <2>3. /\ Newest(M, size) \subseteq M /\ Older(M, size) \in M \cup {0}
          /\ \A n \in M : n >= Older(M, size) => n \in Newest(M, size)
        BY <1>2, <2>1, NewestAre
    <2>4. Older(M, size) \in Heights
        <3>1. 0 \in Heights /\ \A m \in 1..Len(Chain) : m \in Heights  BY <2>1, HeightsAre
        <3> QED BY <2>3, <3>1
    <2>5. LegsIn(Newest(M, size), {d}) \subseteq AllLegs  BY <2>3, LegsInAll DEF Hashes
    <2>6. key(d, below) \in {0, Older(M, size)} /\ legs(d, below) \in {{}, LegsIn(Newest(M, size), {d})}
          /\ (got(d) => key(d, below) = Older(M, size) /\ legs(d, below) = LegsIn(Newest(M, size), {d}))
        BY <2>2
    <2>7. ASSUME NEW n \in M, NEW k \in Nat, n >= Older(M, size), k \in DOMAIN Chain[n], Chain[n][k].dir = d
          PROVE  <<n, k>> \in LegsIn(Newest(M, size), {d})
        <3>1. n \in Newest(M, size)  BY <2>3, <2>7
        <3> QED BY <2>7, <3>1, LegsInIs
    <2> HIDE DEF N, got, key, legs
    <2>8. key(d, below) \in Heights /\ legs(d, below) \subseteq AllLegs  BY <2>4, <2>5, <2>6, HeightsAre
    <2> QED BY <2>2, <2>6, <2>7, <2>8
<1>5. CASE refused  BY <1>1, <1>5, NoPageIs
<1>6. CASE ~refused
    <2>1. PICK f \in Heights, t \in Heights : f = key("out", c.f) /\ t = key("in", c.t)
        BY <1>3, <1>4
    <2>2. PICK nx \in Cursors : nx = IF f = 0 /\ t = 0 THEN NoCursor ELSE [by |-> "alchemy", f |-> f, t |-> t]
        BY CursorFacts
    <2>3. PICK L \in SUBSET AllLegs : L = legs("out", c.f) \cup legs("in", c.t)
        BY <1>3, <1>4
    <2>4. g = [ok |-> TRUE, legs |-> L, next |-> nx]
        <3>1. next.f = f /\ next.t = t /\ next = [by |-> "alchemy", f |-> f, t |-> t]  BY <2>1
        <3> HIDE DEF next, legs, refused, g
        <3> QED BY <1>1, <1>6, <2>2, <2>3, <3>1
    <2>5. g \in PageSet /\ g.ok /\ g.legs = L /\ g.next = nx  BY <2>4 DEF PageSet, AllLegs
    <2>6. ASSUME answers = {"in", "out"}, NEW n \in 1..h, Behind(nx, TRUE, n), ~Behind(c, FALSE, n)
          PROVE  \E k \in DOMAIN Chain[n] : <<n, k>> \in L
        <3>1. n \in Hashes /\ n \in Nat  BY HeightsAre
        <3>2. /\ 1 \in DOMAIN Chain[n]
              /\ \A k \in DOMAIN Chain[n] : k \in Nat /\ Chain[n][k].dir \in {"in", "out"}
            BY <3>1, ChainLegs, LegShape
        <3> DEFINE Below(d) == IF d = "out" THEN c.f ELSE c.t
        \* A leg that does not lie behind c was asked for.
        <3>3. PICK k \in DOMAIN Chain[n] : first \/ n < Below(Chain[n][k].dir)
            <4>1. CASE first  BY <3>2, <4>1
            <4>2. CASE ~first
                <5>1. PICK k \in DOMAIN Chain[n] : ~(n >= (IF Chain[n][k].dir = "out" THEN c.f ELSE c.t))
                    BY <2>6, <4>2 DEF Behind
                <5>2. Below(Chain[n][k].dir) \in Nat  BY <1>3, HeightsAre
                <5> QED BY <3>1, <5>1, <5>2
            <4> QED BY <4>1, <4>2
        <3>4. PICK d \in {"in", "out"} : d = Chain[n][k].dir  BY <3>2
        <3>5. PICK b \in Heights : b = Below(d)  BY <1>3
        <3>6. got(d)
            <4>1. first \/ b # 0  BY <3>1, <3>3, <3>4, <3>5
            <4>2. d \in asked
                <5>1. CASE d = "out"  BY <3>5, <4>1, <5>1
                <5>2. CASE d = "in"  BY <3>5, <4>1, <5>2
                <5> QED BY <5>1, <5>2
            <4> QED BY <2>6, <4>2
        <3>7. n \in N(d, b)
            <4>1. n \in 1..(IF first THEN h ELSE b - 1)  BY <3>1, <3>3, <3>4, <3>5, HeightsAre
            <4>2. <<n, k>> \in LegsIn({n}, {d})  BY <3>4, LegsInIs
            <4> QED BY <4>1, <4>2
        <3>8. n >= key(d, b)
            <4>1. n >= (IF d = "out" THEN f ELSE t)
                <5>1. CASE f = 0 /\ t = 0  BY <3>1, <5>1
                <5>2. CASE ~(f = 0 /\ t = 0)
                    <6>1. nx.f = f /\ nx.t = t /\ nx # NoCursor  BY <2>2, <5>2 DEF NoCursor
                    <6> QED BY <2>6, <3>4, <6>1 DEF Behind
                <5> QED BY <5>1, <5>2
            <4>2. key(d, b) = IF d = "out" THEN f ELSE t
                <5> HIDE DEF key
                <5> QED BY <2>1, <3>5
            <4> QED BY <4>1, <4>2
        <3>9. <<n, k>> \in legs(d, b)
            <4> HIDE DEF N, got, key, legs
            <4> QED BY <1>4, <3>2, <3>4, <3>6, <3>7, <3>8
        <3>10. <<n, k>> \in L
            <4>1. legs(d, b) \subseteq L
                <5> HIDE DEF legs
                <5>1. CASE d = "out"  BY <2>3, <3>5, <5>1
                <5>2. CASE d = "in"  BY <2>3, <3>5, <5>2
                <5> QED BY <5>1, <5>2
            <4> HIDE DEF legs
            <4> QED BY <3>9, <4>1
        <3> QED BY <3>10
    <2> HIDE DEF g
    <2>7. answers = {"in", "out"} => Carries(g, c, h)  BY <2>5, <2>6 DEF Carries
    <2> QED BY <2>5, <2>7 DEF g
<1> QED BY <1>5, <1>6

\* A page is one of a provider that was asked, or none.
LEMMA FetchedPage ==
    ASSUME NEW c \in Cursors, NEW h \in Heights, NEW up, NEW answers \in SUBSET {"in", "out"}
    PROVE  LET g == fetchTransferPage(c, h, up, answers)
           IN  g \in PageSet /\ (answers = {"in", "out"} => Carries(g, c, h))
<1> DEFINE able == {p \in up \cap Configured : pageOf(p, c, h, answers).ok}
           g == fetchTransferPage(c, h, up, answers)
<1>1. g = IF able = {} THEN NoPage ELSE pageOf(Preferred(able), c, h, answers)  BY DEF fetchTransferPage
<1>2. ASSUME NEW p \in PROVIDERS
      PROVE  /\ pageOf(p, c, h, answers) \in PageSet
             /\ answers = {"in", "out"} => Carries(pageOf(p, c, h, answers), c, h)
    <2>1. CASE p = "moralis"  BY <2>1, MoralisPageIs DEF pageOf
    <2>2. CASE p = "goldrush"  BY <2>2, GoldrushPageIs DEF pageOf
    <2>3. CASE p = "alchemy"  BY <2>3, AlchemyPageIs DEF pageOf
    <2>4. CASE p \in {"zerion", "mobula", "ankr"}  BY <2>4, NoPageIs DEF pageOf
    <2> QED BY <2>1, <2>2, <2>3, <2>4 DEF PROVIDERS
<1>3. able \in SUBSET PROVIDERS  BY WalletDataAssumption
<1> HIDE DEF able, g
<1>4. able # {} => Preferred(able) \in PROVIDERS  BY <1>3, PreferredIsOne
<1>5. g \in PageSet /\ (answers = {"in", "out"} => Carries(g, c, h))  BY <1>1, <1>2, <1>4, NoPageIs
<1> QED BY <1>5 DEF g

LEMMA PagesAre ==
    ASSUME NEW o \in BOOLEAN, NEW h \in Heights, NEW c \in Cursors, NEW g \in Pages[o][h][c]
    PROVE  g \in PageSet /\ (g \in WholePages[h][c] => Carries(g, c, h))
<1>1. PICK up \in Ups(o), a \in Halves(o) : g = fetchTransferPage(c, h, up, a)  BY DEF Pages
<1>2. a \in SUBSET {"in", "out"}  BY DEF Halves
<1>3. g \in PageSet  BY <1>1, <1>2, FetchedPage
<1>4. ASSUME g \in WholePages[h][c] PROVE Carries(g, c, h)
    <2>1. PICK full \in SUBSET Configured : g = fetchTransferPage(c, h, full, {"in", "out"})
        BY <1>4 DEF WholePages
    <2> QED BY <2>1, FetchedPage
<1> QED BY <1>3, <1>4

-----------------------------------------------------------------------------
(* What a step of a process does *)

\* Process p goes from job[p] to n.
Step(p, n) == /\ n \in JobSet /\ Shape(n) /\ (n.at = "legs" => n.n \in 1..height)
              /\ job' = [job EXCEPT ![p] = n]
              /\ connected /\ UNCHANGED <<height, connected>>

\* The rows of the feed stay, and a row of a balance that was not there is empty.
Grows == /\ feed' \in [Hashes -> Nat] /\ \A m \in Hashes : feed[m] # 0 => feed'[m] # 0
         /\ balance' \in [TokenSet -> Nat \cup {None}]
         /\ \A t \in TokenSet : balance'[t] = balance[t] \/ (balance[t] = None /\ balance'[t] = 0)

LEMMA IdleIs ==
    /\ Idle \in JobSet /\ Shape(Idle) /\ Idle.op = "none" /\ Idle.at = "idle" /\ Idle.cost = {} /\ Idle.todo = {}
    /\ Idle.lone = TRUE /\ ~Full(Idle) /\ Idle.held = NoHeld
<1>1. NoHeld \in HeldSet
    <2>1. NoHeld \in [{} -> Nat]  BY DEF NoHeld
    <2> QED BY <2>1 DEF HeldSet
<1>2. /\ Idle.op = "none" /\ Idle.at = "idle" /\ Idle.n = 0 /\ Idle.k = 1 /\ Idle.todo = {} /\ Idle.cost = {}
      /\ Idle.page = {} /\ Idle.next = NoCursor /\ Idle.held = NoHeld /\ Idle.lone = TRUE
    BY DEF Idle
<1>3. Idle \in JobSet
    BY <1>1, CursorFacts, HeightsAre DEF Idle, JobSet
<1>4. Shape(Idle) /\ ~Full(Idle)  BY <1>2 DEF Shape, Full
<1> QED BY <1>2, <1>3, <1>4

LEMMA Started == ASSUME Types, Before, NEW p \in Procs, ~At(p, "idle") PROVE connected
BY IdleIs DEF Before, At, Types

LEMMA HookStartDoes ==
    ASSUME Types, NEW p \in Procs, HookStart(p)
    PROVE  \E n : /\ Step(p, n) /\ At(p, "idle") /\ n.op = "hook" /\ n.at = "legs" /\ n.k = 1 /\ n.cost = {}
                  /\ UNCHANGED <<feedVars, rowVars, pageVars, acked, pnl>>
<1>1. PICK m \in (1..height) \ acked : Goto(p, [Idle EXCEPT !.op = "hook", !.at = "legs", !.n = m])
    BY DEF HookStart
<1>2. PICK n : n = [Idle EXCEPT !.op = "hook", !.at = "legs", !.n = m]  OBVIOUS
<1>3. n \in JobSet /\ n.op = "hook" /\ n.at = "legs" /\ n.n = m /\ n.k = 1 /\ n.cost = {} /\ n.todo = {} /\ n.page = {}
    <2>1. m \in Heights  BY HeightsAre DEF Types
    <2> QED BY <1>2, <2>1, IdleIs DEF JobSet, Idle
<1>4. Shape(n)  BY <1>3 DEF Shape, Full
<1>5. Step(p, n)  BY <1>1, <1>2, <1>3, <1>4 DEF Step, Goto, HookStart
<1> QED BY <1>3, <1>5 DEF HookStart

\* A transfer claims its hash, unless that is claimed.
LEMMA CreateDoes ==
    ASSUME Types, NEW n \in Hashes, NEW k \in DOMAIN Chain[n], Chain[n][k].kind # "nft",
           createTransactionFromWebhook(n, k)
    PROVE  Grows /\ feed'[n] # 0 /\ written' = written
<1>1. Chain[n][k].item \in TokenSet /\ k \in Nat \ {0}  BY ChainLegs, LegShape
<1>2. PICK t \in TokenSet : t = Chain[n][k].item  BY <1>1
<1>3. CASE feed[n] # 0
    BY <1>3 DEF createTransactionFromWebhook, Grows, Types
<1>4. CASE feed[n] = 0
    <2>1. /\ feed' = [feed EXCEPT ![n] = k] /\ written' = written
          /\ balance' = [balance EXCEPT ![t] = IF @ = None THEN 0 ELSE @]
        BY <1>2, <1>4 DEF createTransactionFromWebhook
    <2>2. feed' \in [Hashes -> Nat] /\ feed'[n] # 0 /\ \A m \in Hashes : feed[m] # 0 => feed'[m] # 0
        BY <1>1, <1>4, <2>1 DEF Types
    <2>3. /\ balance' \in [TokenSet -> Nat \cup {None}]
          /\ \A u \in TokenSet : balance'[u] = balance[u] \/ (balance[u] = None /\ balance'[u] = 0)
        BY <2>1 DEF Types
    <2> QED BY <2>1, <2>2, <2>3 DEF Grows
<1> QED BY <1>3, <1>4

\* What a delivery leaves of its leg.
HookLeg(p, n) ==
    LET j == job[p]
        l == Chain[j.n][j.k]
    IN  /\ j.at = "legs" /\ n.at = "legs" /\ n.op = "hook" /\ n.n = j.n /\ n.k = j.k + 1 /\ n.cost = {}
        /\ (j.touched => n.touched)
        /\ (l.kind # "nft" /\ l.item \in Catalog) => (n.touched /\ feed'[j.n] # 0)

LEMMA LegStepDoes ==
    ASSUME Types, Shapes, Before, NEW p \in Procs,
           processNativeTx(p) \/ processErc20Transfer(p) \/ processNftTransfers(p)
    PROVE  \E n : /\ Step(p, n) /\ HookLeg(p, n) /\ Grows
                  /\ UNCHANGED <<lost, listed, known, written, drift, pageVars, acked, pnl>>
<1>1. PICK j \in JobSet : j = job[p] /\ Shape(j) /\ j.at = "legs" /\ j.n \in 1..height
    BY DEF processNativeTx, processErc20Transfer, processNftTransfers, AtLeg, At, Types, Shapes
<1>2. j.n \in Hashes /\ j.k \in DOMAIN Chain[j.n]
    <2>1. j.n \in Hashes  BY <1>1, HeightsAre DEF Types
    <2>2. j.k <= Len(Chain[j.n]) /\ j.k \in Nat \ {0}
        BY <1>1 DEF processNativeTx, processErc20Transfer, processNftTransfers, AtLeg, JobSet
    <2> QED BY <2>1, <2>2, ChainLegs
<1>3. connected  BY <1>1, Started DEF At
<1>4. PICK m, k, l : m = j.n /\ k = j.k /\ l = Chain[m][k]  OBVIOUS
<1>5. l \in Legs  BY <1>2, <1>4, ChainLegs
<1>6. ASSUME NEW b \in BOOLEAN, NextLeg(p, b), UNCHANGED <<height, connected>>,
             Grows, UNCHANGED <<lost, listed, known, written, drift, pageVars, acked, pnl>>,
             (l.kind # "nft" /\ l.item \in Catalog) => (b /\ feed'[m] # 0)
      PROVE  \E n : /\ Step(p, n) /\ HookLeg(p, n) /\ Grows
                    /\ UNCHANGED <<lost, listed, known, written, drift, pageVars, acked, pnl>>
    <2>1. PICK n : n = [j EXCEPT !.k = @ + 1, !.touched = @ \/ b]  OBVIOUS
    <2>2. /\ n \in JobSet /\ Shape(n) /\ n.at = "legs" /\ n.op = "hook" /\ n.n = j.n /\ n.k = j.k + 1 /\ n.cost = {}
          /\ (j.touched \/ b => n.touched)
        <3>1. PICK i \in Nat \ {0} : i = j.k + 1  BY DEF JobSet
        <3>2. PICK c \in BOOLEAN : c = (j.touched \/ b)  OBVIOUS
        <3>3. n = [op |-> j.op, at |-> j.at, n |-> j.n, k |-> i, touched |-> c, held |-> j.held, todo |-> j.todo,
                   cost |-> j.cost, by |-> j.by, owned |-> j.owned, page |-> j.page, next |-> j.next, blank |-> j.blank, lone |-> j.lone]
            BY <2>1, <3>1, <3>2 DEF JobSet
        <3>4. n \in JobSet  BY <3>3 DEF JobSet
        <3>5. n.op = "hook" /\ j.op = "hook" /\ n.cost = {} /\ j.todo \subseteq DOMAIN j.held /\ n.page = {}
            BY <1>1, <3>3 DEF Shape, Full
        <3> QED BY <1>1, <3>1, <3>2, <3>3, <3>4, <3>5 DEF Shape, Full
    <2>3. Step(p, n)  BY <1>1, <1>3, <1>6, <2>1, <2>2 DEF Step, NextLeg, Goto
    <2>4. HookLeg(p, n)  BY <1>1, <1>4, <1>6, <2>2 DEF HookLeg
    <2> QED BY <1>6, <2>3, <2>4
<1>7. ASSUME feed' = feed, balance' = balance PROVE Grows  BY <1>7 DEF Grows, Types
<1>8. CASE processNativeTx(p)
    <2>1. l.kind # "nft" /\ createTransactionFromWebhook(m, k) /\ NextLeg(p, TRUE)
        BY <1>1, <1>4, <1>8 DEF processNativeTx, AtLeg
    <2>2. Grows /\ feed'[m] # 0 /\ written' = written  BY <1>2, <1>4, <2>1, CreateDoes
    <2>3. UNCHANGED <<height, lost, listed, known, drift, pageVars, acked, pnl, connected>>  BY <1>8 DEF processNativeTx
    <2> QED BY <1>6, <2>1, <2>2, <2>3
<1>9. CASE processErc20Transfer(p)
    <2>1. UNCHANGED <<height, lost, listed, known, drift, pageVars, acked, pnl, connected>>  BY <1>9 DEF processErc20Transfer
    <2>2. CASE l.item \in listed
        <3>1. l.kind # "nft" /\ createTransactionFromWebhook(m, k) /\ NextLeg(p, TRUE)
            BY <1>1, <1>4, <1>9, <2>2 DEF processErc20Transfer, AtLeg
        <3>2. Grows /\ feed'[m] # 0 /\ written' = written  BY <1>2, <1>4, <3>1, CreateDoes
        <3> QED BY <1>6, <2>1, <3>1, <3>2
    <2>3. CASE l.item \notin listed
        <3>1. UNCHANGED <<feed, balance, written>> /\ NextLeg(p, FALSE)
            BY <1>1, <1>4, <1>9, <2>3 DEF processErc20Transfer
        <3>2. l.item \notin Catalog  BY <2>3 DEF Types
        <3> QED BY <1>6, <1>7, <2>1, <3>1, <3>2
    <2> QED BY <2>2, <2>3
<1>10. CASE processNftTransfers(p)
    <2>1. l.kind = "nft" /\ NextLeg(p, FALSE)  BY <1>1, <1>4, <1>10 DEF processNftTransfers, AtLeg
    <2>2. UNCHANGED <<height, feed, lost, listed, rowVars, pageVars, acked, pnl, connected>>  BY <1>10 DEF processNftTransfers
    <2> QED BY <1>6, <1>7, <2>1, <2>2 DEF rowVars
<1> QED BY <1>8, <1>9, <1>10

LEMMA HookEndDoes ==
    ASSUME Types, Shapes, Before, NEW p \in Procs, HookFails(p) \/ HookAck(p)
    PROVE  \E n : /\ Step(p, n) /\ At(p, "legs") /\ n.cost = {} /\ n.op \in {"none", "hook"}
                  /\ \/ acked' = acked /\ n = Idle
                     \/ /\ acked' = acked \cup {job[p].n} /\ job[p].k > Len(Chain[job[p].n])
                        /\ n.at = IF job[p].touched THEN "refresh" ELSE "idle"
                  /\ UNCHANGED <<feedVars, rowVars, pageVars, pnl>>
<1>1. PICK j \in JobSet : j = job[p] /\ Shape(j) /\ j.at = "legs"
    BY DEF HookFails, HookAck, At, Types, Shapes
<1>2. connected  BY <1>1, Started DEF At
<1>3. CASE HookFails(p)
    <2>1. Step(p, Idle)  BY <1>2, <1>3, IdleIs DEF HookFails, Goto, Step
    <2> QED BY <1>1, <1>3, <2>1, IdleIs DEF HookFails
<1>4. CASE HookAck(p)
    <2>1. PICK r : r = [Idle EXCEPT !.op = "hook", !.at = "refresh"]  OBVIOUS
    <2>2. r \in JobSet /\ r.op = "hook" /\ r.at = "refresh" /\ r.cost = {} /\ r.todo = {} /\ r.page = {}
        BY <2>1, IdleIs DEF JobSet, Idle
    <2>3. Shape(r)  BY <2>2 DEF Shape, Full
    <2>4. PICK n : n = IF j.touched THEN r ELSE Idle  OBVIOUS
    <2>5. n \in JobSet /\ Shape(n) /\ n.cost = {} /\ n.op \in {"none", "hook"} /\ n.at # "legs"
          /\ n.at = IF j.touched THEN "refresh" ELSE "idle"
        BY <2>2, <2>3, <2>4, IdleIs
    <2>6. Step(p, n)  BY <1>1, <1>2, <1>4, <2>1, <2>4, <2>5 DEF HookAck, Goto, Step
    <2> QED BY <1>1, <1>4, <2>5, <2>6 DEF HookAck
<1> QED BY <1>3, <1>4

LEMMA OutageIs == ASSUME NEW call PROVE Outage(call) \in BOOLEAN
<1>1. CASE call \in ops
    <2>1. (call \in ops) = TRUE  BY <1>1
    <2> QED BY <2>1 DEF Outage
<1>2. CASE ~(call \in ops)
    <2>1. (call \in ops) = FALSE  BY <1>2
    <2> QED BY <2>1 DEF Outage
<1> QED BY <1>1, <1>2

LEMMA RefreshDoes ==
    ASSUME Types, Shapes, Before, NEW p \in Procs, refreshConnectedBalancesFromProvider(p)
    PROVE  \E n : /\ Step(p, n) /\ At(p, "refresh") /\ n.cost = {} /\ Catalog \subseteq listed'
                  /\ \/ n = Idle /\ drift' = TRUE
                     \/ /\ n.op = "hook" /\ n.at = "set" /\ n.todo = DOMAIN n.held
                        /\ (Small => Right(n.held, height))
                        /\ drift' = (drift \/ Overlaps(p))
                  /\ UNCHANGED <<feed, lost, balance, known, written, pageVars, acked, pnl>>
<1>1. At(p, "refresh") /\ connected  BY Started DEF refreshConnectedBalancesFromProvider, At
<1>2. PICK s \in Summaries[Outage("no summary")][height], f \in BOOLEAN :
         IF s.status = "error" \/ f
            THEN /\ Goto(p, Idle) /\ drift' = TRUE /\ UNCHANGED listed
            ELSE /\ Goto(p, [Idle EXCEPT !.op = "hook", !.at = "set", !.held = s.tokens,
                                         !.todo = DOMAIN s.tokens])
                 /\ resolveOrCreateToken(DOMAIN s.tokens)
                 /\ drift' = (drift \/ Overlaps(p))
    BY DEF refreshConnectedBalancesFromProvider
<1>3. /\ s.tokens \in HeldSet /\ DOMAIN s.tokens \subseteq TokenSet
      /\ (s.status # "error" /\ Small) => Right(s.tokens, height)
    <2>1. Outage("no summary") \in BOOLEAN  BY OutageIs
    <2>2. height \in Heights  BY DEF Types
    <2> QED BY <2>1, <2>2, SummariesAre
<1>4. UNCHANGED <<height, feed, lost, balance, known, written, pageVars, acked, pnl, connected>>
    BY DEF refreshConnectedBalancesFromProvider
<1>5. CASE s.status = "error" \/ f
    <2>1. Step(p, Idle)  BY <1>1, <1>2, <1>4, <1>5, IdleIs DEF Goto, Step
    <2>2. drift' = TRUE /\ Catalog \subseteq listed'  BY <1>2, <1>5 DEF Types
    <2> QED BY <1>1, <1>4, <2>1, <2>2, IdleIs
<1>6. CASE ~(s.status = "error" \/ f)
    <2>1. PICK h : h = s.tokens  OBVIOUS
    <2>2. PICK n : n = [Idle EXCEPT !.op = "hook", !.at = "set", !.held = h, !.todo = DOMAIN h]  OBVIOUS
    <2>3. /\ n \in JobSet /\ n.op = "hook" /\ n.at = "set" /\ n.cost = {} /\ n.todo = DOMAIN h /\ n.held = h /\ n.page = {}
        BY <1>3, <2>1, <2>2, IdleIs DEF JobSet, Idle
    <2>4. Shape(n)  BY <2>3 DEF Shape, Full
    <2>5. Step(p, n)  BY <1>1, <1>2, <1>4, <1>6, <2>1, <2>2, <2>3, <2>4 DEF Goto, Step
    <2>6. drift' = (drift \/ Overlaps(p)) /\ Catalog \subseteq listed'
        BY <1>2, <1>6 DEF resolveOrCreateToken, Types
    <2> QED BY <1>1, <1>3, <1>4, <1>6, <2>1, <2>3, <2>5, <2>6
<1> QED BY <1>5, <1>6

\* What a request has with it that a step of its import does not change.
Alike(n, j) == /\ n.op = j.op /\ n.held = j.held /\ n.cost = j.cost /\ n.by = j.by /\ n.next = j.next
               /\ n.blank = j.blank /\ n.lone = j.lone

LEMMA SetBalanceDoes ==
    ASSUME Types, Shapes, Before, NEW p \in Procs, SetBalance(p)
    PROVE  \E n, t : /\ Step(p, n) /\ At(p, "set") /\ t \in job[p].todo /\ t \in TokenSet
                     /\ Alike(n, job[p]) /\ n.at = "set" /\ n.todo = job[p].todo \ {t} /\ n.page = job[p].page
                     /\ \/ drift' = TRUE /\ UNCHANGED <<balance, known, written>>
                        \/ /\ balance' = [balance EXCEPT ![t] = Want(job[p], t)] /\ Want(job[p], t) \in Nat
                           /\ written' = written \cup {t} /\ drift' = drift
                           /\ known' = IF job[p].cost = {} THEN known ELSE [known EXCEPT ![t] = Cost(job[p], t)]
                     /\ UNCHANGED <<feedVars, pageVars, acked, pnl>>
<1>1. PICK j \in JobSet : j = job[p] /\ Shape(j) /\ j.at = "set" /\ j.todo # {}
    BY DEF SetBalance, At, Types, Shapes
<1>2. connected  BY <1>1, Started DEF At
<1> DEFINE First(u) == u \in j.todo /\ \A v \in j.todo : place(u) <= place(v)
<1>3. \E u : First(u)
    <2>1. j.todo \subseteq TokenSet  BY DEF JobSet
    <2>2. {place(v) : v \in j.todo} \in SUBSET Nat /\ {place(v) : v \in j.todo} # {}  BY <1>1, <2>1, PlaceIs
    <2>3. PICK m \in {place(v) : v \in j.todo} : \A i \in {place(v) : v \in j.todo} : m <= i  BY <2>2, LeastOf
    <2> QED BY <2>3
<1>4. PICK t : t = CHOOSE u \in j.todo : \A v \in j.todo : place(u) <= place(v)  OBVIOUS
<1>5. t \in j.todo /\ t \in TokenSet  BY <1>3, <1>4 DEF JobSet
<1>6. /\ Goto(p, [j EXCEPT !.todo = @ \ {t}])
      /\ \/ drift' = TRUE /\ UNCHANGED <<balance, known, written>>
         \/ /\ Upsert(j, t) /\ UNCHANGED drift
            /\ known' = IF j.cost = {} THEN known ELSE [known EXCEPT ![t] = Cost(j, t)]
    BY <1>1, <1>4 DEF SetBalance
<1>7. UNCHANGED <<height, feedVars, pageVars, acked, pnl, connected>>  BY DEF SetBalance
<1>8. PICK n : n = [j EXCEPT !.todo = @ \ {t}]  OBVIOUS
<1>9. n = [op |-> j.op, at |-> j.at, n |-> j.n, k |-> j.k, touched |-> j.touched, held |-> j.held, todo |-> j.todo \ {t},
           cost |-> j.cost, by |-> j.by, owned |-> j.owned, page |-> j.page, next |-> j.next, blank |-> j.blank, lone |-> j.lone]
    BY <1>8 DEF JobSet
<1>10. n \in JobSet  BY <1>9 DEF JobSet
<1>11. Alike(n, j) /\ n.at = "set" /\ n.todo = j.todo \ {t} /\ n.page = j.page  BY <1>1, <1>9 DEF Alike
<1>12. Shape(n)  BY <1>1, <1>11 DEF Shape, Alike, Full
<1>13. Step(p, n)  BY <1>2, <1>6, <1>7, <1>8, <1>10, <1>11, <1>12 DEF Step, Goto
<1>14. Want(j, t) \in Nat
    <2>1. j.held \in HeldSet  BY DEF JobSet
    <2>2. t \in DOMAIN j.held => j.held[t] \in Nat  BY <2>1 DEF HeldSet
    <2> QED BY <2>2 DEF Want
<1>15. Upsert(j, t) => balance' = [balance EXCEPT ![t] = Want(j, t)] /\ written' = written \cup {t}
    BY DEF Upsert, Want
<1> QED BY <1>1, <1>5, <1>6, <1>7, <1>11, <1>13, <1>14, <1>15 DEF At

\* The costs that stay when a set of rows is cleared.
Left(rest) == [t \in TokenSet |-> IF t \in rest THEN "none" ELSE known[t]]

LEMMA ZeroRestDoes ==
    ASSUME Types, Shapes, Before, NEW p \in Procs, ZeroRest(p)
    PROVE  \E n, rest :
              /\ Step(p, n) /\ At(p, "set") /\ job[p].todo = {} /\ n.cost = {}
              /\ \/ n = Idle /\ ~Full(job[p])
                 \/ /\ n.at = "finish" /\ n.op = job[p].op /\ Full(job[p]) /\ n.next = job[p].next
                    /\ n.blank = job[p].blank /\ n.lone = job[p].lone /\ n.page = job[p].page
              /\ rest = {t \in TokenSet : balance[t] # None} \ (DOMAIN job[p].held \cup job[p].cost)
              /\ balance' = [t \in TokenSet |-> IF t \in rest THEN 0 ELSE balance[t]]
              /\ written' = written \cup rest
              /\ known' = IF job[p].cost = {} THEN known ELSE Left(rest)
              /\ UNCHANGED <<feedVars, drift, pageVars, acked, pnl>>
<1>1. PICK j \in JobSet : j = job[p] /\ Shape(j) /\ j.at = "set" /\ j.todo = {}
    BY DEF ZeroRest, At, Types, Shapes
<1>2. connected  BY <1>1, Started DEF At
<1>3. PICK rest : rest = {t \in TokenSet : balance[t] # None} \ (DOMAIN j.held \cup j.cost)  OBVIOUS
<1>4. PICK e : e = [j EXCEPT !.at = "finish", !.held = NoHeld, !.cost = {}, !.by = "none"]  OBVIOUS
<1>5. /\ balance' = [t \in TokenSet |-> IF t \in rest THEN 0 ELSE balance[t]]
      /\ written' = written \cup rest
      /\ known' = IF j.cost = {} THEN known ELSE Left(rest)
      /\ Goto(p, IF Full(j) THEN e ELSE Idle)
      /\ UNCHANGED <<height, feedVars, drift, pageVars, acked, pnl, connected>>
    BY <1>1, <1>3, <1>4 DEF ZeroRest, Left
<1>6. e = [op |-> j.op, at |-> "finish", n |-> j.n, k |-> j.k, touched |-> j.touched, held |-> NoHeld, todo |-> j.todo,
           cost |-> {}, by |-> "none", owned |-> j.owned, page |-> j.page, next |-> j.next, blank |-> j.blank, lone |-> j.lone]
    BY <1>4 DEF JobSet
<1>7. e \in JobSet
    <2>1. NoHeld \in HeldSet  BY IdleIs DEF JobSet
    <2> QED BY <1>6, <2>1 DEF JobSet
<1>8. /\ e.op = j.op /\ e.at = "finish" /\ e.todo = {} /\ e.cost = {} /\ e.page = j.page /\ e.next = j.next
      /\ e.blank = j.blank /\ e.lone = j.lone
    BY <1>1, <1>6
<1>9. Full(j) => Shape(e)  BY <1>1, <1>8 DEF Shape, Full
<1>10. PICK n : n = IF Full(j) THEN e ELSE Idle  OBVIOUS
<1>11. n \in JobSet /\ Shape(n) /\ n.at # "legs" /\ n.cost = {}  BY <1>7, <1>8, <1>9, <1>10, IdleIs
<1>12. Step(p, n)  BY <1>2, <1>5, <1>10, <1>11 DEF Step, Goto
<1> QED BY <1>1, <1>3, <1>5, <1>8, <1>10, <1>11, <1>12 DEF At

\* The oldest leg of a page.
LEMMA PageFirst ==
    ASSUME NEW S \in SUBSET AllLegs, S # {}
    PROVE  LET x == CHOOSE x \in S : \A y \in S : x[1] < y[1] \/ (x[1] = y[1] /\ x[2] <= y[2])
           IN  x \in S /\ x[1] \in Hashes /\ x[2] \in DOMAIN Chain[x[1]] /\ x = <<x[1], x[2]>>
<1>1. \A x \in S : x[1] \in Hashes /\ x[2] \in DOMAIN Chain[x[1]] /\ x = <<x[1], x[2]>>
    <2>1. SUFFICES ASSUME NEW x \in S PROVE x[1] \in Hashes /\ x[2] \in DOMAIN Chain[x[1]] /\ x = <<x[1], x[2]>>
        OBVIOUS
    <2>2. PICK n \in Hashes : \E k \in DOMAIN Chain[n] : x = <<n, k>>  BY DEF AllLegs, LegsIn
    <2>3. PICK k \in DOMAIN Chain[n] : x = <<n, k>>  BY <2>2
    <2> QED BY <2>3
<1>2. \A x \in S : x[1] \in Nat /\ x[2] \in Nat
    <2>1. SUFFICES ASSUME NEW x \in S PROVE x[1] \in Nat /\ x[2] \in Nat  OBVIOUS
    <2>2. x[1] \in Hashes /\ x[2] \in DOMAIN Chain[x[1]]  BY <1>1
    <2>3. x[2] \in 1..Len(Chain[x[1]]) /\ Len(Chain[x[1]]) \in Nat  BY <2>2, ChainLegs
    <2> QED BY <2>2, <2>3, HeightsAre
<1> DEFINE N == {x[1] : x \in S}
<1>3. N \in SUBSET Nat /\ N # {}  BY <1>2
<1>4. PICK n \in N : \A m \in N : n <= m  BY <1>3, LeastOf
<1> DEFINE K == {x[2] : x \in {y \in S : y[1] = n}}
<1>5. K \in SUBSET Nat /\ K # {}  BY <1>2
<1>6. PICK k \in K : \A m \in K : k <= m  BY <1>5, LeastOf
<1>7. PICK x \in S : x[1] = n /\ x[2] = k  OBVIOUS
<1>8. ASSUME NEW y \in S PROVE x[1] < y[1] \/ (x[1] = y[1] /\ x[2] <= y[2])
    <2>1. y[1] \in N /\ x[1] \in Nat /\ y[1] \in Nat  BY <1>2
    <2>2. x[1] <= y[1]  BY <1>4, <1>7, <2>1
    <2>3. CASE y[1] = n
        <3>1. y[2] \in K  BY <2>3
        <3> QED BY <1>6, <1>7, <2>3, <3>1
    <2>4. CASE y[1] # n  BY <1>7, <2>1, <2>2, <2>4
    <2> QED BY <2>3, <2>4
<1>9. \E z \in S : \A y \in S : z[1] < y[1] \/ (z[1] = y[1] /\ z[2] <= y[2])  BY <1>8
<1>10. PICK z : z = CHOOSE w \in S : \A y \in S : w[1] < y[1] \/ (w[1] = y[1] /\ w[2] <= y[2])  OBVIOUS
<1>11. z \in S  BY <1>9, <1>10
<1> QED BY <1>1, <1>10, <1>11

\* An imported leg is in the feed, or its transaction is among the lost ones.
LEMMA ImportLegDoes ==
    ASSUME Types, Shapes, Before, NEW p \in Procs, ImportLeg(p)
    PROVE  \E n, x : /\ Step(p, n) /\ At(p, "import") /\ Alike(n, job[p]) /\ n.at = "import"
                     /\ x \in job[p].page /\ n.page = job[p].page \ {x} /\ x = <<x[1], x[2]>> /\ x[1] \in Hashes
                     /\ (x[1] \in lost' \/ feed'[x[1]] # 0) /\ lost \subseteq lost' /\ listed \subseteq listed'
                     /\ Grows /\ UNCHANGED <<known, written, drift, pageVars, acked, pnl>>
<1>1. PICK j \in JobSet : j = job[p] /\ Shape(j) /\ j.at = "import" /\ j.page # {}
    BY DEF ImportLeg, At, Types, Shapes
<1>2. connected  BY <1>1, Started DEF At
<1>3. PICK x : x = CHOOSE w \in j.page : \A y \in j.page : w[1] < y[1] \/ (w[1] = y[1] /\ w[2] <= y[2])  OBVIOUS
<1>4. x \in j.page /\ x[1] \in Hashes /\ x[2] \in DOMAIN Chain[x[1]] /\ x = <<x[1], x[2]>>
    <2>1. j.page \in SUBSET AllLegs  BY DEF JobSet
    <2> QED BY <1>1, <1>3, <2>1, PageFirst
<1>5. PICK m, k, l : m = x[1] /\ k = x[2] /\ l = Chain[m][k] /\ m \in Hashes /\ k \in DOMAIN Chain[m]  BY <1>4
<1>6. PICK f \in BOOLEAN :
         /\ CASE f -> lost' = lost \cup {m} /\ UNCHANGED <<feed, nfts, listed, balance, written>>
              [] ~f /\ l.kind = "nft" ->
                    /\ moveNft(l) /\ createNftTransactionFromWebhook(m, k)
                    /\ UNCHANGED <<listed, lost, balance, written>>
              [] ~f /\ l.kind # "nft" ->
                    /\ createTransactionFromWebhook(m, k) /\ resolveOrCreateToken({l.item})
                    /\ UNCHANGED <<nfts, lost>>
         /\ Goto(p, [j EXCEPT !.page = @ \ {x}])
    BY <1>1, <1>3, <1>5 DEF ImportLeg
<1>7. UNCHANGED <<height, known, drift, pageVars, acked, pnl, connected>>  BY DEF ImportLeg
<1>8. k \in Nat \ {0}  BY <1>5, ChainLegs
<1>9. /\ Grows /\ (m \in lost' \/ feed'[m] # 0) /\ lost \subseteq lost' /\ listed \subseteq listed' /\ written' = written
    <2>1. CASE f  BY <1>6, <2>1 DEF Grows, Types
    <2>2. CASE ~f /\ l.kind = "nft"
        <3>1. createNftTransactionFromWebhook(m, k) /\ UNCHANGED <<listed, lost, balance, written>>  BY <1>6, <2>2
        <3>2. feed' \in [Hashes -> Nat] /\ feed'[m] # 0 /\ \A i \in Hashes : feed[i] # 0 => feed'[i] # 0
            <4>1. feed \in [Hashes -> Nat] /\ m \in Hashes  BY <1>5 DEF Types
            <4>2. feed' = IF feed[m] # 0 THEN feed ELSE [feed EXCEPT ![m] = k]
                BY <3>1 DEF createNftTransactionFromWebhook
            <4>3. CASE feed[m] # 0  BY <4>1, <4>2, <4>3
            <4>4. CASE feed[m] = 0  BY <1>8, <4>1, <4>2, <4>4
            <4> QED BY <4>3, <4>4
        <3> QED BY <3>1, <3>2 DEF Grows, Types
    <2>3. CASE ~f /\ l.kind # "nft"
        <3>1. createTransactionFromWebhook(m, k) /\ resolveOrCreateToken({l.item}) /\ UNCHANGED <<nfts, lost>>
            BY <1>6, <2>3
        <3> QED BY <1>5, <2>3, <3>1, CreateDoes DEF resolveOrCreateToken
    <2> QED BY <2>1, <2>2, <2>3
<1>10. PICK n : n = [j EXCEPT !.page = @ \ {x}]  OBVIOUS
<1>11. n = [op |-> j.op, at |-> j.at, n |-> j.n, k |-> j.k, touched |-> j.touched, held |-> j.held, todo |-> j.todo,
            cost |-> j.cost, by |-> j.by, owned |-> j.owned, page |-> j.page \ {x}, next |-> j.next, blank |-> j.blank, lone |-> j.lone]
    BY <1>10 DEF JobSet
<1>12. n \in JobSet  BY <1>11 DEF JobSet
<1>13. Alike(n, j) /\ n.at = "import" /\ n.todo = j.todo /\ n.page = j.page \ {x}  BY <1>1, <1>11 DEF Alike
<1>14. Shape(n)  BY <1>1, <1>13 DEF Shape, Alike, Full
<1>15. Step(p, n)  BY <1>2, <1>6, <1>7, <1>10, <1>12, <1>13, <1>14 DEF Step, Goto
<1> QED BY <1>1, <1>4, <1>5, <1>7, <1>9, <1>13, <1>15 DEF At

\* The NFTs of a sync.
LEMMA NftStepDoes ==
    ASSUME Types, Shapes, Before, NEW p \in Procs, NftRead(p) \/ importNftHoldings(p)
    PROVE  \E n : /\ Step(p, n) /\ Full(job[p]) /\ Reading(job[p]) /\ Alike(n, job[p]) /\ n.at \in {"nfts", "cost"}
                  /\ n.page = job[p].page /\ job[p].at \in {"import", "nfts"}
                  /\ UNCHANGED <<feed, listed, lost, rowVars, pageVars, acked, pnl>>
<1>1. PICK j \in JobSet : j = job[p] /\ Shape(j) /\ j.at \in {"import", "nfts"} /\ Full(j) /\ j.page = {}
    BY DEF NftRead, importNftHoldings, At, Types, Shapes, Shape
<1>2. connected  BY <1>1, Started DEF At
<1>3. \E a \in {"nfts", "cost"}, S \in SUBSET Nfts : Goto(p, [j EXCEPT !.at = a, !.owned = S])
    <2>1. CASE NftRead(p)
        <3>1. PICK S \in Holdings[Outage("no nfts")][height] : Goto(p, [j EXCEPT !.at = "nfts", !.owned = S])
            BY <1>1, <2>1 DEF NftRead
        <3>2. Outage("no nfts") \in BOOLEAN  BY OutageIs
        <3>3. S \subseteq Nfts  BY <3>1, <3>2, HoldingsAre DEF Types
        <3> QED BY <3>1, <3>3
    <2>2. CASE importNftHoldings(p)  BY <1>1, <2>2 DEF importNftHoldings
    <2> QED BY <2>1, <2>2
<1>4. PICK a \in {"nfts", "cost"}, S \in SUBSET Nfts : Goto(p, [j EXCEPT !.at = a, !.owned = S])  BY <1>3
<1>5. PICK n : n = [j EXCEPT !.at = a, !.owned = S]  OBVIOUS
<1>6. n = [op |-> j.op, at |-> a, n |-> j.n, k |-> j.k, touched |-> j.touched, held |-> j.held, todo |-> j.todo,
           cost |-> j.cost, by |-> j.by, owned |-> S, page |-> j.page, next |-> j.next, blank |-> j.blank, lone |-> j.lone]
    BY <1>5 DEF JobSet
<1>7. n \in JobSet  BY <1>6 DEF JobSet
<1>8. Alike(n, j) /\ n.at = a /\ n.todo = j.todo /\ n.page = j.page  BY <1>6 DEF Alike
<1>9. Shape(n)  BY <1>1, <1>8 DEF Shape, Alike, Full
<1>10. UNCHANGED <<height, feed, listed, lost, rowVars, pageVars, acked, pnl, connected>>
    BY DEF NftRead, importNftHoldings, feedVars
<1>11. Step(p, n)  BY <1>2, <1>4, <1>5, <1>7, <1>8, <1>9, <1>10 DEF Step, Goto
<1> QED BY <1>1, <1>8, <1>10, <1>11 DEF Reading, Full

LEMMA CostMapDoes ==
    ASSUME Types, Shapes, Before, NEW p \in Procs, buildConnectedCostMap(p)
    PROVE  \E n : /\ Step(p, n) /\ At(p, "cost") /\ Full(job[p]) /\ Reading(job[p])
                  /\ n.at = "set" /\ n.op = job[p].op /\ n.held = job[p].held
                  /\ n.by = job[p].by /\ n.cost \subseteq job[p].cost /\ (\A t \in job[p].cost : balance[t] # None => t \in n.cost)
                  /\ n.todo = DOMAIN n.held \cup n.cost /\ n.next = job[p].next
                  /\ n.blank = job[p].blank /\ n.lone = job[p].lone /\ n.page = job[p].page
                  /\ UNCHANGED <<feedVars, rowVars, pageVars, acked, pnl>>
<1>1. PICK j \in JobSet : j = job[p] /\ Shape(j) /\ j.at = "cost" /\ Full(j) /\ j.page = {}
    BY DEF buildConnectedCostMap, At, Types, Shapes, Shape
<1>2. connected  BY <1>1, Started DEF At
<1>3. PICK c : c = {t \in j.cost : t \in DOMAIN j.held \/ balance[t] # None \/ t \in listed}  OBVIOUS
<1>4. c \subseteq j.cost /\ \A t \in j.cost : balance[t] # None => t \in c  BY <1>3
<1>5. PICK d : d = DOMAIN j.held \cup c  OBVIOUS
<1>6. d \subseteq TokenSet /\ c \subseteq TokenSet
    <2>1. j.held \in HeldSet /\ j.cost \subseteq TokenSet  BY DEF JobSet
    <2>2. DOMAIN j.held \subseteq TokenSet  BY <2>1 DEF HeldSet
    <2> QED BY <1>4, <1>5, <2>1, <2>2
<1>7. Goto(p, [j EXCEPT !.at = "set", !.cost = c, !.todo = d])  BY <1>1, <1>3, <1>5 DEF buildConnectedCostMap
<1>8. PICK n : n = [j EXCEPT !.at = "set", !.cost = c, !.todo = d]  OBVIOUS
<1>9. n = [op |-> j.op, at |-> "set", n |-> j.n, k |-> j.k, touched |-> j.touched, held |-> j.held, todo |-> d,
           cost |-> c, by |-> j.by, owned |-> j.owned, page |-> j.page, next |-> j.next, blank |-> j.blank, lone |-> j.lone]
    BY <1>8 DEF JobSet
<1>10. n \in JobSet  BY <1>6, <1>9 DEF JobSet
<1>11. /\ n.op = j.op /\ n.at = "set" /\ n.held = j.held /\ n.todo = d /\ n.cost = c /\ n.by = j.by /\ n.page = j.page /\ n.next = j.next
       /\ n.blank = j.blank /\ n.lone = j.lone
    BY <1>9
<1>12. Shape(n)  BY <1>1, <1>5, <1>11 DEF Shape, Full
<1>13. UNCHANGED <<height, feedVars, rowVars, pageVars, acked, pnl, connected>>  BY DEF buildConnectedCostMap
<1>14. Step(p, n)  BY <1>2, <1>7, <1>8, <1>10, <1>11, <1>12, <1>13 DEF Step, Goto
<1> QED BY <1>1, <1>4, <1>5, <1>11, <1>13, <1>14 DEF Reading, Full, At

LEMMA FullFinishDoes ==
    ASSUME Types, Shapes, Before, NEW p \in Procs, FullFinish(p)
    PROVE  /\ Step(p, Idle) /\ At(p, "finish") /\ job[p].page = {}
           /\ \/ UNCHANGED <<cursor, drained>>
              \/ /\ job[p].op = "sync" /\ cursor' = job[p].next
                 /\ drained' = (job[p].next = NoCursor /\ ~job[p].blank)
           /\ UNCHANGED <<feedVars, rowVars, seen, acked, pnl>>
<1>1. PICK j \in JobSet : j = job[p] /\ Shape(j) /\ j.at = "finish" /\ j.page = {}
    BY DEF FullFinish, At, Types, Shapes, Shape
<1>2. connected  BY <1>1, Started DEF At
<1>3. Step(p, Idle)  BY <1>2, IdleIs DEF FullFinish, Goto, Step
<1> QED BY <1>1, <1>3 DEF FullFinish, At

LEMMA MoreStartDoes ==
    ASSUME Types, Before, NEW p \in Procs, MoreStart(p)
    PROVE  \E n : /\ Step(p, n) /\ At(p, "idle") /\ n.op = "more" /\ n.at = "page" /\ n.next = cursor /\ n.cost = {}
                  /\ UNCHANGED <<feedVars, rowVars, pageVars, acked, pnl>>
<1>1. connected /\ cursor # NoCursor  BY DEF MoreStart, Before, Types
<1>2. PICK n : n = [Idle EXCEPT !.op = "more", !.at = "page", !.next = cursor]  OBVIOUS
<1>3. /\ n \in JobSet /\ n.op = "more" /\ n.at = "page" /\ n.next = cursor /\ n.cost = {} /\ n.todo = {} /\ n.page = {}
    BY <1>2, IdleIs DEF JobSet, Idle, Types
<1>4. Shape(n)  BY <1>1, <1>3 DEF Shape, Full
<1>5. Step(p, n)  BY <1>1, <1>2, <1>3, <1>4 DEF Step, Goto, MoreStart
<1> QED BY <1>3, <1>5 DEF MoreStart

LEMMA MorePageDoes ==
    ASSUME Types, Shapes, Before, NEW p \in Procs, MorePage(p)
    PROVE  \E n : /\ Step(p, n) /\ At(p, "page") /\ n.cost = {}
                  /\ \/ n = Idle /\ cursor' = NoCursor /\ drained' = FALSE /\ lost' = lost
                     \/ /\ n.op = "more" /\ n.at = "import" /\ UNCHANGED <<cursor, drained>> /\ lost \subseteq lost'
                        /\ \A m \in (1..height) \ lost' : Behind(n.next, TRUE, m) =>
                              (Behind(job[p].next, FALSE, m) \/ \E k \in DOMAIN Chain[m] : <<m, k>> \in n.page)
                  /\ UNCHANGED <<feed, nfts, listed, rowVars, seen, acked, pnl>>
<1>1. PICK j \in JobSet : j = job[p] /\ Shape(j) /\ j.at = "page" /\ j.op = "more"
    BY DEF MorePage, At, Types, Shapes, Shape
<1>2. connected  BY <1>1, Started DEF At
<1>3. PICK g \in Pages[Outage("no page")][height][j.next] :
         IF g.ok
         THEN /\ Goto(p, [j EXCEPT !.at = "import", !.page = g.legs, !.next = g.next])
              /\ lost' = lost \cup Dropped(j.next, g)
              /\ UNCHANGED <<cursor, drained>>
         ELSE /\ Goto(p, Idle) /\ cursor' = NoCursor /\ drained' = FALSE /\ UNCHANGED lost
    BY <1>1 DEF MorePage
<1>4. UNCHANGED <<height, feed, nfts, listed, rowVars, seen, acked, pnl, connected>>  BY DEF MorePage
<1>5. g \in PageSet /\ (g \in WholePages[height][j.next] => Carries(g, j.next, height))
    <2>1. Outage("no page") \in BOOLEAN /\ height \in Heights /\ j.next \in Cursors  BY OutageIs DEF Types, JobSet
    <2> QED BY <1>3, <2>1, PagesAre
<1>6. CASE ~g.ok
    <2>1. Step(p, Idle)  BY <1>2, <1>3, <1>4, <1>6, IdleIs DEF Step, Goto
    <2> QED BY <1>1, <1>3, <1>4, <1>6, <2>1, IdleIs DEF At
<1>7. CASE g.ok
    <2>1. PICK L \in SUBSET AllLegs, nx \in Cursors : L = g.legs /\ nx = g.next  BY <1>5 DEF PageSet, AllLegs
    <2>2. PICK n : n = [j EXCEPT !.at = "import", !.page = L, !.next = nx]  OBVIOUS
    <2>3. n = [op |-> j.op, at |-> "import", n |-> j.n, k |-> j.k, touched |-> j.touched, held |-> j.held, todo |-> j.todo,
               cost |-> j.cost, by |-> j.by, owned |-> j.owned, page |-> L, next |-> nx, blank |-> j.blank, lone |-> j.lone]
        BY <2>2 DEF JobSet
    <2>4. n \in JobSet  BY <2>3 DEF JobSet
    <2>5. /\ n.op = "more" /\ n.at = "import" /\ n.held = j.held /\ n.todo = j.todo /\ n.cost = j.cost /\ n.page = L
          /\ n.next = nx /\ j.cost = {}
        BY <1>1, <2>3 DEF Shape, Full
    <2>6. Shape(n)  BY <1>1, <2>5 DEF Shape, Full
    <2>7. Step(p, n)  BY <1>2, <1>3, <1>4, <1>7, <2>1, <2>2, <2>4, <2>5, <2>6 DEF Step, Goto
    <2>8. ASSUME NEW m \in (1..height) \ lost', Behind(nx, TRUE, m)
          PROVE  Behind(j.next, FALSE, m) \/ \E k \in DOMAIN Chain[m] : <<m, k>> \in L
        <3>1. g \in WholePages[height][j.next]  BY <1>3, <1>7, <2>8 DEF Dropped
        <3> QED BY <1>5, <1>7, <2>1, <2>8, <3>1 DEF Carries
    <2>9. lost \subseteq lost' /\ UNCHANGED <<cursor, drained>>  BY <1>3, <1>7
    <2> QED BY <1>1, <1>4, <2>5, <2>7, <2>8, <2>9 DEF At
<1> QED BY <1>6, <1>7

LEMMA MoreFinishDoes ==
    ASSUME Types, Shapes, Before, NEW p \in Procs, MoreFinish(p)
    PROVE  /\ Step(p, Idle) /\ At(p, "import") /\ job[p].page = {} /\ job[p].op = "more"
           /\ cursor' = job[p].next /\ drained' = (job[p].next = NoCursor)
           /\ UNCHANGED <<feedVars, rowVars, seen, acked, pnl>>
<1>1. connected  BY Started DEF MoreFinish, At
<1>2. Step(p, Idle)  BY <1>1, IdleIs DEF MoreFinish, Goto, Step
<1> QED BY <1>2 DEF MoreFinish

\* What another sync that starts leaves of a request.
Same(n, j) == /\ n.op = j.op /\ n.at = j.at /\ n.n = j.n /\ n.k = j.k /\ n.touched = j.touched /\ n.held = j.held
              /\ n.todo = j.todo /\ n.cost = j.cost /\ n.by = j.by /\ n.page = j.page /\ n.next = j.next
              /\ n.blank = j.blank
Joined(p, n) ==
    /\ n \in JobSet /\ Shape(n) /\ n.at = "import" /\ n.cost = pnl'.tokens /\ n.by = pnl'.by
    /\ n.lone = ~(\E q \in Procs \ {p} : Full(job[q]))
    /\ job' \in [Procs -> JobSet] /\ job'[p] = n
    /\ \A q \in Procs \ {p} : IF Full(job[q]) THEN Same(job'[q], job[q]) /\ ~job'[q].lone ELSE job'[q] = job[q]

LEMMA FirstJob ==
    ASSUME NEW op \in {"sync", "resync"}, NEW h \in HeldSet, NEW c \in SUBSET TokenSet, NEW y \in Sourced,
           NEW L \in SUBSET AllLegs, NEW nx \in Cursors, NEW b \in BOOLEAN, NEW o \in BOOLEAN
    PROVE  [op |-> op, at |-> "import", n |-> 0, k |-> 1, touched |-> FALSE, held |-> h, todo |-> {},
            cost |-> c, by |-> y, owned |-> {}, page |-> L, next |-> nx, blank |-> b, lone |-> o] \in JobSet
<1>1. 0 \in Heights  BY HeightsAre
<1> QED BY <1>1 DEF JobSet, Sourced

LEMMA FullStartDoes ==
    ASSUME Types, Shapes, NEW p \in Procs, NEW op \in {"sync", "resync"}, FullStart(p, op)
    PROVE  /\ At(p, "idle") /\ (pnl' = pnl \/ pnl' \in Fresh(height)) /\ listed \subseteq listed'
           /\ \/ UNCHANGED <<job, seen, lost>> /\ drift' = (drift \/ op = "sync")
              \/ \E n : /\ Joined(p, n) /\ n.op = op /\ (Small => Right(n.held, height))
                        /\ drift' = (drift \/ Overlaps(p)) /\ seen' = IF op = "sync" THEN height ELSE seen
                        /\ lost \subseteq lost'
                        /\ \A m \in (1..height) \ lost' : Behind(n.next, ~n.blank, m) =>
                              \E k \in DOMAIN Chain[m] : <<m, k>> \in n.page
           /\ UNCHANGED <<height, feed, nfts, balance, known, written, cursor, drained, acked>>
<1>0. PICK z \in Heights : z = 0  BY HeightsAre
<1> DEFINE other == \E q \in Procs \ {p} : Full(job[q])
<1>1. PICK s \in Summaries[Outage("no summary")][height],
           g \in Pages[Outage("no page")][height][NoCursor], fetched \in Gains[Outage("no pnl")][height], f \in BOOLEAN :
         /\ pnl' = fetchWalletPnl(pnl, op = "resync", fetched)
         /\ IF s.status = "error" \/ f
            THEN /\ drift' = (drift \/ op = "sync")
                 /\ UNCHANGED <<job, listed, seen, lost>>
            ELSE /\ job' = [q \in Procs |->
                       IF q = p THEN [Idle EXCEPT !.op = op, !.at = "import", !.held = s.tokens,
                                                  !.cost = fetchWalletPnl(pnl, op = "resync", fetched).tokens,
                                                  !.by = fetchWalletPnl(pnl, op = "resync", fetched).by,
                                                  !.page = g.legs, !.next = g.next,
                                                  !.blank = ~g.ok, !.lone = ~other]
                       ELSE IF Full(job[q]) THEN [job[q] EXCEPT !.lone = FALSE] ELSE job[q]]
                 /\ resolveOrCreateToken(DOMAIN s.tokens)
                 /\ drift' = (drift \/ Overlaps(p))
                 /\ seen' = IF op = "sync" THEN height ELSE seen
                 /\ lost' = lost \cup Dropped(NoCursor, g)
    BY DEF FullStart
<1>2. At(p, "idle") /\ UNCHANGED <<height, feed, nfts, balance, known, written, cursor, drained, acked>>
    BY DEF FullStart
<1>3. height \in Heights  BY DEF Types
<1>4. pnl' = pnl \/ pnl' \in Fresh(height)
    <2>1. Outage("no pnl") \in BOOLEAN  BY OutageIs
    <2>2. fetched = NoPnl \/ fetched \in Fresh(height)  BY <1>3, <2>1, GainsAre
    <2> QED BY <1>1, <2>2 DEF fetchWalletPnl
<1>5. pnl' \in PnlSet /\ pnl'.tokens \in SUBSET TokenSet /\ pnl'.by \in PNL \cup {"none"}
    <2>1. pnl' \in PnlSet  BY <1>3, <1>4, FreshIs DEF Types
    <2>2. PICK y : y = pnl'  OBVIOUS
    <2>3. CASE y = NoPnl
        <3>1. y.by = "none" /\ y.tokens = {}  BY <2>3 DEF NoPnl
        <3>2. y.tokens \in SUBSET TokenSet  BY <3>1
        <3> QED BY <2>1, <2>2, <3>1, <3>2
    <2>4. CASE y \in [by : PNL, tokens : SUBSET TokenSet]
        <3>1. y.by \in PNL /\ y.tokens \in SUBSET TokenSet  BY <2>4
        <3> QED BY <2>1, <2>2, <3>1
    <2> QED BY <2>1, <2>2, <2>3, <2>4 DEF PnlSet
<1>6. CASE s.status = "error" \/ f  BY <1>1, <1>2, <1>4, <1>6
<1>7. CASE ~(s.status = "error" \/ f)
    <2>1. s.tokens \in HeldSet /\ (Small => Right(s.tokens, height))
        <3>1. Outage("no summary") \in BOOLEAN  BY OutageIs
        <3> QED BY <1>3, <1>7, <3>1, SummariesAre
    <2>2. g \in PageSet /\ (g \in WholePages[height][NoCursor] => Carries(g, NoCursor, height))
        <3>1. Outage("no page") \in BOOLEAN  BY OutageIs
        <3> QED BY <1>3, <3>1, PagesAre, CursorFacts
    <2>3. PICK L \in SUBSET AllLegs, nx \in Cursors, ok \in BOOLEAN : L = g.legs /\ nx = g.next /\ ok = g.ok
        BY <2>2 DEF PageSet, AllLegs
    <2>4. PICK b \in BOOLEAN, o \in BOOLEAN : b = ~ok /\ o = ~other
        <3>1. other \in BOOLEAN  OBVIOUS
        <3> QED BY <3>1
    <2>5. PICK h \in HeldSet, c \in SUBSET TokenSet, y \in Sourced :
                h = s.tokens /\ c = pnl'.tokens /\ y = pnl'.by
        BY <1>5, <2>1 DEF Sourced
    <2>6. PICK n : n = [Idle EXCEPT !.op = op, !.at = "import", !.held = h, !.cost = c, !.by = y, !.page = L, !.next = nx,
                                    !.blank = b, !.lone = o]
        OBVIOUS
    <2>7. n = [op |-> op, at |-> "import", n |-> z, k |-> 1, touched |-> FALSE, held |-> h, todo |-> {},
               cost |-> c, by |-> y, owned |-> {}, page |-> L, next |-> nx, blank |-> b, lone |-> o]
        BY <1>0, <2>6 DEF Idle
    <2>8. n \in JobSet
        <3>1. [op |-> op, at |-> "import", n |-> 0, k |-> 1, touched |-> FALSE, held |-> h, todo |-> {},
               cost |-> c, by |-> y, owned |-> {}, page |-> L, next |-> nx, blank |-> b, lone |-> o] \in JobSet
            BY FirstJob, ZenonT(60)
        <3> QED BY <1>0, <2>7, <3>1, Zenon
    <2>9. /\ n.op = op /\ n.at = "import" /\ n.held = h /\ n.todo = {} /\ n.cost = c /\ n.by = y /\ n.page = L /\ n.next = nx
          /\ n.blank = b /\ n.lone = o
        BY <2>7
    <2>10. Shape(n)  BY <2>9 DEF Shape, Full
    <2>11. job' = [q \in Procs |-> IF q = p THEN n
                                   ELSE IF Full(job[q]) THEN [job[q] EXCEPT !.lone = FALSE] ELSE job[q]]
        <3> HIDE DEF other
        <3> QED BY <1>1, <1>7, <2>3, <2>4, <2>5, <2>6
    <2>12. ASSUME NEW q \in Procs \ {p}
           PROVE  /\ job'[q] \in JobSet
                  /\ IF Full(job[q]) THEN Same(job'[q], job[q]) /\ ~job'[q].lone ELSE job'[q] = job[q]
        <3>1. PICK j \in JobSet : j = job[q]  BY DEF Types
        <3>2. CASE Full(j)
            <4>1. PICK i : i = job'[q]  OBVIOUS
            <4>2. i = [j EXCEPT !.lone = FALSE]  BY <2>11, <3>1, <3>2, <4>1
            <4>3. i = [op |-> j.op, at |-> j.at, n |-> j.n, k |-> j.k, touched |-> j.touched, held |-> j.held, todo |-> j.todo,
                       cost |-> j.cost, by |-> j.by, owned |-> j.owned, page |-> j.page, next |-> j.next, blank |-> j.blank, lone |-> FALSE]
                BY <4>2 DEF JobSet
            <4>4. i \in JobSet  BY <4>3 DEF JobSet
            <4>5. Same(i, j) /\ ~i.lone  BY <4>3 DEF Same
            <4> QED BY <3>1, <3>2, <4>1, <4>4, <4>5
        <3>3. CASE ~Full(j)  BY <2>11, <3>1, <3>3
        <3> QED BY <3>2, <3>3
    <2>13. job'[p] = n /\ job' \in [Procs -> JobSet]
        <3>1. job'[p] = n /\ DOMAIN job' = Procs /\ job' = [q \in Procs |-> job'[q]]  BY <2>11
        <3>2. \A q \in Procs : job'[q] \in JobSet  BY <2>8, <2>12, <3>1
        <3> QED BY <3>1, <3>2
    <2>14. Joined(p, n)  BY <2>4, <2>5, <2>8, <2>9, <2>10, <2>12, <2>13 DEF Joined
    <2>15. ASSUME NEW m \in (1..height) \ lost', Behind(nx, ~b, m) PROVE \E k \in DOMAIN Chain[m] : <<m, k>> \in L
        <3>1. g \in WholePages[height][NoCursor]  BY <1>1, <1>7 DEF Dropped
        <3>2. Behind(g.next, g.ok, m)  BY <2>3, <2>4, <2>15
        <3>3. ~Behind(NoCursor, FALSE, m)  BY DEF Behind
        <3> QED BY <2>2, <2>3, <3>1, <3>2, <3>3 DEF Carries
    <2>16. /\ drift' = (drift \/ Overlaps(p)) /\ seen' = IF op = "sync" THEN height ELSE seen
           /\ lost \subseteq lost' /\ listed \subseteq listed'
        BY <1>1, <1>7 DEF resolveOrCreateToken
    <2> QED BY <1>2, <1>4, <2>1, <2>5, <2>9, <2>14, <2>15, <2>16
<1> QED BY <1>6, <1>7

\* Everything else a step leaves of a request.
LEMMA JoinedShapes ==
    ASSUME Types, Shapes, NEW p \in Procs, NEW n, Joined(p, n), height' = height
    PROVE  Shapes'
<1>1. ASSUME NEW q \in Procs PROVE Shape(job'[q]) /\ (job'[q].at = "legs" => job'[q].n \in 1..height')
    <2>1. CASE q = p  BY <2>1 DEF Joined
    <2>2. CASE q # p /\ ~Full(job[q])  BY <2>2 DEF Joined, Shapes, At
    <2>3. CASE q # p /\ Full(job[q])
        <3>1. PICK j, i : j = job[q] /\ i = job'[q]  OBVIOUS
        <3>2. Same(i, j) /\ Shape(j) /\ Full(j) /\ (j.at = "legs" => j.n \in 1..height)
            BY <2>3, <3>1 DEF Joined, Shapes, At
        <3>3. j.at # "idle"  BY <3>2, IdleIs DEF Shape
        <3>4. Shape(i)  BY <3>2, <3>3 DEF Shape, Same, Full
        <3> QED BY <3>1, <3>2, <3>4 DEF Same
    <2> QED BY <2>1, <2>2, <2>3
<1> QED BY <1>1 DEF Shapes, At

LEMMA StepShapes ==
    ASSUME Types, Shapes, NEW p \in Procs, NEW n, Step(p, n)
    PROVE  /\ job' \in [Procs -> JobSet] /\ Shapes' /\ Before' /\ job'[p] = n
           /\ \A q \in Procs \ {p} : job'[q] = job[q]
<1>1. /\ job' \in [Procs -> JobSet] /\ job'[p] = n /\ \A q \in Procs \ {p} : job'[q] = job[q]
      /\ height' = height /\ connected'
    BY DEF Step, Types
<1>2. Shapes'  BY <1>1 DEF Shapes, Step, At
<1> QED BY <1>1, <1>2 DEF Before

-----------------------------------------------------------------------------
(* What a step of one process has to show for each part of the invariant *)

LEMMA HashesSeen == ASSUME Types PROVE 1..height \subseteq Hashes /\ 1..seen \subseteq Hashes /\ 1..seen \subseteq 1..height
BY HeightsAre DEF Types

LEMMA KeepDeliveries ==
    ASSUME Types, Shapes, Deliveries, NEW p \in Procs, NEW n, Step(p, n),
           \A m \in Hashes : feed[m] # 0 => feed'[m] # 0, acked' = acked,
           n.at = "legs" => Handled(n)'
    PROVE  Deliveries'
<1>1. AckedIsRecorded'
    <2>1. acked \subseteq Hashes  BY HashesSeen DEF Types
    <2> QED BY <2>1 DEF Deliveries, AckedIsRecorded, HasLeg
<1>2. ASSUME NEW q \in Procs, job'[q].at = "legs" PROVE Handled(job[q])'
    <2>1. CASE q = p
        <3>1. job'[q] = n /\ Handled(n)'  BY <1>2, <2>1, StepShapes
        <3> QED BY <3>1 DEF Handled
    <2>2. CASE q # p
        <3>1. PICK j : j = job[q] /\ j = job'[q] /\ j.at = "legs"  BY <1>2, <2>2, StepShapes
        <3>2. Handled(j) /\ j.n \in Hashes  BY <3>1, HashesSeen DEF Deliveries, Shapes, At
        <3>3. Handled(j)'  BY <3>2 DEF Handled
        <3> QED BY <3>1, <3>3 DEF Handled
    <2> QED BY <2>1, <2>2
<1> QED BY <1>1, <1>2 DEF Deliveries, At

LEMMA KeepCosts ==
    ASSUME Types, Shapes, Costs, NEW p \in Procs, NEW n, Step(p, n), UNCHANGED <<known, pnl>>,
           \A t \in TokenSet : balance[t] # None => balance'[t] # None,
           n.cost \subseteq job[p].cost, n.cost = {} \/ n.by = job[p].by,
           Full(n) => Full(job[p]) /\ n.lone = job[p].lone,
           (Full(n) /\ n.lone /\ n.cost # {}) => From(n.by) \subseteq n.cost
    PROVE  Costs'
<1>1. job'[p] = n /\ (\A q \in Procs \ {p} : job'[q] = job[q]) /\ height' = height
    BY StepShapes DEF Step
<1>2. \A q \in Procs : job'[q].cost \subseteq job[q].cost /\ (job'[q].cost = {} \/ job'[q].by = job[q].by)
    BY <1>1
<1>3. \A q \in Procs : Full(job'[q]) => Full(job[q]) /\ job'[q].lone = job[q].lone  BY <1>1
<1>4. \A q : From(q)' = From(q)  BY DEF From, Steady
<1>5. Sources'
    <2>1. \A q, h : Gained(q, h)' = Gained(q, h)  BY DEF Gained, Steady
    <2>2. \A q \in Procs : job'[q].cost = {} \/ (/\ job'[q].by \in PNL
                                                /\ job'[q].cost \cap Steady \subseteq Gained(job'[q].by, height))
        BY <1>2 DEF Costs, Sources
    <2>3. \A t \in TokenSet : known'[t] = "none" \/ balance'[t] # None  BY DEF Costs, Sources
    <2> QED BY <1>1, <1>4, <2>1, <2>2, <2>3 DEF Costs, Sources, Steady, Gained
<1>6. Cache'
    <2>1. \A q \in Procs : (pnl.by \in PNL /\ job'[q].by = pnl.by) => job'[q].cost \cap Steady \subseteq pnl.tokens
        BY <1>2 DEF Costs, Cache
    <2> QED BY <1>1, <1>4, <2>1 DEF Costs, Cache, Gained, Steady
<1>7. Alone'
    <2>1. ASSUME NEW q \in Procs, Full(job'[q]), job'[q].lone, job'[q].cost # {}
          PROVE  From(job'[q].by) \subseteq job'[q].cost
        <3>1. CASE q = p  BY <1>1, <2>1, <3>1
        <3>2. CASE q # p  BY <1>1, <2>1, <3>2 DEF Costs, Alone
        <3> QED BY <3>1, <3>2
    <2>2. \A q, i \in Procs : (Full(job'[q]) /\ Full(job'[i]) /\ job'[q].lone) => q = i
        BY <1>3 DEF Costs, Alone
    <2> QED BY <1>4, <2>1, <2>2 DEF Alone, Full
<1> QED BY <1>5, <1>6, <1>7 DEF Costs

LEMMA KeepGaps ==
    ASSUME Types, Shapes, Gaps, NEW p \in Procs, NEW n, Step(p, n), seen' = seen, lost \subseteq lost',
           \A m \in Hashes : feed[m] # 0 => feed'[m] # 0,
           \A m \in (1..seen) \ lost' : Behind(cursor', drained', m) => feed'[m] # 0,
           n.at = "page" => \A m \in (1..seen) \ lost' : Behind(n.next, FALSE, m) => feed'[m] # 0,
           (n.op \in {"sync", "more"} /\ n.at # "page") => Importing(n)'
    PROVE  Gaps'
<1>1. /\ job'[p] = n /\ (\A q \in Procs \ {p} : job'[q] = job[q]) /\ 1..seen \subseteq Hashes
    BY StepShapes, HashesSeen
<1>2. ASSUME NEW q \in Procs, NEW j, j = job[q], job'[q] = j
      PROVE  /\ j.at = "page" => \A m \in (1..seen) \ lost' : Behind(j.next, FALSE, m) => feed'[m] # 0
             /\ (j.op \in {"sync", "more"} /\ j.at # "page") => Importing(j)'
    <2>1. j.at = "page" => \A m \in (1..seen) \ lost' : Behind(j.next, FALSE, m) => feed'[m] # 0
        BY <1>1, <1>2 DEF Gaps, At
    <2>2. ASSUME j.op \in {"sync", "more"}, j.at # "page" PROVE Importing(j)'
        <3>1. Importing(j)  BY <1>2, <2>2 DEF Gaps, At
        <3> QED BY <1>1, <3>1 DEF Importing
    <2> QED BY <2>1, <2>2
<1>3. ASSUME NEW q \in Procs
      PROVE  /\ job'[q].at = "page" => \A m \in (1..seen') \ lost' : Behind(job'[q].next, FALSE, m) => feed'[m] # 0
             /\ (job'[q].op \in {"sync", "more"} /\ job'[q].at # "page") => Importing(job[q])'
    <2>1. PICK j : j = job'[q]  OBVIOUS
    <2>2. /\ j.at = "page" => \A m \in (1..seen) \ lost' : Behind(j.next, FALSE, m) => feed'[m] # 0
          /\ (j.op \in {"sync", "more"} /\ j.at # "page") => Importing(j)'
        <3>1. CASE q = p  BY <1>1, <2>1, <3>1
        <3>2. CASE q # p  BY <1>1, <1>2, <2>1, <3>2
        <3> QED BY <3>1, <3>2
    <2> QED BY <2>1, <2>2 DEF Importing
<1> QED BY <1>3 DEF Gaps, At, Behind

\* The rows of the feed and of the balances may grow, and nothing else changes but the request.
LEMMA KeepTypes ==
    ASSUME Types, Shapes, NEW p \in Procs, NEW n, Step(p, n), Grows, listed \subseteq listed',
           drift' \in BOOLEAN, UNCHANGED <<known, written, pageVars, acked, pnl>>
    PROVE  Types'
BY StepShapes DEF Types, Step, Grows, pageVars

LEMMA SameGrows == ASSUME Types, UNCHANGED <<feed, balance>> PROVE Grows
BY DEF Types, Grows

\* A leg is behind a delivery, or is done by this step.
LEMMA HandledNext ==
    ASSUME Types, Shapes, Deliveries, NEW p \in Procs, NEW n, Step(p, n), HookLeg(p, n), Grows
    PROVE  Handled(n)'
<1>1. PICK j \in JobSet : j = job[p] /\ j.at = "legs" /\ j.n \in Hashes /\ Handled(j)
    BY HashesSeen DEF Types, HookLeg, Shapes, Deliveries, At
<1>2. j.k \in Nat \ {0} /\ n.k = j.k + 1 /\ n.n = j.n /\ (j.touched => n.touched)  BY <1>1 DEF JobSet, HookLeg
<1>3. \A k \in 1..(n.k - 1) : k \in 1..(j.k - 1) \/ k = j.k  BY <1>2
<1>4. feed[j.n] # 0 => feed'[j.n] # 0  BY <1>1 DEF Grows
<1>5. ASSUME NEW k \in 1..(n.k - 1), k \in DOMAIN Chain[n.n], Chain[n.n][k].kind # "nft", Chain[n.n][k].item \in Catalog
      PROVE  feed'[n.n] # 0 /\ n.touched
    <2>1. CASE k \in 1..(j.k - 1)  BY <1>1, <1>2, <1>4, <1>5, <2>1 DEF Handled
    <2>2. CASE k = j.k  BY <1>1, <1>2, <1>5, <2>2 DEF HookLeg
    <2> QED BY <1>3, <2>1, <2>2
<1> QED BY <1>5 DEF Handled

-----------------------------------------------------------------------------
(* Each step keeps the invariant *)

LEMMA HookStartKeeps == ASSUME IInv, NEW p \in Procs, HookStart(p) PROVE IInv'
<1> USE DEF IInv
<1>1. PICK n : /\ Step(p, n) /\ At(p, "idle") /\ n.op = "hook" /\ n.at = "legs" /\ n.k = 1 /\ n.cost = {}
               /\ UNCHANGED <<feedVars, rowVars, pageVars, acked, pnl>>
    BY HookStartDoes
<1>2. ~Full(n)  BY <1>1 DEF Full
<1>3. Grows /\ UNCHANGED <<feed, lost, listed, balance, known, written, drift, cursor, seen, drained>> /\ drift \in BOOLEAN
    BY <1>1, SameGrows DEF feedVars, rowVars, pageVars, Types
<1>4. Types' /\ Shapes' /\ Before'  BY <1>1, <1>3, KeepTypes, StepShapes
<1>5. Deliveries'
    <2>1. Handled(n)'  BY <1>1 DEF Handled
    <2> QED BY <1>1, <1>3, <2>1, KeepDeliveries
<1>6. Costs'  BY <1>1, <1>2, <1>3, KeepCosts
<1>7. Gaps'
    <2>1. \A m \in (1..seen) \ lost' : Behind(cursor', drained', m) => feed'[m] # 0  BY <1>3 DEF Gaps
    <2> QED BY <1>1, <1>3, <2>1, KeepGaps
<1> QED BY <1>4, <1>5, <1>6, <1>7

LEMMA LegStepKeeps ==
    ASSUME IInv, NEW p \in Procs, processNativeTx(p) \/ processErc20Transfer(p) \/ processNftTransfers(p)
    PROVE  IInv'
<1> USE DEF IInv
<1>1. PICK n : /\ Step(p, n) /\ HookLeg(p, n) /\ Grows
               /\ UNCHANGED <<lost, listed, known, written, drift, pageVars, acked, pnl>>
    BY LegStepDoes
<1>2. n.at = "legs" /\ n.op = "hook" /\ n.cost = {} /\ ~Full(n)  BY <1>1 DEF HookLeg, Full
<1>3. /\ UNCHANGED <<cursor, seen, drained>> /\ drift' \in BOOLEAN
      /\ \A m \in Hashes : feed[m] # 0 => feed'[m] # 0
      /\ \A t \in TokenSet : balance[t] # None => balance'[t] # None
    BY <1>1 DEF pageVars, Types, Grows
<1>4. Types' /\ Shapes' /\ Before'  BY <1>1, <1>3, KeepTypes, StepShapes
<1>5. Deliveries'  BY <1>1, <1>3, HandledNext, KeepDeliveries
<1>6. Costs'  BY <1>1, <1>2, <1>3, KeepCosts
<1>7. Gaps'
    <2>1. \A m \in (1..seen) \ lost' : Behind(cursor', drained', m) => feed'[m] # 0
        BY <1>1, <1>3, HashesSeen DEF Gaps
    <2> QED BY <1>1, <1>2, <1>3, <2>1, KeepGaps
<1> QED BY <1>4, <1>5, <1>6, <1>7

LEMMA HookEndKeeps == ASSUME IInv, NEW p \in Procs, HookFails(p) \/ HookAck(p) PROVE IInv'
<1> USE DEF IInv
<1>1. PICK n : /\ Step(p, n) /\ At(p, "legs") /\ n.cost = {} /\ n.op \in {"none", "hook"}
               /\ \/ acked' = acked /\ n = Idle
                  \/ /\ acked' = acked \cup {job[p].n} /\ job[p].k > Len(Chain[job[p].n])
                     /\ n.at = IF job[p].touched THEN "refresh" ELSE "idle"
               /\ UNCHANGED <<feedVars, rowVars, pageVars, pnl>>
    BY HookEndDoes
<1>2. n.at \in {"idle", "refresh"} /\ ~Full(n)  BY <1>1, IdleIs DEF Full
<1>3. UNCHANGED <<feed, lost, listed, balance, known, written, drift, cursor, seen, drained, height, connected>> /\ drift \in BOOLEAN
    BY <1>1 DEF feedVars, rowVars, pageVars, Types, Step
<1>4. PICK j \in JobSet : j = job[p] /\ j.at = "legs" /\ j.n \in 1..height /\ Handled(j)
    BY <1>1 DEF At, Types, Shapes, Deliveries
<1>5. acked' \subseteq 1..height  BY <1>1, <1>4 DEF Types
<1>6. Types' /\ Shapes' /\ Before'
    <2>1. job' \in [Procs -> JobSet] /\ Shapes' /\ Before'  BY <1>1, StepShapes
    <2> QED BY <1>1, <1>3, <1>5, <2>1 DEF Types
<1>7. Deliveries'
    <2>1. \A q \in Procs : job'[q].at = "legs" => job'[q] = job[q]  BY <1>1, <1>2, StepShapes
    <2>2. \A q \in Procs : job'[q].at = "legs" => Handled(job[q])'
        <3>1. SUFFICES ASSUME NEW q \in Procs, job'[q].at = "legs" PROVE Handled(job[q])'  OBVIOUS
        <3>2. Handled(job[q]) /\ job'[q] = job[q]  BY <2>1, <3>1 DEF Deliveries, At
        <3> QED BY <1>3, <3>2 DEF Handled
    <2>3. \A m \in acked' : HasLeg(m) => feed'[m] # 0
        <3>1. CASE acked' = acked  BY <1>3, <3>1 DEF Deliveries, AckedIsRecorded
        <3>2. CASE acked' = acked \cup {j.n} /\ j.k > Len(Chain[j.n])
            <4>1. ASSUME HasLeg(j.n) PROVE feed[j.n] # 0
                <5>1. PICK k \in DOMAIN Chain[j.n] : Chain[j.n][k].kind # "nft" /\ Chain[j.n][k].item \in Catalog
                    BY <4>1 DEF HasLeg
                <5>2. j.n \in Hashes /\ j.k \in Nat  BY <1>4, HashesSeen DEF JobSet
                <5>3. k \in 1..(j.k - 1)  BY <3>2, <5>2, ChainLegs
                <5> QED BY <1>4, <5>1, <5>3 DEF Handled
            <4> QED BY <1>3, <3>2, <4>1 DEF Deliveries, AckedIsRecorded
        <3> QED BY <1>1, <1>4, <3>1, <3>2
    <2> QED BY <2>2, <2>3 DEF Deliveries, AckedIsRecorded, At, HasLeg
<1>8. Costs'  BY <1>1, <1>2, <1>3, KeepCosts
<1>9. Gaps'
    <2>1. \A m \in (1..seen) \ lost' : Behind(cursor', drained', m) => feed'[m] # 0  BY <1>3 DEF Gaps
    <2> QED BY <1>1, <1>2, <1>3, <2>1, KeepGaps
<1> QED BY <1>6, <1>7, <1>8, <1>9

LEMMA RefreshKeeps == ASSUME IInv, NEW p \in Procs, refreshConnectedBalancesFromProvider(p) PROVE IInv'
<1> USE DEF IInv
<1>1. PICK n : /\ Step(p, n) /\ At(p, "refresh") /\ n.cost = {} /\ Catalog \subseteq listed'
               /\ \/ n = Idle /\ drift' = TRUE
                  \/ n.op = "hook" /\ n.at = "set" /\ drift' = (drift \/ Overlaps(p))
               /\ UNCHANGED <<feed, lost, balance, known, written, pageVars, acked, pnl>>
    BY RefreshDoes
<1>2. n.at \in {"idle", "set"} /\ n.op \in {"none", "hook"} /\ ~Full(n)  BY <1>1, IdleIs DEF Full
<1>3. UNCHANGED <<cursor, seen, drained, height>>  BY <1>1 DEF pageVars, Step
<1>4. Types' /\ Shapes' /\ Before'
    <2>1. job' \in [Procs -> JobSet] /\ Shapes' /\ Before' /\ connected'  BY <1>1, StepShapes DEF Step
    <2>2. drift' \in BOOLEAN
        <3>1. Overlaps(p) \in BOOLEAN  BY DEF Overlaps
        <3> QED BY <1>1, <3>1 DEF Types
    <2> QED BY <1>1, <1>3, <2>1, <2>2 DEF Types
<1>5. Deliveries'  BY <1>1, <1>2, KeepDeliveries
<1>6. Costs'  BY <1>1, <1>2, KeepCosts
<1>7. Gaps'
    <2>1. \A m \in (1..seen) \ lost' : Behind(cursor', drained', m) => feed'[m] # 0  BY <1>1, <1>3 DEF Gaps
    <2> QED BY <1>1, <1>2, <1>3, <2>1, KeepGaps
<1> QED BY <1>4, <1>5, <1>6, <1>7

\* A request of the only sync knows all that is known from its provider.
LEMMA KeepKnown ==
    ASSUME Types, Shapes, Costs, NEW p \in Procs, NEW n, Step(p, n), pnl' = pnl,
           \A t \in TokenSet : /\ known'[t] = "none" \/ balance'[t] # None
                               /\ \/ known'[t] \in {"none", known[t]}
                                  \/ t \in job[p].cost /\ known'[t] = job[p].by,
           n.cost = {} \/ (n.cost = job[p].cost /\ n.by = job[p].by),
           Full(n) => Full(job[p]) /\ n.lone = job[p].lone
    PROVE  Costs'
<1>1. job'[p] = n /\ (\A q \in Procs \ {p} : job'[q] = job[q]) /\ height' = height
    BY StepShapes DEF Step
<1>2. \A q \in Procs : job'[q].cost = {} \/ (job'[q].cost = job[q].cost /\ job'[q].by = job[q].by)  BY <1>1
<1>3. \A q \in Procs : Full(job'[q]) => Full(job[q]) /\ job'[q].lone = job[q].lone  BY <1>1
<1>4. ASSUME NEW q \in PNL, NEW t \in From(q)'
      PROVE  t \in Steady /\ (t \in From(q) \/ (t \in job[p].cost /\ job[p].by = q))
    <2>1. t \in Steady /\ t \in TokenSet /\ known'[t] = q  BY <1>4 DEF From, Steady
    <2> QED BY <1>4, <2>1 DEF From, PNL
<1>5. Sources'
    <2>1. \A q \in PNL : From(q)' \subseteq Gained(q, height)  BY <1>4 DEF Costs, Sources
    <2>2. \A q \in Procs : job'[q].cost = {} \/ (/\ job'[q].by \in PNL
                                                /\ job'[q].cost \cap Steady \subseteq Gained(job'[q].by, height))
        BY <1>2 DEF Costs, Sources
    <2> QED BY <1>1, <2>1, <2>2 DEF Sources, Steady, Gained
<1>6. Cache'
    <2>1. SUFFICES ASSUME pnl.by \in PNL
                   PROVE  /\ pnl.tokens \cap Steady \subseteq Gained(pnl.by, height)
                          /\ {t \in Steady : known'[t] = pnl.by} \subseteq pnl.tokens
                          /\ \A q \in Procs : job'[q].by = pnl.by => job'[q].cost \cap Steady \subseteq pnl.tokens
        BY <1>1 DEF Cache, Gained, Steady, From
    <2>2. {t \in Steady : known'[t] = pnl.by} \subseteq pnl.tokens
        <3>1. PICK y \in PNL : y = pnl.by  BY <2>1
        <3>2. \A t \in From(y)' : t \in pnl.tokens  BY <1>4, <2>1, <3>1 DEF Costs, Cache
        <3> QED BY <3>1, <3>2 DEF From, Steady
    <2>3. \A q \in Procs : job'[q].by = pnl.by => job'[q].cost \cap Steady \subseteq pnl.tokens
        BY <1>2, <2>1 DEF Costs, Cache
    <2> QED BY <2>1, <2>2, <2>3 DEF Costs, Cache
<1>7. Alone'
    <2>1. ASSUME NEW q \in Procs, Full(job'[q]), job'[q].lone, job'[q].cost # {}
          PROVE  {t \in Steady : known'[t] = job'[q].by} \subseteq job'[q].cost
        <3>1. /\ Full(job[q]) /\ job[q].lone /\ job'[q].cost = job[q].cost /\ job'[q].by = job[q].by
              /\ From(job[q].by) \subseteq job[q].cost /\ job[q].by \in PNL
            BY <1>2, <1>3, <2>1 DEF Costs, Alone, Sources
        <3>2. PICK y : y = job[q].by  OBVIOUS
        <3>3. ASSUME NEW t \in From(y)' PROVE t \in job[q].cost
            <4>1. t \in From(y) \/ (t \in job[p].cost /\ job[p].by = y)  BY <1>4, <3>1, <3>2, <3>3
            <4>2. CASE t \in job[p].cost
                <5>1. Full(job[p])  BY <4>2 DEF Shapes, Shape
                <5>2. q = p  BY <3>1, <5>1 DEF Costs, Alone
                <5> QED BY <4>2, <5>2
            <4> QED BY <3>1, <3>2, <4>1, <4>2
        <3> QED BY <3>1, <3>2, <3>3 DEF From, Steady
    <2>2. \A q, i \in Procs : (Full(job'[q]) /\ Full(job'[i]) /\ job'[q].lone) => q = i
        BY <1>3 DEF Costs, Alone
    <2> QED BY <2>1, <2>2 DEF Alone, Full, From, Steady
<1> QED BY <1>5, <1>6, <1>7 DEF Costs

LEMMA ImportingGoesOn ==
    ASSUME Types, Gaps, NEW p \in Procs, NEW n, ~At(p, "page"), n.op = job[p].op, n.next = job[p].next,
           n.blank = job[p].blank, n.page = job[p].page, seen' = seen, lost \subseteq lost',
           \A m \in Hashes : feed[m] # 0 => feed'[m] # 0, n.op \in {"sync", "more"}
    PROVE  Importing(n)'
<1>1. Importing(job[p])  BY DEF Gaps
<1>2. 1..seen \subseteq Hashes  BY HashesSeen
<1> QED BY <1>1, <1>2 DEF Importing

LEMMA SetBalanceKeeps == ASSUME IInv, NEW p \in Procs, SetBalance(p) PROVE IInv'
<1> USE DEF IInv
<1>1. PICK n, t : /\ Step(p, n) /\ At(p, "set") /\ t \in job[p].todo /\ t \in TokenSet
                  /\ Alike(n, job[p]) /\ n.at = "set" /\ n.todo = job[p].todo \ {t} /\ n.page = job[p].page
                  /\ \/ drift' = TRUE /\ UNCHANGED <<balance, known, written>>
                     \/ /\ balance' = [balance EXCEPT ![t] = Want(job[p], t)] /\ Want(job[p], t) \in Nat
                        /\ written' = written \cup {t} /\ drift' = drift
                        /\ known' = IF job[p].cost = {} THEN known ELSE [known EXCEPT ![t] = Cost(job[p], t)]
                  /\ UNCHANGED <<feedVars, pageVars, acked, pnl>>
    BY SetBalanceDoes
<1>2. UNCHANGED <<feed, lost, listed, cursor, seen, drained, height, connected>>  BY <1>1 DEF feedVars, pageVars, Step
<1>3. job[p].cost \subseteq TokenSet  BY DEF Types, JobSet
<1>4. /\ balance' \in [TokenSet -> Nat \cup {None}] /\ known' \in [TokenSet -> PNL \cup {"none"}]
      /\ written' \subseteq TokenSet /\ drift' \in BOOLEAN
    <2>0. PICK j \in JobSet : j = job[p]  BY DEF Types
    <2>1. PICK y : y = Cost(j, t)  OBVIOUS
    <2>2. y \in PNL \cup {"none"}
        <3>1. j.by \in PNL \cup {"none"}  BY DEF JobSet
        <3> QED BY <2>1, <3>1 DEF Cost
    <2>3. known' \in [TokenSet -> PNL \cup {"none"}]  BY <1>1, <2>0, <2>1, <2>2 DEF Types
    <2>4. PICK x : x = Want(job[p], t)  OBVIOUS
    <2>5. balance' \in [TokenSet -> Nat \cup {None}]  BY <1>1, <2>4 DEF Types
    <2>6. written' \subseteq TokenSet /\ drift' \in BOOLEAN  BY <1>1 DEF Types
    <2> QED BY <2>3, <2>5, <2>6
<1>5. Types' /\ Shapes' /\ Before'
    <2>1. job' \in [Procs -> JobSet] /\ Shapes' /\ Before'  BY <1>1, StepShapes
    <2> QED BY <1>1, <1>2, <1>4, <2>1 DEF Types
<1>6. Deliveries'  BY <1>1, <1>2, KeepDeliveries
<1>7. Costs'
    <2>1. balance'[t] # None \/ UNCHANGED <<balance, known>>  BY <1>1, WalletAssumption DEF Types
    <2>2. \A u \in TokenSet : balance'[u] = balance[u] \/ (u = t /\ balance'[u] # None)  BY <1>1, <2>1 DEF Types
    <2>3. ASSUME NEW u \in TokenSet
          PROVE  \/ known'[u] = known[u]
                 \/ u = t /\ known'[u] = "none"
                 \/ u = t /\ u \in job[p].cost /\ known'[u] = job[p].by
        <3>1. CASE known' = known  BY <3>1
        <3>2. CASE known' = [known EXCEPT ![t] = Cost(job[p], t)]  BY <3>2 DEF Cost, Types
        <3> QED BY <1>1, <3>1, <3>2
    <2>4. \A u \in TokenSet : known'[u] = "none" \/ balance'[u] # None
        <3>1. CASE UNCHANGED <<balance, known>>  BY <3>1 DEF Costs, Sources
        <3>2. CASE balance'[t] # None  BY <2>2, <2>3, <3>2 DEF Costs, Sources
        <3> QED BY <2>1, <3>1, <3>2
    <2>5. n.cost = job[p].cost /\ n.by = job[p].by /\ (Full(n) => Full(job[p]) /\ n.lone = job[p].lone)
        BY <1>1 DEF Alike, Full
    <2> QED BY <1>1, <2>3, <2>4, <2>5, KeepKnown
<1>8. Gaps'
    <2>1. \A m \in (1..seen) \ lost' : Behind(cursor', drained', m) => feed'[m] # 0  BY <1>2 DEF Gaps
    <2>2. n.op \in {"sync", "more"} => Importing(n)'  BY <1>1, <1>2, ImportingGoesOn DEF Alike, At
    <2> QED BY <1>1, <1>2, <2>1, <2>2, KeepGaps
<1> QED BY <1>5, <1>6, <1>7, <1>8

LEMMA ZeroRestKeeps == ASSUME IInv, NEW p \in Procs, ZeroRest(p) PROVE IInv'
<1> USE DEF IInv
<1>1. PICK n, rest :
              /\ Step(p, n) /\ At(p, "set") /\ job[p].todo = {} /\ n.cost = {}
              /\ \/ n = Idle /\ ~Full(job[p])
                 \/ /\ n.at = "finish" /\ n.op = job[p].op /\ Full(job[p]) /\ n.next = job[p].next
                    /\ n.blank = job[p].blank /\ n.lone = job[p].lone /\ n.page = job[p].page
              /\ rest = {t \in TokenSet : balance[t] # None} \ (DOMAIN job[p].held \cup job[p].cost)
              /\ balance' = [t \in TokenSet |-> IF t \in rest THEN 0 ELSE balance[t]]
              /\ written' = written \cup rest
              /\ known' = IF job[p].cost = {} THEN known ELSE Left(rest)
              /\ UNCHANGED <<feedVars, drift, pageVars, acked, pnl>>
    BY ZeroRestDoes
<1>2. UNCHANGED <<feed, lost, listed, cursor, seen, drained, height, connected>>  BY <1>1 DEF feedVars, pageVars, Step
<1>3. n.at \in {"idle", "finish"} /\ (Full(n) => Full(job[p]) /\ n.lone = job[p].lone)  BY <1>1, IdleIs
<1>4. /\ balance' \in [TokenSet -> Nat \cup {None}] /\ known' \in [TokenSet -> PNL \cup {"none"}]
      /\ written' \subseteq TokenSet
    BY <1>1 DEF Types, Left
<1>5. Types' /\ Shapes' /\ Before'
    <2>1. job' \in [Procs -> JobSet] /\ Shapes' /\ Before'  BY <1>1, StepShapes
    <2> QED BY <1>1, <1>2, <1>4, <2>1 DEF Types
<1>6. Deliveries'  BY <1>1, <1>2, <1>3, KeepDeliveries
<1>7. Costs'
    <2>1. 0 # None  BY WalletAssumption
    <2>2. \A u \in TokenSet : balance[u] # None => balance'[u] # None  BY <1>1, <2>1
    <2>3. \A u \in TokenSet : known'[u] \in {"none", known[u]}  BY <1>1 DEF Left
    <2>4. \A u \in TokenSet : known'[u] = "none" \/ balance'[u] # None  BY <2>2, <2>3 DEF Costs, Sources
    <2> QED BY <1>1, <1>3, <2>3, <2>4, KeepKnown
<1>8. Gaps'
    <2>1. \A m \in (1..seen) \ lost' : Behind(cursor', drained', m) => feed'[m] # 0  BY <1>2 DEF Gaps
    <2>2. n.op \in {"sync", "more"} => Importing(n)'  BY <1>1, <1>2, ImportingGoesOn, IdleIs DEF At
    <2> QED BY <1>1, <1>2, <1>3, <2>1, <2>2, KeepGaps
<1> QED BY <1>5, <1>6, <1>7, <1>8

LEMMA ImportLegKeeps == ASSUME IInv, NEW p \in Procs, ImportLeg(p) PROVE IInv'
<1> USE DEF IInv
<1>1. PICK n, x : /\ Step(p, n) /\ At(p, "import") /\ Alike(n, job[p]) /\ n.at = "import"
                  /\ x \in job[p].page /\ n.page = job[p].page \ {x} /\ x = <<x[1], x[2]>> /\ x[1] \in Hashes
                  /\ (x[1] \in lost' \/ feed'[x[1]] # 0) /\ lost \subseteq lost' /\ listed \subseteq listed'
                  /\ Grows /\ UNCHANGED <<known, written, drift, pageVars, acked, pnl>>
    BY ImportLegDoes
<1>2. /\ UNCHANGED <<cursor, seen, drained, height>> /\ drift' \in BOOLEAN
      /\ \A m \in Hashes : feed[m] # 0 => feed'[m] # 0
      /\ \A t \in TokenSet : balance[t] # None => balance'[t] # None
    BY <1>1 DEF pageVars, Types, Grows, Step
<1>3. Types' /\ Shapes' /\ Before'  BY <1>1, <1>2, KeepTypes, StepShapes
<1>4. Deliveries'  BY <1>1, <1>2, KeepDeliveries
<1>5. Costs'
    <2>1. (Full(n) /\ n.lone /\ n.cost # {}) => From(n.by) \subseteq n.cost  BY <1>1 DEF Costs, Alone, Alike, Full
    <2> QED BY <1>1, <1>2, <2>1, KeepCosts DEF Alike, Full
<1>6. Gaps'
    <2>1. \A m \in (1..seen) \ lost' : Behind(cursor', drained', m) => feed'[m] # 0
        BY <1>1, <1>2, HashesSeen DEF Gaps
    <2>2. ASSUME n.op \in {"sync", "more"} PROVE Importing(n)'
        <3>1. PICK j : j = job[p] /\ Importing(j) /\ Alike(n, j) /\ x \in j.page /\ n.page = j.page \ {x}
            BY <1>1, <2>2 DEF Gaps, At, Alike
        <3>2. SUFFICES ASSUME NEW m \in (1..seen) \ lost', Behind(n.next, n.op = "more" \/ ~n.blank, m), feed'[m] = 0
                       PROVE  \E k \in DOMAIN Chain[m] : <<m, k>> \in n.page
            BY <1>2 DEF Importing
        <3>3. m \in Hashes /\ feed[m] = 0 /\ m \notin lost  BY <1>1, <1>2, <3>2, HashesSeen
        <3>4. PICK k \in DOMAIN Chain[m] : <<m, k>> \in j.page
            <4>1. Behind(j.next, j.op = "more" \/ ~j.blank, m)  BY <3>1, <3>2 DEF Alike
            <4> QED BY <3>1, <3>2, <3>3, <4>1 DEF Importing
        <3>5. m # x[1]  BY <1>1, <3>2
        <3>6. <<m, k>> # x  BY <1>1, <3>5
        <3> QED BY <3>1, <3>4, <3>6
    <2> QED BY <1>1, <1>2, <2>1, <2>2, KeepGaps
<1> QED BY <1>3, <1>4, <1>5, <1>6

LEMMA NftStepKeeps == ASSUME IInv, NEW p \in Procs, NftRead(p) \/ importNftHoldings(p) PROVE IInv'
<1> USE DEF IInv
<1>1. PICK n : /\ Step(p, n) /\ Alike(n, job[p]) /\ n.at \in {"nfts", "cost"}
               /\ n.page = job[p].page /\ job[p].at \in {"import", "nfts"}
               /\ UNCHANGED <<feed, listed, lost, rowVars, pageVars, acked, pnl>>
    BY NftStepDoes
<1>2. UNCHANGED <<balance, known, written, drift, cursor, seen, drained>> /\ Grows /\ drift' \in BOOLEAN
    BY <1>1, SameGrows DEF rowVars, pageVars, Types
<1>3. Types' /\ Shapes' /\ Before'  BY <1>1, <1>2, KeepTypes, StepShapes
<1>4. Deliveries'  BY <1>1, KeepDeliveries
<1>5. Costs'
    <2>1. (Full(n) /\ n.lone /\ n.cost # {}) => From(n.by) \subseteq n.cost  BY <1>1 DEF Costs, Alone, Alike, Full
    <2> QED BY <1>1, <1>2, <2>1, KeepCosts DEF Alike, Full
<1>6. Gaps'
    <2>1. \A m \in (1..seen) \ lost' : Behind(cursor', drained', m) => feed'[m] # 0  BY <1>1, <1>2 DEF Gaps
    <2>2. n.op \in {"sync", "more"} => Importing(n)'  BY <1>1, <1>2, ImportingGoesOn DEF Alike, At
    <2> QED BY <1>1, <1>2, <2>1, <2>2, KeepGaps
<1> QED BY <1>3, <1>4, <1>5, <1>6

LEMMA CostMapKeeps == ASSUME IInv, NEW p \in Procs, buildConnectedCostMap(p) PROVE IInv'
<1> USE DEF IInv
<1>1. PICK n : /\ Step(p, n) /\ At(p, "cost") /\ Full(job[p])
               /\ n.at = "set" /\ n.op = job[p].op /\ n.held = job[p].held
               /\ n.by = job[p].by /\ n.cost \subseteq job[p].cost /\ (\A t \in job[p].cost : balance[t] # None => t \in n.cost)
               /\ n.next = job[p].next
               /\ n.blank = job[p].blank /\ n.lone = job[p].lone /\ n.page = job[p].page
               /\ UNCHANGED <<feedVars, rowVars, pageVars, acked, pnl>>
    BY CostMapDoes
<1>2. UNCHANGED <<feed, lost, listed, balance, known, written, drift, cursor, seen, drained>> /\ Grows /\ drift' \in BOOLEAN
    BY <1>1, SameGrows DEF feedVars, rowVars, pageVars, Types
<1>3. Types' /\ Shapes' /\ Before'  BY <1>1, <1>2, KeepTypes, StepShapes
<1>4. Deliveries'  BY <1>1, <1>2, KeepDeliveries
<1>5. Costs'
    <2>1. ASSUME n.lone, n.cost # {} PROVE From(n.by) \subseteq n.cost
        <3>1. From(n.by) \subseteq job[p].cost /\ n.by \in PNL  BY <1>1, <2>1 DEF Costs, Alone, Sources
        <3>2. \A t \in From(n.by) : balance[t] # None  BY <3>1 DEF Costs, Sources, From, Steady, PNL
        <3> QED BY <1>1, <3>1, <3>2
    <2> QED BY <1>1, <1>2, <2>1, KeepCosts
<1>6. Gaps'
    <2>1. \A m \in (1..seen) \ lost' : Behind(cursor', drained', m) => feed'[m] # 0  BY <1>2 DEF Gaps
    <2>2. n.op \in {"sync", "more"} => Importing(n)'  BY <1>1, <1>2, ImportingGoesOn DEF At
    <2> QED BY <1>1, <1>2, <2>1, <2>2, KeepGaps
<1> QED BY <1>3, <1>4, <1>5, <1>6

LEMMA FullFinishKeeps == ASSUME IInv, NEW p \in Procs, FullFinish(p) PROVE IInv'
<1> USE DEF IInv
<1>1. /\ Step(p, Idle) /\ At(p, "finish") /\ job[p].page = {}
      /\ \/ UNCHANGED <<cursor, drained>>
         \/ /\ job[p].op = "sync" /\ cursor' = job[p].next
            /\ drained' = (job[p].next = NoCursor /\ ~job[p].blank)
      /\ UNCHANGED <<feedVars, rowVars, seen, acked, pnl>>
    BY FullFinishDoes
<1>2. UNCHANGED <<feed, lost, listed, balance, known, written, drift, height, connected>>
    BY <1>1 DEF feedVars, rowVars, Step
<1>3. PICK j \in JobSet : j = job[p] /\ j.next \in Cursors /\ j.blank \in BOOLEAN  BY DEF Types, JobSet
<1>4. Types' /\ Shapes' /\ Before'
    <2>1. job' \in [Procs -> JobSet] /\ Shapes' /\ Before'  BY <1>1, StepShapes
    <2>2. cursor' \in Cursors /\ drained' \in BOOLEAN  BY <1>1, <1>3 DEF Types
    <2> QED BY <1>1, <1>2, <2>1, <2>2 DEF Types
<1>5. Deliveries'  BY <1>1, <1>2, KeepDeliveries, IdleIs
<1>6. Costs'  BY <1>1, <1>2, KeepCosts, IdleIs
<1>7. Gaps'
    <2>1. ASSUME NEW m \in (1..seen) \ lost', Behind(cursor', drained', m) PROVE feed'[m] # 0
        <3>1. CASE UNCHANGED <<cursor, drained>>  BY <1>2, <2>1, <3>1 DEF Gaps
        <3>2. CASE j.op = "sync" /\ cursor' = j.next /\ drained' = (j.next = NoCursor /\ ~j.blank)
            <4>1. Importing(j) /\ j.page = {}  BY <1>1, <1>3, <3>2 DEF Gaps, At
            <4>2. Behind(j.next, j.op = "more" \/ ~j.blank, m)  BY <2>1, <3>2 DEF Behind
            <4> QED BY <1>2, <2>1, <4>1, <4>2 DEF Importing
        <3> QED BY <1>1, <1>3, <3>1, <3>2
    <2> QED BY <1>1, <1>2, <2>1, KeepGaps, IdleIs
<1> QED BY <1>4, <1>5, <1>6, <1>7

LEMMA MoreStartKeeps == ASSUME IInv, NEW p \in Procs, MoreStart(p) PROVE IInv'
<1> USE DEF IInv
<1>1. PICK n : /\ Step(p, n) /\ At(p, "idle") /\ n.op = "more" /\ n.at = "page" /\ n.next = cursor /\ n.cost = {}
               /\ UNCHANGED <<feedVars, rowVars, pageVars, acked, pnl>>
    BY MoreStartDoes
<1>2. UNCHANGED <<feed, lost, listed, balance, known, written, drift, cursor, seen, drained>> /\ Grows /\ drift' \in BOOLEAN
    BY <1>1, SameGrows DEF feedVars, rowVars, pageVars, Types
<1>3. ~Full(n)  BY <1>1 DEF Full
<1>4. Types' /\ Shapes' /\ Before'  BY <1>1, <1>2, KeepTypes, StepShapes
<1>5. Deliveries'  BY <1>1, <1>2, KeepDeliveries
<1>6. Costs'  BY <1>1, <1>2, <1>3, KeepCosts
<1>7. Gaps'
    <2>1. \A m \in (1..seen) \ lost' : Behind(cursor', drained', m) => feed'[m] # 0  BY <1>2 DEF Gaps
    <2>2. ASSUME NEW m \in (1..seen) \ lost', Behind(n.next, FALSE, m) PROVE feed'[m] # 0
        <3>1. Behind(cursor, drained, m)  BY <1>1, <2>2 DEF Behind
        <3> QED BY <1>2, <3>1 DEF Gaps
    <2> QED BY <1>1, <1>2, <2>1, <2>2, KeepGaps
<1> QED BY <1>4, <1>5, <1>6, <1>7

LEMMA MorePageKeeps == ASSUME IInv, NEW p \in Procs, MorePage(p) PROVE IInv'
<1> USE DEF IInv
<1>1. PICK n : /\ Step(p, n) /\ At(p, "page") /\ n.cost = {}
               /\ \/ n = Idle /\ cursor' = NoCursor /\ drained' = FALSE /\ lost' = lost
                  \/ /\ n.op = "more" /\ n.at = "import" /\ UNCHANGED <<cursor, drained>> /\ lost \subseteq lost'
                     /\ \A m \in (1..height) \ lost' : Behind(n.next, TRUE, m) =>
                           (Behind(job[p].next, FALSE, m) \/ \E k \in DOMAIN Chain[m] : <<m, k>> \in n.page)
               /\ UNCHANGED <<feed, nfts, listed, rowVars, seen, acked, pnl>>
    BY MorePageDoes
<1>2. UNCHANGED <<balance, known, written, drift, height, connected>> /\ lost \subseteq lost'  BY <1>1 DEF rowVars, Step
<1>3. n.at \in {"idle", "import"} /\ n.op \in {"none", "more"} /\ ~Full(n)  BY <1>1, IdleIs DEF Full
<1>4. Types' /\ Shapes' /\ Before'
    <2>1. job' \in [Procs -> JobSet] /\ Shapes' /\ Before'  BY <1>1, StepShapes
    <2>2. cursor' \in Cursors /\ drained' \in BOOLEAN  BY <1>1, CursorFacts DEF Types
    <2> QED BY <1>1, <1>2, <2>1, <2>2 DEF Types
<1>5. Deliveries'  BY <1>1, <1>3, KeepDeliveries
<1>6. Costs'  BY <1>1, <1>2, <1>3, KeepCosts
<1>7. Gaps'
    <2>1. ASSUME NEW m \in (1..seen) \ lost', Behind(cursor', drained', m) PROVE feed'[m] # 0
        <3>1. CASE UNCHANGED <<cursor, drained>>  BY <1>1, <1>2, <2>1, <3>1 DEF Gaps
        <3>2. CASE cursor' = NoCursor /\ drained' = FALSE  BY <2>1, <3>2 DEF Behind
        <3> QED BY <1>1, <3>1, <3>2
    <2>2. ASSUME n.op = "more" PROVE Importing(n)'
        <3>1. ASSUME NEW m \in (1..seen) \ lost', Behind(n.next, n.op = "more" \/ ~n.blank, m)
              PROVE  feed[m] # 0 \/ \E k \in DOMAIN Chain[m] : <<m, k>> \in n.page
            <4>1. Behind(n.next, TRUE, m)  BY <2>2, <3>1 DEF Behind
            <4>2. Behind(job[p].next, FALSE, m) \/ \E k \in DOMAIN Chain[m] : <<m, k>> \in n.page
                BY <1>1, <2>2, <3>1, <4>1, HashesSeen, IdleIs
            <4> QED BY <1>1, <1>2, <3>1, <4>2 DEF Gaps
        <3> QED BY <1>1, <3>1 DEF Importing
    <2> QED BY <1>1, <1>2, <1>3, <2>1, <2>2, KeepGaps
<1> QED BY <1>4, <1>5, <1>6, <1>7

LEMMA MoreFinishKeeps == ASSUME IInv, NEW p \in Procs, MoreFinish(p) PROVE IInv'
<1> USE DEF IInv
<1>1. /\ Step(p, Idle) /\ At(p, "import") /\ job[p].page = {} /\ job[p].op = "more"
      /\ cursor' = job[p].next /\ drained' = (job[p].next = NoCursor)
      /\ UNCHANGED <<feedVars, rowVars, seen, acked, pnl>>
    BY MoreFinishDoes
<1>2. UNCHANGED <<feed, lost, listed, balance, known, written, drift, height, connected>>
    BY <1>1 DEF feedVars, rowVars, Step
<1>3. PICK j \in JobSet : j = job[p] /\ j.next \in Cursors  BY DEF Types, JobSet
<1>4. Types' /\ Shapes' /\ Before'
    <2>1. job' \in [Procs -> JobSet] /\ Shapes' /\ Before'  BY <1>1, StepShapes
    <2>2. cursor' \in Cursors /\ drained' \in BOOLEAN  BY <1>1, <1>3 DEF Types
    <2> QED BY <1>1, <1>2, <2>1, <2>2 DEF Types
<1>5. Deliveries'  BY <1>1, <1>2, KeepDeliveries, IdleIs
<1>6. Costs'  BY <1>1, <1>2, KeepCosts, IdleIs
<1>7. Gaps'
    <2>1. ASSUME NEW m \in (1..seen) \ lost', Behind(cursor', drained', m) PROVE feed'[m] # 0
        <3>1. Importing(j) /\ j.page = {} /\ j.op = "more"  BY <1>1, <1>3 DEF Gaps, At
        <3>2. Behind(j.next, j.op = "more" \/ ~j.blank, m)  BY <1>1, <1>3, <2>1, <3>1 DEF Behind
        <3> QED BY <1>2, <2>1, <3>1, <3>2 DEF Importing
    <2> QED BY <1>1, <1>2, <2>1, KeepGaps, IdleIs
<1> QED BY <1>4, <1>5, <1>6, <1>7

LEMMA JoinedDeliveries ==
    ASSUME Types, Deliveries, NEW p \in Procs, NEW n, Joined(p, n), UNCHANGED <<feed, acked>>
    PROVE  Deliveries'
<1>1. AckedIsRecorded'  BY DEF Deliveries, AckedIsRecorded, HasLeg
<1>2. ASSUME NEW q \in Procs, job'[q].at = "legs" PROVE Handled(job[q])'
    <2>1. q # p  BY <1>2 DEF Joined
    <2>2. /\ job[q].at = "legs" /\ job'[q].n = job[q].n /\ job'[q].k = job[q].k /\ job'[q].touched = job[q].touched
        BY <1>2, <2>1 DEF Joined, Same
    <2>3. Handled(job[q])  BY <2>2 DEF Deliveries, At
    <2> QED BY <2>2, <2>3 DEF Handled
<1> QED BY <1>1, <1>2 DEF Deliveries, At

\* A new answer has all that is known from its provider.
LEMMA AnswerKeeps ==
    ASSUME Types, Costs, UNCHANGED <<known, height>>, pnl' = pnl \/ pnl' \in Fresh(height)
    PROVE  /\ pnl' \in PnlSet
           /\ pnl'.by \in PNL =>
                /\ pnl'.tokens \cap Steady \subseteq Gained(pnl'.by, height) /\ From(pnl'.by) \subseteq pnl'.tokens
                /\ \A q \in Procs : job[q].by = pnl'.by => job[q].cost \cap Steady \subseteq pnl'.tokens
<1>1. CASE pnl' = pnl  BY <1>1 DEF Costs, Cache, Types
<1>2. CASE pnl' \in Fresh(height)
    <2>1. height \in Heights  BY DEF Types
    <2>2. pnl' \in PnlSet /\ pnl'.by \in PNL /\ pnl'.tokens \cap Steady = Gained(pnl'.by, height)
        BY <1>2, <2>1, FreshIs
    <2>3. From(pnl'.by) \subseteq Gained(pnl'.by, height)  BY <2>2 DEF Costs, Sources
    <2>4. \A q \in Procs : job[q].by = pnl'.by => job[q].cost \cap Steady \subseteq Gained(pnl'.by, height)
        BY DEF Costs, Sources
    <2> QED BY <2>2, <2>3, <2>4
<1> QED BY <1>1, <1>2

LEMMA JoinedCosts ==
    ASSUME Types, Costs, NEW p \in Procs, NEW n, Joined(p, n), UNCHANGED <<height, balance, known>>,
           pnl' = pnl \/ pnl' \in Fresh(height)
    PROVE  Costs'
<1>1. /\ job'[p] = n /\ n.cost = pnl'.tokens /\ n.by = pnl'.by /\ (n.lone => \A q \in Procs \ {p} : ~Full(job[q]))
      /\ \A q \in Procs \ {p} : /\ job'[q].cost = job[q].cost
                                /\ job'[q].by = job[q].by
                                /\ (Full(job'[q]) => Full(job[q]) /\ ~job'[q].lone)
    BY DEF Joined, Same, Full
<1>2. /\ pnl' \in PnlSet
      /\ pnl'.by \in PNL =>
            /\ pnl'.tokens \cap Steady \subseteq Gained(pnl'.by, height) /\ From(pnl'.by) \subseteq pnl'.tokens
            /\ \A q \in Procs : job[q].by = pnl'.by => job[q].cost \cap Steady \subseteq pnl'.tokens
    BY AnswerKeeps
<1>3. pnl'.tokens = {} \/ pnl'.by \in PNL  BY <1>2 DEF PnlSet, NoPnl
<1>4. \A q : From(q)' = From(q)  BY DEF From, Steady
<1>5. Sources'
    <2>1. \A q \in Procs : job'[q].cost = {} \/ (/\ job'[q].by \in PNL
                                                /\ job'[q].cost \cap Steady \subseteq Gained(job'[q].by, height))
        <3>1. ASSUME NEW q \in Procs, q # p
              PROVE  job'[q].cost = {} \/ (job'[q].by \in PNL /\ job'[q].cost \cap Steady \subseteq Gained(job'[q].by, height))
            BY <1>1, <3>1 DEF Costs, Sources
        <3> QED BY <1>1, <1>2, <1>3, <3>1
    <2> QED BY <1>4, <2>1 DEF Costs, Sources, Steady, Gained
<1>6. Cache'
    <2>1. \A q \in Procs : (pnl'.by \in PNL /\ job'[q].by = pnl'.by) => job'[q].cost \cap Steady \subseteq pnl'.tokens
        BY <1>1, <1>2
    <2> QED BY <1>2, <1>4, <2>1 DEF Cache, Gained, Steady
<1>7. Alone'
    <2>1. \A q \in Procs : (Full(job'[q]) /\ job'[q].lone /\ job'[q].cost # {}) => From(job'[q].by) \subseteq job'[q].cost
        BY <1>1, <1>2, <1>3
    <2>2. \A q, i \in Procs : (Full(job'[q]) /\ Full(job'[i]) /\ job'[q].lone) => q = i  BY <1>1
    <2> QED BY <1>4, <2>1, <2>2 DEF Alone, Full
<1> QED BY <1>5, <1>6, <1>7 DEF Costs

\* A sync starts with a page that leaves no gap, and a resync leaves the cursor alone.
LEMMA JoinedGaps ==
    ASSUME Types, Shapes, Before, Gaps, NEW p \in Procs, NEW n, Joined(p, n), UNCHANGED <<height, feed, cursor, drained>>,
           lost \subseteq lost', n.op \in {"sync", "resync"}, connected = (n.op = "resync"),
           seen' = IF n.op = "sync" THEN height ELSE seen,
           \A m \in (1..height) \ lost' : Behind(n.next, ~n.blank, m) => \E k \in DOMAIN Chain[m] : <<m, k>> \in n.page
    PROVE  Gaps'
<1>1. CASE n.op = "sync"
    <2>1. /\ \A q \in Procs : job[q].op = "none"
          /\ cursor = NoCursor /\ ~drained /\ seen' = height
        BY <1>1, IdleIs DEF Before
    <2>2. \A m \in (1..seen') \ lost' : Behind(cursor', drained', m) => feed'[m] # 0  BY <2>1 DEF Behind
    <2>3. \A q \in Procs \ {p} : job'[q].op = "none" /\ job'[q].at = "idle"  BY <1>1, <2>1, IdleIs DEF Joined, Full, Before
    <2>4. job'[p] = n /\ n.at = "import"  BY DEF Joined
    <2>5. Importing(job[p])'
        <3>1. ASSUME NEW m \in (1..height) \ lost', Behind(n.next, n.op = "more" \/ ~n.blank, m)
              PROVE  \E k \in DOMAIN Chain[m] : <<m, k>> \in n.page
            <4>1. Behind(n.next, ~n.blank, m)  BY <1>1, <3>1 DEF Behind
            <4> QED BY <4>1
        <3> QED BY <2>1, <2>4, <3>1 DEF Importing
    <2> QED BY <2>2, <2>3, <2>4, <2>5 DEF Gaps, At
<1>2. CASE n.op = "resync"
    <2>1. seen' = seen /\ job'[p].op = "resync" /\ job'[p].at = "import"  BY <1>2 DEF Joined
    <2>2. \A m \in (1..seen') \ lost' : Behind(cursor', drained', m) => feed'[m] # 0  BY <2>1 DEF Gaps
    <2>3. ASSUME NEW q \in Procs \ {p}
          PROVE  /\ job'[q].at = "page" => \A m \in (1..seen') \ lost' : Behind(job'[q].next, FALSE, m) => feed'[m] # 0
                 /\ (job'[q].op \in {"sync", "more"} /\ job'[q].at # "page") => Importing(job[q])'
        <3>1. PICK i, j : i = job'[q] /\ j = job[q]  OBVIOUS
        <3>2. /\ i.op = j.op /\ i.at = j.at /\ i.page = j.page /\ i.next = j.next /\ i.blank = j.blank
            BY <3>1 DEF Joined, Same
        <3>3. /\ j.at = "page" => \A m \in (1..seen) \ lost : Behind(j.next, FALSE, m) => feed[m] # 0
              /\ (j.op \in {"sync", "more"} /\ j.at # "page") => Importing(j)
            BY <3>1 DEF Gaps, At
        <3> QED BY <2>1, <3>1, <3>2, <3>3 DEF Importing
    <2> QED BY <2>1, <2>2, <2>3 DEF Gaps, At
<1> QED BY <1>1, <1>2

LEMMA FullStartKeeps == ASSUME IInv, NEW p \in Procs, SyncStart(p) \/ ResyncStart(p) PROVE IInv'
<1> USE DEF IInv
<1>1. PICK op \in {"sync", "resync"} : FullStart(p, op) /\ connected = (op = "resync") /\ connected'
    BY DEF SyncStart, ResyncStart, Types
<1>2. /\ (pnl' = pnl \/ pnl' \in Fresh(height)) /\ listed \subseteq listed'
      /\ \/ UNCHANGED <<job, seen, lost>> /\ drift' = (drift \/ op = "sync")
         \/ \E n : /\ Joined(p, n) /\ n.op = op
                   /\ drift' = (drift \/ Overlaps(p)) /\ seen' = IF op = "sync" THEN height ELSE seen
                   /\ lost \subseteq lost'
                   /\ \A m \in (1..height) \ lost' : Behind(n.next, ~n.blank, m) =>
                         \E k \in DOMAIN Chain[m] : <<m, k>> \in n.page
      /\ UNCHANGED <<height, feed, nfts, balance, known, written, cursor, drained, acked>>
    BY <1>1, FullStartDoes
<1>3. pnl' \in PnlSet /\ connected' \in BOOLEAN
    <2>1. connected' \in BOOLEAN  BY DEF SyncStart, ResyncStart, Types
    <2> QED BY <1>2, <2>1, AnswerKeeps
<1>4. Before'  BY <1>1 DEF Before
<1>5. CASE UNCHANGED <<job, seen, lost>> /\ drift' = (drift \/ op = "sync")
    <2>1. Types'  BY <1>2, <1>3, <1>5 DEF Types
    <2>2. Shapes'  BY <1>2, <1>5 DEF Shapes, At
    <2>3. Deliveries'  BY <1>2, <1>5 DEF Deliveries, AckedIsRecorded, HasLeg, Handled, At
    <2>4. Costs'
        <3>1. \A q : From(q)' = From(q)  BY <1>2 DEF From, Steady
        <3>2. Cache'
            <4>1. pnl'.by \in PNL =>
                    /\ pnl'.tokens \cap Steady \subseteq Gained(pnl'.by, height) /\ From(pnl'.by) \subseteq pnl'.tokens
                    /\ \A q \in Procs : job[q].by = pnl'.by => job[q].cost \cap Steady \subseteq pnl'.tokens
                BY <1>2, AnswerKeeps
            <4> QED BY <1>2, <1>5, <3>1, <4>1 DEF Cache, Gained, Steady
        <3>3. Sources' /\ Alone'  BY <1>2, <1>5, <3>1 DEF Costs, Sources, Alone, Full, Gained, Steady
        <3> QED BY <3>2, <3>3 DEF Costs
    <2>5. Gaps'  BY <1>2, <1>5 DEF Gaps, Importing, At
    <2> QED BY <1>4, <2>1, <2>2, <2>3, <2>4, <2>5
<1>6. ASSUME NEW n, Joined(p, n), n.op = op, drift' = (drift \/ Overlaps(p)),
             seen' = (IF op = "sync" THEN height ELSE seen), lost \subseteq lost',
             \A m \in (1..height) \ lost' : Behind(n.next, ~n.blank, m) => \E k \in DOMAIN Chain[m] : <<m, k>> \in n.page
      PROVE  IInv'
    <2>1. Types'
        <3>1. seen' \in 0..height'  BY <1>2, <1>6, HeightsAre DEF Types
        <3>2. drift' \in BOOLEAN
            <4>1. Overlaps(p) \in BOOLEAN  BY DEF Overlaps
            <4> QED BY <1>6, <4>1 DEF Types
        <3> QED BY <1>2, <1>3, <1>6, <3>1, <3>2 DEF Types, Joined
    <2>2. Shapes'  BY <1>2, <1>6, JoinedShapes
    <2>3. Deliveries'  BY <1>2, <1>6, JoinedDeliveries
    <2>4. Costs'  BY <1>2, <1>6, JoinedCosts
    <2>5. Gaps'
        <3>1. connected = (n.op = "resync") /\ n.op \in {"sync", "resync"} /\ seen' = IF n.op = "sync" THEN height ELSE seen
            BY <1>1, <1>6
        <3> QED BY <1>2, <1>6, <3>1, JoinedGaps
    <2> QED BY <1>4, <2>1, <2>2, <2>3, <2>4, <2>5
<1> QED BY <1>2, <1>5, <1>6

LEMMA MineKeeps == ASSUME IInv, Mine PROVE IInv'
<1> USE DEF IInv
<1>1. UNCHANGED <<feed, nfts, listed, lost, balance, known, written, drift, cursor, seen, drained, acked, pnl, job, connected>>
    BY DEF Mine, feedVars, rowVars, pageVars
<1>2. height \in Heights /\ height' \in Heights /\ height <= height' /\ 1..height \subseteq 1..height' /\ 0..height \subseteq 0..height'
    BY HeightsAre DEF Types, Mine
<1>3. Types'  BY <1>1, <1>2 DEF Types
<1>4. Shapes' /\ Before'  BY <1>1, <1>2 DEF Shapes, Before, At
<1>5. Deliveries'  BY <1>1 DEF Deliveries, AckedIsRecorded, HasLeg, Handled, At
<1>6. Costs'
    <2>1. \A q \in PNL : Gained(q, height) \subseteq Gained(q, height')  BY <1>2, GainedGrows
    <2>2. \A q : From(q)' = From(q)  BY <1>1 DEF From, Steady
    <2>3. Sources'  BY <1>1, <2>1, <2>2 DEF Costs, Sources, Steady, Gained
    <2>4. Cache'  BY <1>1, <2>1, <2>2 DEF Costs, Cache, Steady, Gained
    <2>5. Alone'  BY <1>1, <2>2 DEF Costs, Alone, Full
    <2> QED BY <2>3, <2>4, <2>5 DEF Costs
<1>7. Gaps'  BY <1>1 DEF Gaps, Importing, At
<1> QED BY <1>3, <1>4, <1>5, <1>6, <1>7

LEMMA ExpiryKeeps == ASSUME IInv, PnlExpires PROVE IInv'
<1> USE DEF IInv
<1>1. /\ pnl' = NoPnl
      /\ UNCHANGED <<height, feed, nfts, listed, lost, balance, known, written, drift, cursor, seen, drained, acked, job, connected>>
    BY DEF PnlExpires, feedVars, rowVars, pageVars
<1>2. Types' /\ Shapes' /\ Before'  BY <1>1 DEF Types, Shapes, Before, At, PnlSet
<1>3. Deliveries'  BY <1>1 DEF Deliveries, AckedIsRecorded, HasLeg, Handled, At
<1>4. Costs'
    <2>1. pnl'.by \notin PNL  BY <1>1 DEF NoPnl, PNL
    <2> QED BY <1>1, <2>1 DEF Costs, Sources, Cache, Alone, From, Gained, Steady, Full
<1>5. Gaps'  BY <1>1 DEF Gaps, Importing, At
<1> QED BY <1>2, <1>3, <1>4, <1>5

LEMMA CrashKeeps == ASSUME IInv, Crash PROVE IInv'
<1> USE DEF IInv
<1>1. /\ job' = [p \in Procs |-> Idle]
      /\ UNCHANGED <<height, feed, nfts, listed, lost, balance, known, written, cursor, seen, drained, acked, pnl, connected>>
    BY DEF Crash, feedVars, pageVars
<1>2. drift' \in BOOLEAN
    <2>1. (\E p \in Procs : Writing(p) \/ At(p, "refresh")) \in BOOLEAN  OBVIOUS
    <2> QED BY <2>1 DEF Crash, Types
<1>3. \A q \in Procs : job'[q] = Idle  BY <1>1
<1>4. Types'  BY <1>1, <1>2, IdleIs DEF Types
<1>5. Shapes' /\ Before'  BY <1>1, <1>3, IdleIs DEF Shapes, Before, At
<1>6. Deliveries'  BY <1>1, <1>3, IdleIs DEF Deliveries, AckedIsRecorded, HasLeg, At
<1>7. Costs'
    <2>1. \A q \in Procs : job'[q].cost = {} /\ ~Full(job'[q])  BY <1>3, IdleIs
    <2> QED BY <1>1, <2>1 DEF Costs, Sources, Cache, Alone, From, Gained, Steady, Full
<1>8. Gaps'  BY <1>1, <1>3, IdleIs DEF Gaps, At
<1> QED BY <1>4, <1>5, <1>6, <1>7, <1>8

LEMMA InitKeeps == Init => IInv
<1>1. SUFFICES ASSUME Init PROVE IInv  OBVIOUS
<1>2. /\ \A p \in Procs : job[p] = Idle
      /\ height = 0 /\ known = [t \in TokenSet |-> "none"] /\ pnl = NoPnl /\ acked = {} /\ seen = 0 /\ cursor = NoCursor /\ ~drained
    BY <1>1 DEF Init
<1>3. Types
    <2>1. height \in Heights /\ seen \in 0..height  BY <1>2, HeightsAre
    <2>2. feed \in [Hashes -> Nat] /\ balance \in [TokenSet -> Nat \cup {None}]  BY <1>1 DEF Init
    <2>3. job \in [Procs -> JobSet] /\ cursor \in Cursors  BY <1>1, IdleIs, CursorFacts DEF Init
    <2>4. /\ known \in [TokenSet -> PNL \cup {"none"}] /\ written \subseteq TokenSet /\ Catalog \subseteq listed
          /\ acked \subseteq 1..height /\ pnl \in PnlSet
          /\ drained \in BOOLEAN /\ drift \in BOOLEAN /\ connected \in BOOLEAN
        BY <1>1, <1>2 DEF Init, PnlSet
    <2> QED BY <2>1, <2>2, <2>3, <2>4 DEF Types
<1>4. Shapes /\ Before  BY <1>1, <1>2, IdleIs DEF Shapes, Before, At, Init
<1>5. Deliveries  BY <1>2, IdleIs DEF Deliveries, AckedIsRecorded, At
<1>6. Costs
    <2>1. \A q \in PNL : From(q) = {}  BY <1>2 DEF From, Steady, PNL
    <2>2. \A p \in Procs : job[p].cost = {} /\ ~Full(job[p])  BY <1>2, IdleIs
    <2>3. pnl.by \notin PNL  BY <1>2 DEF NoPnl, PNL
    <2> QED BY <1>2, <2>1, <2>2, <2>3 DEF Costs, Sources, Cache, Alone
<1>7. Gaps  BY <1>2, IdleIs DEF Gaps, At, Behind
<1> QED BY <1>3, <1>4, <1>5, <1>6, <1>7 DEF IInv

LEMMA NextKeeps == IInv /\ [Next]_vars => IInv'
<1>1. SUFFICES ASSUME IInv, [Next]_vars PROVE IInv'  OBVIOUS
<1>2. CASE UNCHANGED vars
    <2>1. UNCHANGED <<height, feed, nfts, listed, lost, balance, known, written, drift, cursor, seen, drained, acked, pnl, job, connected>>
        BY <1>2 DEF vars, feedVars, rowVars, pageVars
    <2>2. Types' /\ Shapes' /\ Before'  BY <1>1, <2>1 DEF IInv, Types, Shapes, Before, At
    <2>3. Deliveries'  BY <1>1, <2>1 DEF IInv, Deliveries, AckedIsRecorded, HasLeg, Handled, At
    <2>4. Costs'  BY <1>1, <2>1 DEF IInv, Costs, Sources, Cache, Alone, From, Gained, Steady, Full
    <2>5. Gaps'  BY <1>1, <2>1 DEF IInv, Gaps, Importing, At
    <2> QED BY <2>2, <2>3, <2>4, <2>5 DEF IInv
<1>3. CASE Mine \/ PnlExpires \/ Crash  BY <1>1, <1>3, MineKeeps, ExpiryKeeps, CrashKeeps
<1>4. ASSUME NEW p \in Procs,
             \/ HookStart(p) \/ HookStep(p) \/ HookFails(p) \/ BalanceStep(p)
             \/ SyncStart(p) \/ ResyncStart(p) \/ FullStep(p) \/ MoreStart(p) \/ MoreStep(p)
      PROVE  IInv'
    <2>1. CASE HookStart(p)  BY <1>1, <2>1, HookStartKeeps
    <2>2. CASE HookStep(p) \/ HookFails(p)  BY <1>1, <2>2, LegStepKeeps, HookEndKeeps DEF HookStep
    <2>3. CASE BalanceStep(p)  BY <1>1, <2>3, RefreshKeeps, SetBalanceKeeps, ZeroRestKeeps DEF BalanceStep
    <2>4. CASE SyncStart(p) \/ ResyncStart(p)  BY <1>1, <2>4, FullStartKeeps
    <2>5. CASE FullStep(p)  BY <1>1, <2>5, ImportLegKeeps, NftStepKeeps, CostMapKeeps, FullFinishKeeps DEF FullStep
    <2>6. CASE MoreStart(p) \/ MoreStep(p)  BY <1>1, <2>6, MoreStartKeeps, MorePageKeeps, MoreFinishKeeps DEF MoreStep
    <2> QED BY <1>4, <2>1, <2>2, <2>3, <2>4, <2>5, <2>6
<1> QED BY <1>1, <1>2, <1>3, <1>4 DEF Next

\* The inductive invariant holds of every wallet, every chain and every set of processes.
THEOREM Invariance == Spec => []IInv
<1>1. Init => IInv  BY InitKeeps
<1>2. IInv /\ [Next]_vars => IInv'  BY NextKeeps
<1> QED BY <1>1, <1>2, PTL DEF Spec

\* A delivery Moralis is told is done has its transaction in the feed, whatever legs fail, requests
\* crash or deliveries overlap on the way (moralis-handlers.ts:482, setWithTTL after the legs).
THEOREM Recorded == Spec => []AckedIsRecorded
<1>1. IInv => AckedIsRecorded  BY DEF IInv, Deliveries
<1> QED BY <1>1, Invariance, PTL

\* A step of a request that may lose a cost: it overlaps another sync, or writes the answer of
\* another provider than the cost came from.
Excused(t) == \E p \in Procs : /\ At(p, "set") /\ job'[p] # job[p]
                               /\ ~job[p].lone \/ job[p].by \notin {"none", known[t]}

\* A step without costs to write changes none, and the answer of the only sync has every cost that
\* came from its provider (setConnectedBalancesFromSummary and fetchWalletPnl).
LEMMA StepKeepsCosts == IInv /\ [Next]_vars => [\A t \in Steady : Forgets(t) => Excused(t)]_vars
<1>1. SUFFICES ASSUME IInv, Next, NEW t \in Steady, Forgets(t) PROVE Excused(t)  OBVIOUS
<1> USE <1>1 DEF IInv
<1>2. t \in TokenSet /\ known[t] \in PNL /\ known' # known /\ known'[t] = "none"  BY DEF Steady, Forgets, Types
<1>3. CASE Mine \/ PnlExpires \/ Crash  BY <1>2, <1>3 DEF Mine, PnlExpires, Crash, rowVars
<1>4. ASSUME NEW p \in Procs, At(p, "set"), job'[p] # job[p], job[p].cost # {}, t \notin job[p].cost
      PROVE  Excused(t)
    <2>1. Full(job[p]) /\ job[p].by \in PNL  BY <1>4 DEF Shapes, Shape, Costs, Sources
    <2>2. job[p].by # "none"  BY <2>1 DEF PNL
    <2>3. CASE ~job[p].lone  BY <1>4, <2>3 DEF Excused
    <2>4. CASE job[p].lone
        <3>1. t \notin From(job[p].by)  BY <1>4, <2>1, <2>4 DEF Costs, Alone
        <3>2. job[p].by # known[t]  BY <3>1 DEF From
        <3> QED BY <1>4, <2>2, <3>2 DEF Excused
    <2> QED BY <2>3, <2>4
<1>5. ASSUME NEW p \in Procs,
             \/ HookStart(p) \/ HookStep(p) \/ HookFails(p) \/ BalanceStep(p)
             \/ SyncStart(p) \/ ResyncStart(p) \/ FullStep(p) \/ MoreStart(p) \/ MoreStep(p)
      PROVE  Excused(t)
    <2>1. CASE SetBalance(p)
        <3>1. PICK n, u : /\ Step(p, n) /\ At(p, "set") /\ u \in job[p].todo /\ n.todo = job[p].todo \ {u}
                          /\ \/ known' = known
                             \/ known' = IF job[p].cost = {} THEN known ELSE [known EXCEPT ![u] = Cost(job[p], u)]
            BY <2>1, SetBalanceDoes
        <3>2. job'[p] # job[p]
            <4>1. job'[p] = n  BY <3>1, StepShapes
            <4> QED BY <3>1, <4>1
        <3>3. job[p].cost # {} /\ known' = [known EXCEPT ![u] = Cost(job[p], u)]  BY <1>2, <3>1
        <3>4. u = t /\ Cost(job[p], t) = "none"  BY <1>2, <3>3 DEF Types, PNL
        <3>5. t \notin job[p].cost
            <4>1. job[p].by \in PNL  BY <3>3 DEF Costs, Sources
            <4> QED BY <3>4, <4>1 DEF Cost, PNL
        <3> QED BY <1>4, <3>1, <3>2, <3>3, <3>5
    <2>2. CASE ZeroRest(p)
        <3>1. PICK n, rest :
                 /\ Step(p, n) /\ At(p, "set") /\ (n = Idle \/ n.at = "finish")
                 /\ rest = {u \in TokenSet : balance[u] # None} \ (DOMAIN job[p].held \cup job[p].cost)
                 /\ known' = IF job[p].cost = {} THEN known ELSE Left(rest)
            BY <2>2, ZeroRestDoes
        <3>2. job'[p] # job[p]
            <4>1. job'[p] = n /\ n.at \in {"idle", "finish"}  BY <3>1, StepShapes, IdleIs
            <4> QED BY <3>1, <4>1 DEF At
        <3>3. job[p].cost # {} /\ known' = Left(rest)  BY <1>2, <3>1
        <3>4. t \in rest  BY <1>2, <3>3 DEF Left, PNL
        <3> QED BY <1>4, <3>1, <3>2, <3>3, <3>4
    <2>3. CASE HookStart(p) \/ HookStep(p) \/ HookFails(p)
        BY <1>2, <2>3 DEF HookStart, HookStep, HookFails, HookAck, processNativeTx, processErc20Transfer,
                          processNftTransfers, rowVars
    <2>4. CASE refreshConnectedBalancesFromProvider(p)  BY <1>2, <2>4 DEF refreshConnectedBalancesFromProvider
    <2>5. CASE SyncStart(p) \/ ResyncStart(p)  BY <1>2, <2>5 DEF SyncStart, ResyncStart, FullStart
    <2>6. CASE FullStep(p)
        BY <1>2, <2>6 DEF FullStep, ImportLeg, NftRead, importNftHoldings, buildConnectedCostMap, FullFinish, rowVars
    <2>7. CASE MoreStart(p) \/ MoreStep(p)  BY <1>2, <2>7 DEF MoreStart, MoreStep, MorePage, MoreFinish, rowVars
    <2> QED BY <1>5, <2>1, <2>2, <2>3, <2>4, <2>5, <2>6, <2>7 DEF BalanceStep
<1> QED BY <1>3, <1>5 DEF Next

\* What a sync learned of a token's cost survives every step of every request, through outages of
\* the PnL providers and of the cache, unless two syncs overlap or the answer of another provider
\* is written (setConnectedBalancesFromSummary, fetchWalletPnl).
THEOREM CostsKept == Spec => CostSurvives
<1>1. IInv /\ [Next]_vars => [\A t \in Steady : Forgets(t) => Excused(t)]_vars  BY StepKeepsCosts
<1> QED BY <1>1, Invariance, PTL DEF Spec, CostSurvives, Excused

\* "Load more" leaves no gap (importMoreTransfers, sync.ts): whatever lies behind the cursor, of the
\* history the first sync saw, is in the feed, through any failover between providers with
\* different cursors and page sizes and with any number of overlapping requests.
THEOREM NoGap == Spec => []CursorLeavesNoGap
<1>1. IInv => CursorLeavesNoGap
    <2>1. SUFFICES ASSUME IInv, NEW n \in (1..seen) \ lost, \A k \in DOMAIN Chain[n] : Covered(n, k) PROVE feed[n] # 0
        BY DEF CursorLeavesNoGap
    <2>2. n \in Hashes  BY <2>1, HashesSeen DEF IInv
    <2>3. 1 \in DOMAIN Chain[n]  BY <2>2, ChainLegs
    <2>4. Behind(cursor, drained, n)  BY <2>1, <2>3 DEF Behind, Covered
    <2> QED BY <2>1, <2>4 DEF IInv, Gaps
<1> QED BY <1>1, Invariance, PTL

-----------------------------------------------------------------------------
(* The balances of a wallet whose tokens fit into a summary *)

WritingJob(j) == j.op # "more" /\ j.at \notin {"idle", "legs", "refresh"}

LEMMA WritingIs == \A q \in Procs : Writing(q) <=> WritingJob(job[q])
BY DEF Writing, WritingJob

\* A step that writes no balance of a summary.
LEMMA KeepHeldOnce ==
    ASSUME Types, Shapes, HeldOnce, NEW p \in Procs, NEW n, Step(p, n), written' = written,
           \A t \in TokenSet : balance'[t] = balance[t] \/ (balance[t] = None /\ balance'[t] = 0),
           Reading(n) => \E h \in 0..height : Right(n.held, h)
    PROVE  HeldOnce'
<1>1. job'[p] = n /\ (\A q \in Procs \ {p} : job'[q] = job[q]) /\ height' = height  BY StepShapes DEF Step
<1>2. \A t \in written : t \in TokenSet /\ balance'[t] = balance[t]  BY DEF HeldOnce, Types
<1>3. \A q \in Procs : Reading(job'[q]) => \E h \in 0..height : Right(job'[q].held, h)
    <2>1. ASSUME NEW q \in Procs, q # p, Reading(job[q]) PROVE \E h \in 0..height : Right(job[q].held, h)
        BY <2>1 DEF HeldOnce
    <2> QED BY <1>1, <2>1
<1>4. \A t \in written' : balance'[t] # None  BY <1>2 DEF HeldOnce
<1>5. BalanceWasHeld'  BY <1>1, <1>2 DEF HeldOnce, BalanceWasHeld, WasHeld, Everywhere
<1> QED BY <1>1, <1>3, <1>4, <1>5 DEF HeldOnce, Reading, Right

\* A step that leaves the height the balances are of as it is.
LEMMA KeepSettling ==
    ASSUME Types, Shapes, Settling, NEW p \in Procs, NEW n, Step(p, n), acked' = acked, drift' = drift,
           \A t \in TokenSet : balance'[t] = balance[t] \/ (balance[t] = None /\ balance'[t] = 0),
           At(p, "refresh") => n.at = "refresh", WritingJob(n) => Writing(p),
           Reading(n) <=> Reading(job[p]), Reading(n) => n.held = job[p].held,
           n.at = "set" => DOMAIN n.held \cup n.cost \subseteq n.todo
    PROVE  Settling'
<1>1. job'[p] = n /\ (\A q \in Procs \ {p} : job'[q] = job[q]) /\ height' = height /\ connected
    BY StepShapes DEF Step
<1>2. SUFFICES ASSUME ~drift
               PROVE  /\ \A q, s \in Procs : WritingJob(job'[q]) /\ WritingJob(job'[s]) => q = s
                      /\ \E r \in 0..height : Due(r)' /\ AsOf(r)'
    BY <1>1 DEF Settling, Writing, WritingJob
<1>3. \A q, s \in Procs : WritingJob(job'[q]) /\ WritingJob(job'[s]) => q = s
    <2>1. \A q \in Procs : WritingJob(job'[q]) => Writing(q)  BY <1>1, WritingIs
    <2> QED BY <1>1, <1>2, <2>1 DEF Settling
<1>4. PICK r \in 0..height : Due(r) /\ AsOf(r)  BY <1>1, <1>2 DEF Settling
<1>5. Due(r)'
    <2>1. \A q \in Procs : At(q, "refresh") => job'[q].at = "refresh"  BY <1>1 DEF At
    <2> QED BY <1>4, <2>1 DEF Due, At, HasLeg
<1>6. \A t \in Cared : Val(t)' = Val(t)
    <2>1. \A t \in Cared : t \in TokenSet  BY DEF Cared, Everywhere
    <2>2. 0 # None  BY WalletAssumption
    <2> QED BY <2>1, <2>2 DEF Val
<1>7. AsOf(r)'
    <2>1. ASSUME NEW q \in Procs, Reading(job'[q])
          PROVE  Right(job'[q].held, r) /\ (job'[q].at = "set" => Written(job[q])')
        <3>1. CASE q = p
            <4>1. Right(n.held, r)  BY <1>1, <1>4, <2>1, <3>1 DEF AsOf
            <4>2. n.at = "set" => Written(job[p])'  BY <1>1 DEF Written
            <4> QED BY <1>1, <3>1, <4>1, <4>2
        <3>2. CASE q # p
            <4>1. Right(job[q].held, r) /\ (job[q].at = "set" => Written(job[q]))  BY <1>1, <1>4, <2>1, <3>2 DEF AsOf, At
            <4>2. job'[q] = job[q]  BY <1>1, <3>2
            <4>3. job[q].at = "set" => Written(job[q])'
                BY <1>6, <4>1, <4>2 DEF Written, Want, Cared, Everywhere
            <4> QED BY <4>1, <4>2, <4>3
        <3> QED BY <3>1, <3>2
    <2>2. ASSUME \A q \in Procs : ~Reading(job'[q]) PROVE \A t \in Cared : Val(t)' = HeldAt(r, t)
        <3>1. \A q \in Procs : ~Reading(job[q])  BY <1>1, <2>2
        <3> QED BY <1>4, <1>6, <3>1 DEF AsOf
    <2> QED BY <2>1, <2>2 DEF AsOf, At, Reading, Right, Cared, Everywhere
<1> QED BY <1>3, <1>5, <1>7

\* A summary is read, and nobody else has one.
LEMMA FreshSettling ==
    ASSUME Types, Shapes, NEW p \in Procs, NEW n, height' = height, acked' = acked,
           job'[p] = n, \A q \in Procs \ {p} : ~WritingJob(job'[q]),
           Reading(n), Right(n.held, height), n.at = "set" => DOMAIN n.held \cup n.cost \subseteq n.todo
    PROVE  Settling'
<1>1. \A q, s \in Procs : WritingJob(job'[q]) /\ WritingJob(job'[s]) => q = s  OBVIOUS
<1>2. height \in 0..height  BY HeightsAre DEF Types
<1>3. Due(height)'
    <2>1. \A m \in acked : ~(m > height)
        <3>1. acked \subseteq 1..height /\ height \in Nat  BY HeightsAre DEF Types
        <3> QED BY <3>1
    <2> QED BY <2>1 DEF Due
<1>4. AsOf(height)'
    <2>1. \A q \in Procs : Reading(job'[q]) => q = p  BY DEF Reading, WritingJob
    <2>2. n.at = "set" => Written(job[p])'  BY DEF Written
    <2> QED BY <2>1, <2>2 DEF AsOf, At, Reading, Right, Everywhere
<1>5. \E r \in 0..height' : Due(r)' /\ AsOf(r)'
    <2>1. Due(height)' /\ AsOf(height)' /\ height \in 0..height'  BY <1>2, <1>3, <1>4
    <2> QED BY <2>1 DEF Due, AsOf
<1> QED BY <1>1, <1>5 DEF Settling, Writing, WritingJob

LEMMA HookSettles ==
    ASSUME IInv, HInv, NEW p \in Procs, HookStart(p) \/ HookStep(p) \/ HookFails(p)
    PROVE  HInv'
<1> USE DEF IInv, HInv
<1>1. ASSUME NEW n, Step(p, n), n.at \in {"idle", "legs"}, job[p].at \in {"idle", "legs"}, acked' = acked, drift' = drift,
             written' = written,
             \A t \in TokenSet : balance'[t] = balance[t] \/ (balance[t] = None /\ balance'[t] = 0)
      PROVE  HInv'
    <2>1. ~Reading(n) /\ ~Reading(job[p]) /\ ~WritingJob(n)  BY <1>1 DEF Reading, WritingJob
    <2>2. HeldOnce'  BY <1>1, <2>1, KeepHeldOnce
    <2>3. Settling'  BY <1>1, <2>1, KeepSettling DEF At
    <2> QED BY <2>2, <2>3
<1>2. CASE HookStart(p)
    <2>1. PICK n : /\ Step(p, n) /\ At(p, "idle") /\ n.at = "legs"
                   /\ UNCHANGED <<feedVars, rowVars, pageVars, acked, pnl>>
        BY <1>2, HookStartDoes
    <2> QED BY <1>1, <2>1 DEF At, rowVars
<1>3. CASE processNativeTx(p) \/ processErc20Transfer(p) \/ processNftTransfers(p)
    <2>1. PICK n : /\ Step(p, n) /\ HookLeg(p, n) /\ Grows
                   /\ UNCHANGED <<lost, listed, known, written, drift, pageVars, acked, pnl>>
        BY <1>3, LegStepDoes
    <2> QED BY <1>1, <2>1 DEF HookLeg, Grows
<1>4. CASE HookFails(p) \/ HookAck(p)
    <2>1. PICK n : /\ Step(p, n) /\ At(p, "legs")
                   /\ \/ acked' = acked /\ n = Idle
                      \/ /\ acked' = acked \cup {job[p].n} /\ job[p].k > Len(Chain[job[p].n])
                         /\ n.at = IF job[p].touched THEN "refresh" ELSE "idle"
                   /\ UNCHANGED <<feedVars, rowVars, pageVars, pnl>>
        BY <1>4, HookEndDoes
    <2>2. UNCHANGED <<balance, written, drift>>  BY <2>1 DEF rowVars
    <2>3. CASE acked' = acked /\ n = Idle  BY <1>1, <2>1, <2>2, <2>3, IdleIs DEF At
    <2>4. CASE /\ acked' = acked \cup {job[p].n} /\ job[p].k > Len(Chain[job[p].n])
               /\ n.at = IF job[p].touched THEN "refresh" ELSE "idle"
        <3>1. n.at \in {"idle", "refresh"}  BY <2>4
        <3>2. ~Reading(n) /\ ~Reading(job[p]) /\ ~WritingJob(n)  BY <2>1, <3>1 DEF Reading, WritingJob, At
        <3>3. HeldOnce'  BY <2>1, <2>2, <3>2, KeepHeldOnce
        <3>4. job'[p] = n /\ (\A q \in Procs \ {p} : job'[q] = job[q]) /\ height' = height /\ connected
            BY <2>1, StepShapes DEF Step
        <3>5. Settling'
            <4>1. SUFFICES ASSUME ~drift
                           PROVE  /\ \A q, s \in Procs : WritingJob(job'[q]) /\ WritingJob(job'[s]) => q = s
                                  /\ \E r \in 0..height : Due(r)' /\ AsOf(r)'
                BY <2>2, <3>4 DEF Settling, Writing, WritingJob
            <4>2. \A q \in Procs : WritingJob(job'[q]) => Writing(q)  BY <3>2, <3>4, WritingIs
            <4>3. \A q, s \in Procs : WritingJob(job'[q]) /\ WritingJob(job'[s]) => q = s
                BY <3>4, <4>1, <4>2 DEF Settling
            <4>4. PICK r \in 0..height : Due(r) /\ AsOf(r)  BY <3>4, <4>1 DEF Settling
            <4>5. HasLeg(job[p].n) => n.at = "refresh"
                <5>1. PICK j \in JobSet : j = job[p] /\ j.at = "legs" /\ j.n \in Hashes /\ Handled(j)
                    BY <2>1, HashesSeen DEF At, Types, Shapes, Deliveries
                <5>2. ASSUME HasLeg(j.n) PROVE j.touched
                    <6>1. PICK k \in DOMAIN Chain[j.n] : Chain[j.n][k].kind # "nft" /\ Chain[j.n][k].item \in Catalog
                        BY <5>2 DEF HasLeg
                    <6>2. k \in 1..(j.k - 1)
                        <7>1. j.k \in Nat /\ j.k > Len(Chain[j.n])  BY <2>4, <5>1 DEF JobSet
                        <7> QED BY <5>1, <7>1, ChainLegs
                    <6> QED BY <5>1, <6>1, <6>2 DEF Handled
                <5> QED BY <2>4, <5>1, <5>2
            <4>6. Due(r)'
                <5>1. \A q \in Procs : At(q, "refresh") => job'[q].at = "refresh"  BY <2>1, <3>4 DEF At
                <5>2. ASSUME NEW m \in acked', m > r, HasLeg(m) PROVE \E q \in Procs : job'[q].at = "refresh"
                    <6>1. CASE m \in acked  BY <4>4, <5>1, <5>2, <6>1 DEF Due
                    <6>2. CASE m = job[p].n  BY <3>4, <4>5, <5>2, <6>2
                    <6> QED BY <2>4, <5>2, <6>1, <6>2
                <5> QED BY <5>2 DEF Due, At, HasLeg
            <4>7. AsOf(r)'
                <5>1. \A q \in Procs : Reading(job'[q]) => q # p /\ job'[q] = job[q]  BY <3>2, <3>4
                <5>2. (\A q \in Procs : ~Reading(job'[q])) => \A q \in Procs : ~Reading(job[q])  BY <3>2, <3>4
                <5>3. ASSUME NEW q \in Procs, Reading(job'[q])
                      PROVE  Right(job'[q].held, r) /\ (job'[q].at = "set" => Written(job[q])')
                    <6>1. job'[q] = job[q] /\ Right(job[q].held, r) /\ (job[q].at = "set" => Written(job[q]))
                        BY <4>4, <5>1, <5>3 DEF AsOf, At
                    <6> QED BY <2>2, <6>1 DEF Written, Want, Val, Cared, Everywhere
                <5>4. (\A q \in Procs : ~Reading(job'[q])) => \A t \in Cared : Val(t)' = HeldAt(r, t)
                    BY <2>2, <4>4, <5>2 DEF AsOf, Val
                <5> QED BY <5>3, <5>4 DEF AsOf, At, Reading, Right, Cared, Everywhere
            <4> QED BY <4>3, <4>6, <4>7
        <3> QED BY <3>3, <3>5
    <2> QED BY <2>1, <2>3, <2>4
<1> QED BY <1>2, <1>3, <1>4 DEF HookStep

LEMMA RefreshSettles ==
    ASSUME Small, IInv, HInv, NEW p \in Procs, refreshConnectedBalancesFromProvider(p)
    PROVE  HInv'
<1> USE DEF IInv, HInv
<1>1. PICK n : /\ Step(p, n) /\ At(p, "refresh") /\ n.cost = {}
               /\ \/ n = Idle /\ drift' = TRUE
                  \/ /\ n.op = "hook" /\ n.at = "set" /\ n.todo = DOMAIN n.held
                     /\ (Small => Right(n.held, height))
                     /\ drift' = (drift \/ Overlaps(p))
               /\ UNCHANGED <<feed, lost, balance, known, written, pageVars, acked, pnl>>
    BY RefreshDoes
<1>2. height \in 0..height  BY HeightsAre DEF Types
<1>3. HeldOnce'
    <2>1. Reading(n) => Right(n.held, height)  BY <1>1, IdleIs DEF Reading
    <2> QED BY <1>1, <1>2, <2>1, KeepHeldOnce
<1>4. Settling'
    <2>1. CASE drift'  BY <2>1 DEF Settling
    <2>2. CASE ~drift'
        <3>1. /\ n.op = "hook" /\ n.at = "set" /\ n.todo = DOMAIN n.held /\ Right(n.held, height) /\ ~Overlaps(p)
            BY <1>1, <2>2
        <3>2. job'[p] = n /\ (\A q \in Procs \ {p} : job'[q] = job[q]) /\ height' = height
            BY <1>1, StepShapes DEF Step
        <3>3. \A q \in Procs \ {p} : ~WritingJob(job'[q])  BY <3>1, <3>2, WritingIs DEF Overlaps
        <3>4. Reading(n)  BY <3>1 DEF Reading
        <3> QED BY <1>1, <3>1, <3>2, <3>3, <3>4, FreshSettling
    <2> QED BY <2>1, <2>2
<1> QED BY <1>3, <1>4

LEMMA FullStartSettles ==
    ASSUME Small, IInv, HInv, NEW p \in Procs, SyncStart(p) \/ ResyncStart(p)
    PROVE  HInv'
<1> USE DEF IInv, HInv
<1>1. PICK op \in {"sync", "resync"} : FullStart(p, op) /\ connected = (op = "resync")
    BY DEF SyncStart, ResyncStart, Types
<1>2. /\ \/ UNCHANGED <<job, seen, lost>> /\ drift' = (drift \/ op = "sync")
         \/ \E n : /\ Joined(p, n) /\ n.op = op /\ (Small => Right(n.held, height))
                   /\ drift' = (drift \/ Overlaps(p))
      /\ UNCHANGED <<height, feed, nfts, balance, known, written, cursor, drained, acked>>
    BY <1>1, FullStartDoes
<1>3. CASE UNCHANGED job /\ drift' = (drift \/ op = "sync")
    <2>1. HeldOnce'  BY <1>2, <1>3 DEF HeldOnce, BalanceWasHeld, WasHeld, Everywhere, Reading, Right
    <2>2. Settling'
        <3>1. CASE drift'  BY <3>1 DEF Settling
        <3>2. CASE ~drift'
            <4>1. ~drift /\ connected  BY <1>1, <1>3, <3>2
            <4>2. PICK r \in 0..height : Due(r) /\ AsOf(r)  BY <4>1 DEF Settling
            <4>3. Due(r)'  BY <1>2, <1>3, <4>2 DEF Due, At, HasLeg
            <4>4. AsOf(r)'  BY <1>2, <1>3, <4>2 DEF AsOf, At, Reading, Right, Written, Want, Val, Cared, Everywhere
            <4>5. \A q, s \in Procs : Writing(q)' /\ Writing(s)' => q = s  BY <1>3, <4>1 DEF Settling, Writing
            <4> QED BY <1>2, <4>2, <4>3, <4>4, <4>5 DEF Settling
        <3> QED BY <3>1, <3>2
    <2> QED BY <2>1, <2>2
<1>4. ASSUME NEW n, Joined(p, n), n.op = op, Right(n.held, height), drift' = (drift \/ Overlaps(p))
      PROVE  HInv'
    <2>1. job'[p] = n /\ Reading(n) /\ n.at = "import"  BY <1>4 DEF Joined, Reading
    <2>2. \A q \in Procs \ {p} : job'[q].op = job[q].op /\ job'[q].at = job[q].at /\ job'[q].held = job[q].held
        BY <1>4 DEF Joined, Same
    <2>3. HeldOnce'
        <3>1. height \in 0..height  BY HeightsAre DEF Types
        <3>2. \A q \in Procs : Reading(job'[q]) => \E h \in 0..height : Right(job'[q].held, h)
            <4>1. SUFFICES ASSUME NEW q \in Procs, Reading(job'[q]) PROVE \E h \in 0..height : Right(job'[q].held, h)
                OBVIOUS
            <4>2. CASE q = p  BY <1>4, <2>1, <3>1, <4>2
            <4>3. CASE q # p
                <5>1. Reading(job[q]) /\ job'[q].held = job[q].held  BY <2>2, <4>1, <4>3 DEF Reading
                <5> QED BY <5>1 DEF HeldOnce
            <4> QED BY <4>2, <4>3
        <3>3. \A t \in written' : balance'[t] # None  BY <1>2 DEF HeldOnce
        <3>4. BalanceWasHeld'  BY <1>2 DEF HeldOnce, BalanceWasHeld, WasHeld, Everywhere
        <3> QED BY <1>2, <3>2, <3>3, <3>4 DEF HeldOnce, Reading, Right
    <2>4. Settling'
        <3>1. CASE drift'  BY <3>1 DEF Settling
        <3>2. CASE ~drift'
            <4>1. \A q \in Procs \ {p} : ~Writing(q)  BY <1>4, <3>2 DEF Overlaps
            <4>2. \A q \in Procs \ {p} : ~WritingJob(job'[q])  BY <2>2, <4>1, WritingIs DEF WritingJob
            <4> QED BY <1>2, <1>4, <2>1, <4>2, FreshSettling
        <3> QED BY <3>1, <3>2
    <2> QED BY <2>3, <2>4
<1> QED BY <1>2, <1>3, <1>4

LEMMA ImportSettles ==
    ASSUME IInv, HInv, NEW p \in Procs, FullStep(p) \/ MoreStart(p) \/ MoreStep(p)
    PROVE  HInv'
<1> USE DEF IInv, HInv
<1>1. ASSUME NEW n, Step(p, n), acked' = acked, drift' = drift, written' = written,
             \A t \in TokenSet : balance'[t] = balance[t] \/ (balance[t] = None /\ balance'[t] = 0),
             ~At(p, "refresh"), WritingJob(n) => Writing(p),
             Reading(n) <=> Reading(job[p]), Reading(n) => n.held = job[p].held,
             n.at = "set" => DOMAIN n.held \cup n.cost \subseteq n.todo
      PROVE  HInv'
    <2>1. Reading(n) => \E h \in 0..height : Right(n.held, h)  BY <1>1 DEF HeldOnce
    <2>2. HeldOnce'  BY <1>1, <2>1, KeepHeldOnce
    <2>3. Settling'  BY <1>1, KeepSettling
    <2> QED BY <2>2, <2>3
<1>2. CASE ImportLeg(p)
    <2>1. PICK n : /\ Step(p, n) /\ At(p, "import") /\ Alike(n, job[p]) /\ n.at = "import" /\ Grows
                   /\ UNCHANGED <<known, written, drift, pageVars, acked, pnl>>
        BY <1>2, ImportLegDoes
    <2>2. (Reading(n) <=> Reading(job[p])) /\ (WritingJob(n) => Writing(p)) /\ n.held = job[p].held
        BY <2>1 DEF Alike, At, Reading, WritingJob, Writing
    <2> QED BY <1>1, <2>1, <2>2 DEF Grows, At
<1>3. CASE NftRead(p) \/ importNftHoldings(p)
    <2>1. PICK n : /\ Step(p, n) /\ Full(job[p]) /\ Reading(job[p]) /\ Alike(n, job[p]) /\ n.at \in {"nfts", "cost"}
                   /\ job[p].at \in {"import", "nfts"}
                   /\ UNCHANGED <<feed, listed, lost, rowVars, pageVars, acked, pnl>>
        BY <1>3, NftStepDoes
    <2>2. Reading(n) /\ Writing(p) /\ n.held = job[p].held
        BY <2>1 DEF Alike, Reading, Writing
    <2> QED BY <1>1, <2>1, <2>2 DEF rowVars, At
<1>4. CASE buildConnectedCostMap(p)
    <2>1. PICK n : /\ Step(p, n) /\ At(p, "cost") /\ Reading(job[p])
                   /\ n.at = "set" /\ n.op = job[p].op /\ n.held = job[p].held /\ n.todo = DOMAIN n.held \cup n.cost
                   /\ UNCHANGED <<feedVars, rowVars, pageVars, acked, pnl>>
        BY <1>4, CostMapDoes
    <2>2. Reading(n) /\ Writing(p)  BY <2>1 DEF Reading, Writing, At
    <2> QED BY <1>1, <2>1, <2>2 DEF rowVars, At
<1>5. CASE FullFinish(p)
    <2>1. Step(p, Idle) /\ At(p, "finish") /\ UNCHANGED <<feedVars, rowVars, seen, acked, pnl>>  BY <1>5, FullFinishDoes
    <2>2. ~Reading(Idle) /\ ~Reading(job[p]) /\ ~WritingJob(Idle)  BY <2>1, IdleIs DEF Reading, WritingJob, At
    <2> QED BY <1>1, <2>1, <2>2, IdleIs DEF rowVars, At
<1>6. CASE MoreStart(p)
    <2>1. PICK n : /\ Step(p, n) /\ At(p, "idle") /\ n.op = "more" /\ n.at = "page"
                   /\ UNCHANGED <<feedVars, rowVars, pageVars, acked, pnl>>
        BY <1>6, MoreStartDoes
    <2>2. ~Reading(n) /\ ~Reading(job[p]) /\ ~WritingJob(n)  BY <2>1 DEF Reading, WritingJob, At
    <2> QED BY <1>1, <2>1, <2>2 DEF rowVars, At
<1>7. CASE MorePage(p)
    <2>1. PICK n : /\ Step(p, n) /\ At(p, "page") /\ (n = Idle \/ (n.op = "more" /\ n.at = "import"))
                   /\ UNCHANGED <<feed, nfts, listed, rowVars, seen, acked, pnl>>
        BY <1>7, MorePageDoes
    <2>2. ~Reading(n) /\ ~Reading(job[p]) /\ ~WritingJob(n) /\ n.at # "set"
        BY <2>1, IdleIs DEF Reading, WritingJob, At
    <2> QED BY <1>1, <2>1, <2>2 DEF rowVars, At
<1>8. CASE MoreFinish(p)
    <2>1. Step(p, Idle) /\ At(p, "import") /\ job[p].op = "more" /\ UNCHANGED <<feedVars, rowVars, seen, acked, pnl>>
        BY <1>8, MoreFinishDoes
    <2>2. ~Reading(Idle) /\ ~Reading(job[p]) /\ ~WritingJob(Idle)  BY <2>1, IdleIs DEF Reading, WritingJob
    <2> QED BY <1>1, <2>1, <2>2, IdleIs DEF rowVars, At
<1> QED BY <1>2, <1>3, <1>4, <1>5, <1>6, <1>7, <1>8 DEF FullStep, MoreStep

\* What a right summary wants of a token is what the wallet held.
LEMMA WantIsHeld ==
    ASSUME NEW j, NEW h, Right(j.held, h), NEW t \in Everywhere
    PROVE  Want(j, t) = HeldAt(h, t)
BY DEF Right, Want

LEMMA SetBalanceSettles == ASSUME IInv, HInv, NEW p \in Procs, SetBalance(p) PROVE HInv'
<1> USE DEF IInv, HInv
<1>1. PICK n, t : /\ Step(p, n) /\ At(p, "set") /\ t \in job[p].todo /\ t \in TokenSet
                  /\ Alike(n, job[p]) /\ n.at = "set" /\ n.todo = job[p].todo \ {t} /\ n.page = job[p].page
                  /\ \/ drift' = TRUE /\ UNCHANGED <<balance, known, written>>
                     \/ /\ balance' = [balance EXCEPT ![t] = Want(job[p], t)] /\ Want(job[p], t) \in Nat
                        /\ written' = written \cup {t} /\ drift' = drift
                  /\ UNCHANGED <<feedVars, pageVars, acked, pnl>>
    BY SetBalanceDoes
<1>2. job'[p] = n /\ (\A q \in Procs \ {p} : job'[q] = job[q]) /\ height' = height /\ connected
    BY <1>1, StepShapes DEF Step
<1>3. PICK j : j = job[p] /\ Reading(j) /\ j.at = "set"  BY <1>1 DEF At, Shapes, Shape, Reading
<1>4. Reading(n) /\ n.held = j.held /\ n.cost = j.cost  BY <1>1, <1>3 DEF Alike, Reading
<1>5. PICK h \in 0..height : Right(j.held, h)  BY <1>3 DEF HeldOnce
<1>6. CASE drift' = TRUE /\ UNCHANGED <<balance, known, written>>
    <2>1. HeldOnce'  BY <1>1, <1>4, <1>5, <1>6, KeepHeldOnce
    <2> QED BY <1>6, <2>1 DEF Settling
<1>7. CASE /\ balance' = [balance EXCEPT ![t] = Want(j, t)] /\ Want(j, t) \in Nat
           /\ written' = written \cup {t} /\ drift' = drift
    <2>1. /\ balance'[t] = Want(j, t) /\ balance'[t] # None
          /\ \A u \in TokenSet \ {t} : balance'[u] = balance[u]
        BY <1>1, <1>7, WalletAssumption DEF Types
    <2>2. HeldOnce'
        <3>1. \A u \in written' : balance'[u] # None
            BY <1>7, <2>1 DEF HeldOnce, Types
        <3>2. BalanceWasHeld'
            <4>1. ASSUME NEW u \in written' \cap Everywhere PROVE balance'[u] \in {HeldAt(i, u) : i \in 0..height}
                <5>1. CASE u = t  BY <1>5, <2>1, <4>1, <5>1, WantIsHeld
                <5>2. CASE u # t
                    <6>1. u \in written \cap Everywhere /\ u \in TokenSet  BY <1>7, <4>1, <5>2 DEF Types
                    <6> QED BY <2>1, <5>2, <6>1 DEF HeldOnce, BalanceWasHeld, WasHeld
                <5> QED BY <5>1, <5>2
            <4> QED BY <1>2, <4>1 DEF BalanceWasHeld, WasHeld, Everywhere
        <3>3. \A q \in Procs : Reading(job'[q]) => \E i \in 0..height : Right(job'[q].held, i)
            <4>1. ASSUME NEW q \in Procs, q # p, Reading(job[q]) PROVE \E i \in 0..height : Right(job[q].held, i)
                BY <4>1 DEF HeldOnce
            <4> QED BY <1>2, <1>4, <1>5, <4>1
        <3> QED BY <1>2, <3>1, <3>2, <3>3 DEF HeldOnce, Reading, Right
    <2>3. Settling'
        <3>1. SUFFICES ASSUME ~drift
                       PROVE  /\ \A q, s \in Procs : WritingJob(job'[q]) /\ WritingJob(job'[s]) => q = s
                              /\ \E r \in 0..height : Due(r)' /\ AsOf(r)'
            BY <1>2, <1>7 DEF Settling, Writing, WritingJob
        <3>2. Writing(p) /\ \A q \in Procs : WritingJob(job'[q]) => Writing(q)
            BY <1>1, <1>2, <1>3, WritingIs DEF Writing, Reading, At
        <3>3. \A q, s \in Procs : WritingJob(job'[q]) /\ WritingJob(job'[s]) => q = s  BY <1>2, <3>1, <3>2 DEF Settling
        <3>4. PICK r \in 0..height : Due(r) /\ AsOf(r)  BY <1>2, <3>1 DEF Settling
        <3>5. Due(r)'
            <4>1. \A q \in Procs : At(q, "refresh") => job'[q].at = "refresh"  BY <1>1, <1>2 DEF At
            <4> QED BY <1>1, <3>4, <4>1 DEF Due, At, HasLeg
        <3>6. \A q \in Procs : Reading(job'[q]) => q = p
            <4>1. \A q \in Procs : Reading(job'[q]) => WritingJob(job'[q])  BY DEF Reading, WritingJob
            <4> QED BY <1>2, <1>4, <3>3, <4>1
        <3>7. Right(j.held, r) /\ Written(j)  BY <1>3, <3>4 DEF AsOf, At
        <3>8. Written(n)'
            <4>1. ASSUME NEW u \in Cared \cap ((DOMAIN n.held \cup n.cost) \ n.todo) PROVE Val(u)' = Want(n, u)
                <5>1. Want(n, u) = Want(j, u) /\ u \in TokenSet  BY <1>4 DEF Want, Cared, Everywhere
                <5>2. CASE u = t  BY <2>1, <5>1, <5>2 DEF Val
                <5>3. CASE u # t
                    <6>1. u \in Cared \cap ((DOMAIN j.held \cup j.cost) \ j.todo)  BY <1>1, <1>3, <1>4, <4>1, <5>3
                    <6>2. Val(u) = Want(j, u)  BY <3>7, <6>1 DEF Written
                    <6> QED BY <2>1, <5>1, <5>3, <6>2 DEF Val
                <5> QED BY <5>2, <5>3
            <4> QED BY <4>1 DEF Written, Cared, Everywhere, Want
        <3>9. AsOf(r)'
            <4>1. Written(job[p])'  BY <1>2, <3>8 DEF Written, Want, Val
            <4>2. Right(job'[p].held, r) /\ Reading(job'[p])  BY <1>2, <1>4, <3>7
            <4> QED BY <3>6, <4>1, <4>2 DEF AsOf, At, Reading, Right, Everywhere
        <3> QED BY <3>3, <3>5, <3>9
    <2> QED BY <2>2, <2>3
<1> QED BY <1>1, <1>3, <1>6, <1>7

LEMMA ZeroRestSettles == ASSUME IInv, HInv, NEW p \in Procs, ZeroRest(p) PROVE HInv'
<1> USE DEF IInv, HInv
<1>1. PICK n, rest :
              /\ Step(p, n) /\ At(p, "set") /\ job[p].todo = {}
              /\ \/ n = Idle /\ ~Full(job[p])
                 \/ n.at = "finish" /\ n.op = job[p].op /\ Full(job[p])
              /\ rest = {t \in TokenSet : balance[t] # None} \ (DOMAIN job[p].held \cup job[p].cost)
              /\ balance' = [t \in TokenSet |-> IF t \in rest THEN 0 ELSE balance[t]]
              /\ written' = written \cup rest
              /\ UNCHANGED <<feedVars, drift, pageVars, acked, pnl>>
    BY ZeroRestDoes
<1>2. job'[p] = n /\ (\A q \in Procs \ {p} : job'[q] = job[q]) /\ height' = height /\ connected
    BY <1>1, StepShapes DEF Step
<1>3. PICK j : j = job[p] /\ Reading(j) /\ j.at = "set" /\ j.todo = {}  BY <1>1 DEF At, Shapes, Shape, Reading
<1>4. ~Reading(n) /\ n.at \in {"idle", "finish"}  BY <1>1, IdleIs DEF Reading
<1>5. PICK h \in 0..height : Right(j.held, h)  BY <1>3 DEF HeldOnce
<1>6. 0 # None  BY WalletAssumption
<1>7. \A u \in TokenSet : balance'[u] = IF u \in rest THEN 0 ELSE balance[u]  BY <1>1
<1>8. HeldOnce'
    <2>1. \A u \in written' : u \in TokenSet /\ balance'[u] # None
        BY <1>1, <1>6, <1>7 DEF HeldOnce, Types
    <2>2. BalanceWasHeld'
        <3>1. ASSUME NEW u \in written' \cap Everywhere PROVE balance'[u] \in {HeldAt(i, u) : i \in 0..height}
            <4>1. CASE u \in rest
                <5>1. u \notin DOMAIN j.held /\ balance'[u] = 0  BY <1>1, <1>3, <1>7, <2>1, <3>1, <4>1
                <5>2. HeldAt(h, u) = 0  BY <1>5, <3>1, <5>1 DEF Right
                <5> QED BY <5>1, <5>2
            <4>2. CASE u \notin rest
                <5>1. u \in written \cap Everywhere /\ balance'[u] = balance[u]  BY <1>1, <1>7, <2>1, <3>1, <4>2
                <5> QED BY <5>1 DEF HeldOnce, BalanceWasHeld, WasHeld
            <4> QED BY <4>1, <4>2
        <3> QED BY <1>2, <3>1 DEF BalanceWasHeld, WasHeld, Everywhere
    <2>3. \A q \in Procs : Reading(job'[q]) => \E i \in 0..height : Right(job'[q].held, i)
        <3>1. ASSUME NEW q \in Procs, q # p, Reading(job[q]) PROVE \E i \in 0..height : Right(job[q].held, i)
            BY <3>1 DEF HeldOnce
        <3> QED BY <1>2, <1>4, <3>1
    <2> QED BY <1>2, <2>1, <2>2, <2>3 DEF HeldOnce, Reading, Right
<1>9. Settling'
    <2>1. SUFFICES ASSUME ~drift
                   PROVE  /\ \A q, s \in Procs : WritingJob(job'[q]) /\ WritingJob(job'[s]) => q = s
                          /\ \E r \in 0..height : Due(r)' /\ AsOf(r)'
        BY <1>1, <1>2 DEF Settling, Writing, WritingJob
    <2>2. Writing(p) /\ \A q \in Procs : WritingJob(job'[q]) => Writing(q)
        BY <1>1, <1>2, <1>3, WritingIs DEF Writing, Reading, At
    <2>3. \A q, s \in Procs : WritingJob(job'[q]) /\ WritingJob(job'[s]) => q = s  BY <1>2, <2>1, <2>2 DEF Settling
    <2>4. PICK r \in 0..height : Due(r) /\ AsOf(r)  BY <1>2, <2>1 DEF Settling
    <2>5. Due(r)'
        <3>1. \A q \in Procs : At(q, "refresh") => job'[q].at = "refresh"  BY <1>1, <1>2 DEF At
        <3> QED BY <1>1, <2>4, <3>1 DEF Due, At, HasLeg
    <2>6. \A q \in Procs : ~Reading(job'[q])
        <3>1. SUFFICES ASSUME NEW q \in Procs, q # p, Reading(job[q]) PROVE FALSE  BY <1>2, <1>4
        <3>2. Writing(q)  BY <3>1 DEF Reading, Writing
        <3> QED BY <1>2, <2>1, <2>2, <3>1, <3>2 DEF Settling
    <2>7. Right(j.held, r) /\ Written(j)  BY <1>3, <2>4 DEF AsOf, At
    <2>8. ASSUME NEW t \in Cared PROVE Val(t)' = HeldAt(r, t)
        <3>1. t \in Everywhere /\ t \in TokenSet  BY DEF Cared, Everywhere
        <3>2. Want(j, t) = HeldAt(r, t)  BY <2>7, <3>1, WantIsHeld
        <3>3. CASE t \in DOMAIN j.held \cup j.cost
            <4>1. Val(t) = Want(j, t)  BY <1>3, <2>7, <3>3 DEF Written
            <4>2. balance'[t] = balance[t]  BY <1>1, <1>3, <1>7, <3>1, <3>3
            <4> QED BY <3>2, <4>1, <4>2 DEF Val
        <3>4. CASE t \notin DOMAIN j.held \cup j.cost
            <4>1. Want(j, t) = 0  BY <3>4 DEF Want
            <4>2. balance'[t] \in {0, None}  BY <1>1, <1>3, <1>7, <3>1, <3>4
            <4> QED BY <3>2, <4>1, <4>2 DEF Val
        <3> QED BY <3>3, <3>4
    <2>9. AsOf(r)'  BY <2>6, <2>8 DEF AsOf, Reading, Cared, Everywhere
    <2> QED BY <2>3, <2>5, <2>9
<1> QED BY <1>8, <1>9

\* No row and no request changes: a transaction is mined, the cached PnL expires, or nothing happens.
LEMMA QuietSettles ==
    ASSUME IInv, HInv, UNCHANGED <<balance, written, drift, acked, job, connected>>,
           height' \in Heights, height <= height'
    PROVE  HInv'
<1> USE DEF IInv, HInv
<1>1. 0..height \subseteq 0..height'  BY HeightsAre DEF Types
<1>2. HeldOnce'
    <2>1. \A t \in written' : balance'[t] # None  BY DEF HeldOnce
    <2>2. BalanceWasHeld'  BY <1>1 DEF HeldOnce, BalanceWasHeld, WasHeld, Everywhere
    <2>3. \A q \in Procs : Reading(job'[q]) => \E h \in 0..height' : Right(job'[q].held, h)  BY <1>1 DEF HeldOnce
    <2> QED BY <2>1, <2>2, <2>3 DEF HeldOnce, Reading, Right
<1>3. Settling'
    <2>1. SUFFICES ASSUME connected, ~drift
                   PROVE  /\ \A q, s \in Procs : Writing(q)' /\ Writing(s)' => q = s
                          /\ \E r \in 0..height' : Due(r)' /\ AsOf(r)'
        BY DEF Settling
    <2>2. PICK r \in 0..height : Due(r) /\ AsOf(r)  BY <2>1 DEF Settling
    <2>3. Due(r)'  BY <2>2 DEF Due, At, HasLeg
    <2>4. AsOf(r)'  BY <2>2 DEF AsOf, At, Reading, Right, Written, Want, Val, Cared, Everywhere
    <2>5. \A q, s \in Procs : Writing(q)' /\ Writing(s)' => q = s  BY <2>1 DEF Settling, Writing
    <2> QED BY <1>1, <2>3, <2>4, <2>5
<1> QED BY <1>2, <1>3

\* A crash that cuts no refresh off leaves the balances as they are.
LEMMA CrashSettles == ASSUME IInv, HInv, Crash PROVE HInv'
<1> USE DEF IInv, HInv
<1>1. /\ job' = [p \in Procs |-> Idle] /\ drift' = (drift \/ \E p \in Procs : Writing(p) \/ At(p, "refresh"))
      /\ UNCHANGED <<height, balance, written, acked, connected>>
    BY DEF Crash
<1>2. \A q \in Procs : job'[q] = Idle /\ ~Reading(job'[q]) /\ ~WritingJob(job'[q])
    BY <1>1, IdleIs DEF Reading, WritingJob
<1>3. HeldOnce'
    <2>1. \A t \in written' : balance'[t] # None  BY <1>1 DEF HeldOnce
    <2>2. BalanceWasHeld'  BY <1>1 DEF HeldOnce, BalanceWasHeld, WasHeld, Everywhere
    <2> QED BY <1>2, <2>1, <2>2 DEF HeldOnce, Reading
<1>4. Settling'
    <2>1. SUFFICES ASSUME connected', ~drift'
                   PROVE  /\ \A q, s \in Procs : WritingJob(job'[q]) /\ WritingJob(job'[s]) => q = s
                          /\ \E r \in 0..height' : Due(r)' /\ AsOf(r)'
        BY DEF Settling, Writing, WritingJob
    <2>2. connected /\ ~drift /\ \A q \in Procs : ~Writing(q) /\ ~At(q, "refresh")  BY <1>1, <2>1
    <2>3. PICK r \in 0..height : Due(r) /\ AsOf(r)  BY <2>2 DEF Settling
    <2>4. Due(r)'  BY <1>1, <2>2, <2>3 DEF Due, HasLeg
    <2>5. \A q \in Procs : ~Reading(job[q])  BY <2>2 DEF Reading, Writing
    <2>6. \A t \in Cared : Val(t)' = HeldAt(r, t)  BY <1>1, <2>3, <2>5 DEF AsOf, Val
    <2>7. AsOf(r)'  BY <1>2, <2>6 DEF AsOf, Reading, Cared, Everywhere
    <2> QED BY <1>1, <1>2, <2>3, <2>4, <2>7
<1> QED BY <1>3, <1>4

LEMMA InitSettles == Init => HInv
<1>1. SUFFICES ASSUME Init PROVE HInv  OBVIOUS
<1>2. \A p \in Procs : ~Reading(job[p])  BY <1>1, IdleIs DEF Init, Reading
<1> QED BY <1>1, <1>2 DEF Init, HInv, HeldOnce, BalanceWasHeld, Settling

LEMMA NextSettles == ASSUME Small PROVE IInv /\ HInv /\ [Next]_vars => HInv'
<1>1. SUFFICES ASSUME IInv, HInv, [Next]_vars PROVE HInv'  OBVIOUS
<1>2. CASE UNCHANGED vars \/ Mine \/ PnlExpires
    <2>1. UNCHANGED <<balance, written, drift, acked, job, connected>>
        BY <1>2 DEF vars, rowVars, Mine, PnlExpires
    <2>2. height' \in Heights /\ height <= height'  BY <1>1, <1>2, HeightsAre DEF vars, Mine, PnlExpires, IInv, Types
    <2> QED BY <1>1, <2>1, <2>2, QuietSettles
<1>3. CASE Crash  BY <1>1, <1>3, CrashSettles
<1>4. ASSUME NEW p \in Procs,
             \/ HookStart(p) \/ HookStep(p) \/ HookFails(p) \/ BalanceStep(p)
             \/ SyncStart(p) \/ ResyncStart(p) \/ FullStep(p) \/ MoreStart(p) \/ MoreStep(p)
      PROVE  HInv'
    <2>1. CASE HookStart(p) \/ HookStep(p) \/ HookFails(p)  BY <1>1, <2>1, HookSettles
    <2>2. CASE BalanceStep(p)  BY <1>1, <2>2, RefreshSettles, SetBalanceSettles, ZeroRestSettles DEF BalanceStep
    <2>3. CASE SyncStart(p) \/ ResyncStart(p)  BY <1>1, <2>3, FullStartSettles
    <2>4. CASE FullStep(p) \/ MoreStart(p) \/ MoreStep(p)  BY <1>1, <2>4, ImportSettles
    <2> QED BY <1>4, <2>1, <2>2, <2>3, <2>4
<1> QED BY <1>1, <1>2, <1>3, <1>4 DEF Next

\* The second invariant, of a wallet with no more tokens than a summary lists (MAX_TOKENS).
THEOREM Settles == ASSUME Small PROVE Spec => []HInv
<1>1. Init => HInv  BY InitSettles
<1>2. IInv /\ HInv /\ [Next]_vars => HInv'  BY NextSettles
<1> QED BY <1>1, <1>2, Invariance, PTL DEF Spec

\* No outage, partial answer, failed write or interleaving makes a balance up or sells a token out
\* that was not sold (fetchWalletSummaryForSync, setConnectedBalancesFromSummary).
THEOREM NeverMadeUp == ASSUME Small PROVE Spec => []BalanceWasHeld
<1>1. HInv => BalanceWasHeld  BY DEF HInv, HeldOnce
<1> QED BY <1>1, Settles, PTL

\* When all transactions are acknowledged, every request has ended and no refresh failed or
\* overlapped another, the balances are those of the chain: each acknowledged transfer of a token
\* of the catalog was followed by a refresh that saw it (moralis-handlers.ts, the refresh after the key).
THEOREM SettledTrue == ASSUME Small PROVE Spec => []SettledIsTrue
<1>1. IInv /\ HInv => SettledIsTrue
    <2>1. SUFFICES ASSUME IInv, HInv, Settled, NEW t \in Everywhere \cap Catalog PROVE Val(t) = HeldAt(height, t)
        BY DEF SettledIsTrue, Val
    <2>2. PICK r \in 0..height : Due(r) /\ AsOf(r)  BY <2>1 DEF HInv, Settling, Settled
    <2>3. \A q \in Procs : ~Reading(job[q]) /\ ~At(q, "refresh")  BY <2>1 DEF Settled, At, Reading
    <2>4. t \in Cared /\ Val(t) = HeldAt(r, t)  BY <2>1, <2>2, <2>3 DEF AsOf, Cared
    <2>5. r \in Heights /\ height \in Heights /\ r <= height /\ t \in TokenSet
        BY <2>1, HeightsAre DEF IInv, Types, Everywhere
    <2>6. ASSUME NEW n \in (r + 1)..height, NEW k \in DOMAIN Chain[n], Chain[n][k].item = t PROVE FALSE
        <3>1. n \in Hashes /\ n \in 1..height /\ n > r  BY <2>5, HeightsAre
        <3>2. Chain[n][k].kind # "nft"
            <4>1. Chain[n][k] \in Legs  BY <3>1, ChainLegs
            <4>2. Nfts \cap TokenSet = {}  BY WalletDataAssumption
            <4> QED BY <2>5, <2>6, <4>1, <4>2, LegShape
        <3>3. HasLeg(n)  BY <2>1, <2>6, <3>2 DEF HasLeg
        <3>4. n \in acked  BY <2>1, <3>1 DEF Settled
        <3> QED BY <2>2, <2>3, <3>1, <3>3, <3>4 DEF Due
    <2>7. HeldAt(r, t) = HeldAt(height, t)  BY <2>5, <2>6, SameBalance
    <2> QED BY <2>4, <2>7
<1> QED BY <1>1, Invariance, Settles, PTL
=============================================================================
