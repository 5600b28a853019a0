---------------------------- MODULE LedgerProofs ----------------------------
(* Proofs about Ledger, for any portfolios, tokens, amounts and prices, any number of requests at
   once and any interleaving of their statements. *)
EXTENDS LedgerPrograms

-----------------------------------------------------------------------------
(* What the steps of a transaction do *)

\* Slot s is in its transaction and st is its next statement.
Facing(s, st) == s \in active /\ todo[s] # <<>> /\ st = todo[s][1] /\ st \in Statements

\* The program of s becomes q and no row is written.
Reads(s, q) ==
    /\ todo' = [todo EXCEPT ![s] = q]
    /\ UNCHANGED <<dbVars, nextId, workVars, txLock, pfLock, pfShare, nreq>>

Locks(s, st) ==
    /\ st.op = "lock" /\ Reads(s, Tail(todo[s]))
    /\ \/ AssetAt(s, st.k) = Null /\ assetLock' = assetLock
       \/ /\ AssetAt(s, st.k) # Null /\ assetLock[st.k] \in {Free, s}
          /\ assetLock' = [assetLock EXCEPT ![st.k] = s]

Passes(s, st) ==
    /\ Reads(s, Tail(todo[s])) /\ assetLock' = assetLock
    /\ \/ st.op = "check" /\ AssetAt(s, st.k) # Null /\ ~(st.amount > AssetAt(s, st.k).pos.balance)
       \/ st.op = "ensureAsset" /\ AssetAt(s, st.k) # Null
       \/ st.op \in {"recalc", "updatePos"} /\ AssetAt(s, st.k) = Null

Turns(s, st, new) ==
    /\ Reads(s, [todo[s] EXCEPT ![1] = new]) /\ assetLock' = assetLock
    /\ \/ st.op = "ensureAsset" /\ AssetAt(s, st.k) = Null /\ new = CreateAsset(st.k, NoLot)
       \/ /\ st.op = "recalc" /\ AssetAt(s, st.k) # Null
          /\ new = UpdatePos(st.k, Derive(AssetAt(s, st.k).lot, Txs(s), st.k))

\* The program of a transfer after its guard.
Leg(s, st, k, dir) == Row(k[1], k[2], dir, st.amount,
                          CarriedBasis(AssetAt(s, st.k).pos, st.amount), st.ts, no[s])
CarryProgram(s, st) ==
    LET d == <<st.d, st.k[2]>> IN
    <<EnsureAsset(d), InsertTx(Leg(s, st, st.k, "sell")), InsertTx(Leg(s, st, d, "buy"))>>
    \o Settle(st.k) \o Settle(d)
Carries(s, st) ==
    /\ st.op = "carry" /\ AssetAt(s, st.k) # Null /\ ~(AssetAt(s, st.k).pos.balance < st.amount)
    /\ Reads(s, CarryProgram(s, st)) /\ assetLock' = assetLock

WritesAsset(s, st, v) ==
    /\ WriteAsset(s, st.k, v) /\ assetLock[st.k] \in {Free, s}
    /\ todo' = [todo EXCEPT ![s] = Tail(todo[s])]
    /\ \/ /\ st.op = "createAsset" /\ AssetAt(s, st.k) = Null
          /\ v = [id |-> no[s], lot |-> st.lot, pos |-> NewPosition]
          /\ pfShare' = [pfShare EXCEPT ![st.k[1]] = @ \cup {s}]
       \/ /\ AssetAt(s, st.k) # Null /\ pfShare' = pfShare
          /\ \/ st.op = "updateLot" /\ v = [AssetAt(s, st.k) EXCEPT !.lot = st.lot]
             \/ st.op = "updateNet" /\ v = [AssetAt(s, st.k) EXCEPT !.pos = [AssetAt(s, st.k).pos EXCEPT !.netDeposit = st.v]]
             \/ st.op = "deleteAsset" /\ v = Null
             \/ st.op = "updatePos" /\ v = [AssetAt(s, st.k) EXCEPT !.pos = st.pos]

WritesTx(s, st, i, v) ==
    /\ i \in Ids /\ WriteTx(s, i, v)
    /\ todo' = [todo EXCEPT ![s] = Tail(todo[s])]
    /\ \/ /\ st.op = "insertTx" /\ i = nextId /\ v = st.r /\ nextId' = nextId + 1
          /\ pfShare' = [pfShare EXCEPT ![st.r.pf] = @ \cup {s}]
       \/ /\ st.op \in {"updateTx", "deleteTx"} /\ i = st.i /\ TxAt(s, i) # Null
          /\ txLock[i] \in {Free, s} /\ UNCHANGED <<nextId, pfShare>>
          /\ v = IF st.op = "updateTx" THEN Edited(TxAt(s, i), st.ch) ELSE Null

Sums(s, st) ==
    /\ st.op = "sum" /\ pfLock[st.p] \in {Free, s}
    /\ todo' = [todo EXCEPT ![s] = Tail(todo[s])]
    /\ wnet' = [wnet EXCEPT ![s][st.p] = SumNet(Assets(s), st.p)]
    /\ pfLock' = [pfLock EXCEPT ![st.p] = s]
    /\ UNCHANGED <<dbVars, nextId, active, no, wtx, wasset, txLock, assetLock, pfShare, nreq>>

RunsOn(s) ==
    \E st : /\ Facing(s, st)
            /\ \/ Locks(s, st) \/ Passes(s, st) \/ Carries(s, st) \/ Sums(s, st)
               \/ \E new : Turns(s, st, new)
               \/ \E v : WritesAsset(s, st, v)
               \/ \E i, v : WritesTx(s, st, i, v)

\* The steps of slot s.
Starts(s) == s \notin active /\ \E q : Fresh(q) /\ Begin(s, q)
Ends(s)   == s \in active /\ (Rollback(s) \/ Commit(s))

LEMMA OthersAre == ASSUME NEW h, NEW s, Others(h, s) = {} PROVE h \in {Free, s}
BY DEF Others

LEMMA RunIs ==
    ASSUME TypeInv, NEW s \in Slots, Run(s)
    PROVE  Ends(s) \/ RunsOn(s)
<1>1. todo[s] \in Seq(Statements)  BY DEF TypeInv
<1>2. ASSUME NEW op, At(s, op)
      PROVE  /\ s \in active /\ todo[s] # <<>> /\ Head(todo[s]) = todo[s][1]
             /\ todo[s][1].op = op /\ todo[s][1] \in Statements /\ Blockers(s) = {}
    <2>1. s \in active /\ todo[s] # <<>> /\ Head(todo[s]).op = op /\ Blockers(s) = {}  BY <1>2 DEF At
    <2> QED BY <1>1, <2>1, TailIs
<1>3. PICK st : st = todo[s][1]  OBVIOUS
<1>4. ASSUME Rollback(s), NEW op, At(s, op) PROVE Ends(s)  BY <1>2, <1>4 DEF Ends
<1>5. CASE DoLock(s)
    <2>1. At(s, "lock")  BY <1>5 DEF DoLock
    <2>2. Facing(s, st) /\ Head(todo[s]) = st /\ st.op = "lock"  BY <1>2, <1>3, <2>1 DEF Facing
    <2>3. AssetAt(s, st.k) # Null => assetLock[st.k] \in {Free, s}
        <3>1. AssetAt(s, st.k) # Null => Others(assetLock[st.k], s) = {}
            BY <1>2, <2>1, <2>2 DEF Blockers
        <3> QED BY <3>1, OthersAre
    <2>4. Locks(s, st)  BY <1>5, <2>2, <2>3 DEF DoLock, Locks, Reads, Done, workVars
    <2> QED BY <2>2, <2>4 DEF RunsOn
<1>6. CASE DoCheck(s)
    <2>1. At(s, "check")  BY <1>6 DEF DoCheck
    <2>2. Facing(s, st) /\ Head(todo[s]) = st /\ st.op = "check"  BY <1>2, <1>3, <2>1 DEF Facing
    <2>3. CASE AssetAt(s, st.k) = Null \/ st.amount > AssetAt(s, st.k).pos.balance
        BY <1>4, <1>6, <2>1, <2>2, <2>3 DEF DoCheck
    <2>4. CASE ~(AssetAt(s, st.k) = Null \/ st.amount > AssetAt(s, st.k).pos.balance)
        <3>1. Passes(s, st)  BY <1>6, <2>2, <2>4 DEF DoCheck, Passes, Reads, Done, workVars, lockVars
        <3> QED BY <2>2, <3>1 DEF RunsOn
    <2> QED BY <2>3, <2>4
<1>7. CASE DoCreateAsset(s)
    <2>1. At(s, "createAsset")  BY <1>7 DEF DoCreateAsset
    <2>2. Facing(s, st) /\ Head(todo[s]) = st /\ st.op = "createAsset"  BY <1>2, <1>3, <2>1 DEF Facing
    <2>3. CASE AssetAt(s, st.k) # Null  BY <1>4, <1>7, <2>1, <2>2, <2>3 DEF DoCreateAsset
    <2>4. CASE AssetAt(s, st.k) = Null
        <3>1. assetLock[st.k] \in {Free, s}
            <4>1. Others(assetLock[st.k], s) = {}  BY <1>2, <2>1, <2>2 DEF Blockers
            <4> QED BY <4>1, OthersAre
        <3>2. WritesAsset(s, st, [id |-> no[s], lot |-> st.lot, pos |-> NewPosition])
            BY <1>7, <2>2, <2>4, <3>1 DEF DoCreateAsset, WritesAsset, Done
        <3> QED BY <2>2, <3>2 DEF RunsOn
    <2> QED BY <2>3, <2>4
<1>8. CASE DoEnsureAsset(s)
    <2>1. At(s, "ensureAsset")  BY <1>8 DEF DoEnsureAsset
    <2>2. Facing(s, st) /\ Head(todo[s]) = st /\ st.op = "ensureAsset"  BY <1>2, <1>3, <2>1 DEF Facing
    <2>3. CASE AssetAt(s, st.k) # Null
        <3>1. Passes(s, st)  BY <1>8, <2>2, <2>3 DEF DoEnsureAsset, Passes, Reads, Done, workVars, lockVars
        <3> QED BY <2>2, <3>1 DEF RunsOn
    <2>4. CASE AssetAt(s, st.k) = Null
        <3>1. Turns(s, st, CreateAsset(st.k, NoLot))
            BY <1>8, <2>2, <2>4 DEF DoEnsureAsset, Turns, Reads, Instead, workVars, lockVars
        <3> QED BY <2>2, <3>1 DEF RunsOn
    <2> QED BY <2>3, <2>4
<1>9. CASE DoUpdateLot(s)
    <2>1. At(s, "updateLot")  BY <1>9 DEF DoUpdateLot
    <2>2. Facing(s, st) /\ Head(todo[s]) = st /\ st.op = "updateLot"  BY <1>2, <1>3, <2>1 DEF Facing
    <2>3. CASE ~IsRow(s, st)  BY <1>4, <1>9, <2>1, <2>2, <2>3 DEF DoUpdateLot
    <2>4. CASE IsRow(s, st)
        <3>1. assetLock[st.k] \in {Free, s} /\ AssetAt(s, st.k) # Null
            <4>1. Others(assetLock[st.k], s) = {}  BY <1>2, <2>1, <2>2, <2>4 DEF Blockers
            <4> QED BY <2>4, <4>1, OthersAre DEF IsRow
        <3>2. WritesAsset(s, st, [AssetAt(s, st.k) EXCEPT !.lot = st.lot])
            BY <1>9, <2>2, <2>4, <3>1 DEF DoUpdateLot, WritesAsset, Done
        <3> QED BY <2>2, <3>2 DEF RunsOn
    <2> QED BY <2>3, <2>4
<1>10. CASE DoUpdateNet(s)
    <2>1. At(s, "updateNet")  BY <1>10 DEF DoUpdateNet
    <2>2. Facing(s, st) /\ Head(todo[s]) = st /\ st.op = "updateNet"  BY <1>2, <1>3, <2>1 DEF Facing
    <2>3. CASE ~IsRow(s, st)  BY <1>4, <1>10, <2>1, <2>2, <2>3 DEF DoUpdateNet
    <2>4. CASE IsRow(s, st)
        <3>1. assetLock[st.k] \in {Free, s} /\ AssetAt(s, st.k) # Null
            <4>1. Others(assetLock[st.k], s) = {}  BY <1>2, <2>1, <2>2, <2>4 DEF Blockers
            <4> QED BY <2>4, <4>1, OthersAre DEF IsRow
        <3>2. WritesAsset(s, st, [AssetAt(s, st.k) EXCEPT !.pos = [AssetAt(s, st.k).pos EXCEPT !.netDeposit = st.v]])
            BY <1>10, <2>2, <2>4, <3>1 DEF DoUpdateNet, WritesAsset, Done
        <3> QED BY <2>2, <3>2 DEF RunsOn
    <2> QED BY <2>3, <2>4
<1>11. CASE DoDeleteAsset(s)
    <2>1. At(s, "deleteAsset")  BY <1>11 DEF DoDeleteAsset
    <2>2. Facing(s, st) /\ Head(todo[s]) = st /\ st.op = "deleteAsset"  BY <1>2, <1>3, <2>1 DEF Facing
    <2>3. CASE ~IsRow(s, st)  BY <1>4, <1>11, <2>1, <2>2, <2>3 DEF DoDeleteAsset
    <2>4. CASE IsRow(s, st)
        <3>1. assetLock[st.k] \in {Free, s} /\ AssetAt(s, st.k) # Null
            <4>1. Others(assetLock[st.k], s) = {}  BY <1>2, <2>1, <2>2, <2>4 DEF Blockers
            <4> QED BY <2>4, <4>1, OthersAre DEF IsRow
        <3>2. WritesAsset(s, st, Null)
            BY <1>11, <2>2, <2>4, <3>1 DEF DoDeleteAsset, WritesAsset, Done
        <3> QED BY <2>2, <3>2 DEF RunsOn
    <2> QED BY <2>3, <2>4
<1>12. CASE DoInsertTx(s)
    <2>1. At(s, "insertTx")  BY <1>12 DEF DoInsertTx
    <2>2. Facing(s, st) /\ Head(todo[s]) = st /\ st.op = "insertTx"  BY <1>2, <1>3, <2>1 DEF Facing
    <2>3. WritesTx(s, st, nextId, st.r)  BY <1>12, <2>2 DEF DoInsertTx, WritesTx, Done
    <2> QED BY <2>2, <2>3 DEF RunsOn
<1>13. CASE DoUpdateTx(s)
    <2>1. At(s, "updateTx")  BY <1>13 DEF DoUpdateTx
    <2>2. Facing(s, st) /\ Head(todo[s]) = st /\ st.op = "updateTx" /\ st \in Statements
        BY <1>2, <1>3, <2>1 DEF Facing
    <2>3. CASE TxAt(s, st.i) = Null  BY <1>4, <1>13, <2>1, <2>2, <2>3 DEF DoUpdateTx
    <2>4. CASE TxAt(s, st.i) # Null
        <3>1. txLock[st.i] \in {Free, s} /\ st.i \in Ids
            <4>1. Others(txLock[st.i], s) = {}  BY <1>2, <2>1, <2>2, <2>4 DEF Blockers
            <4> QED BY <2>2, <4>1, OthersAre, StatementIs
        <3>2. WritesTx(s, st, st.i, Edited(TxAt(s, st.i), st.ch))
            BY <1>13, <2>2, <2>4, <3>1 DEF DoUpdateTx, WritesTx, Done
        <3> QED BY <2>2, <3>2 DEF RunsOn
    <2> QED BY <2>3, <2>4
<1>14. CASE DoDeleteTx(s)
    <2>1. At(s, "deleteTx")  BY <1>14 DEF DoDeleteTx
    <2>2. Facing(s, st) /\ Head(todo[s]) = st /\ st.op = "deleteTx" /\ st \in Statements
        BY <1>2, <1>3, <2>1 DEF Facing
    <2>3. CASE TxAt(s, st.i) = Null  BY <1>4, <1>14, <2>1, <2>2, <2>3 DEF DoDeleteTx
    <2>4. CASE TxAt(s, st.i) # Null
        <3>1. txLock[st.i] \in {Free, s} /\ st.i \in Ids
            <4>1. Others(txLock[st.i], s) = {}  BY <1>2, <2>1, <2>2, <2>4 DEF Blockers
            <4> QED BY <2>2, <4>1, OthersAre, StatementIs
        <3>2. WritesTx(s, st, st.i, Null)
            BY <1>14, <2>2, <2>4, <3>1 DEF DoDeleteTx, WritesTx, Done
        <3> QED BY <2>2, <3>2 DEF RunsOn
    <2> QED BY <2>3, <2>4
<1>15. CASE DoCarry(s)
    <2>1. At(s, "carry")  BY <1>15 DEF DoCarry
    <2>2. Facing(s, st) /\ Head(todo[s]) = st /\ st.op = "carry"  BY <1>2, <1>3, <2>1 DEF Facing
    <2>3. CASE AssetAt(s, st.k) = Null \/ AssetAt(s, st.k).pos.balance < st.amount
        BY <1>4, <1>15, <2>1, <2>2, <2>3 DEF DoCarry
    <2>4. CASE ~(AssetAt(s, st.k) = Null \/ AssetAt(s, st.k).pos.balance < st.amount)
        <3>1. Carries(s, st)
            BY <1>15, <2>2, <2>4 DEF DoCarry, Carries, CarryProgram, Leg, Reads, workVars, lockVars
        <3> QED BY <2>2, <3>1 DEF RunsOn
    <2> QED BY <2>3, <2>4
<1>16. CASE DoRecalc(s)
    <2>1. At(s, "recalc")  BY <1>16 DEF DoRecalc
    <2>2. Facing(s, st) /\ Head(todo[s]) = st /\ st.op = "recalc"  BY <1>2, <1>3, <2>1 DEF Facing
    <2>3. CASE AssetAt(s, st.k) = Null
        <3>1. Passes(s, st)  BY <1>16, <2>2, <2>3 DEF DoRecalc, Passes, Reads, Done, workVars, lockVars
        <3> QED BY <2>2, <3>1 DEF RunsOn
    <2>4. CASE AssetAt(s, st.k) # Null
        <3>1. Turns(s, st, UpdatePos(st.k, Derive(AssetAt(s, st.k).lot, Txs(s), st.k)))
            BY <1>16, <2>2, <2>4 DEF DoRecalc, Turns, Reads, Instead, workVars, lockVars
        <3> QED BY <2>2, <3>1 DEF RunsOn
    <2> QED BY <2>3, <2>4
<1>17. CASE DoUpdatePos(s)
    <2>1. At(s, "updatePos")  BY <1>17 DEF DoUpdatePos
    <2>2. Facing(s, st) /\ Head(todo[s]) = st /\ st.op = "updatePos"  BY <1>2, <1>3, <2>1 DEF Facing
    <2>3. CASE AssetAt(s, st.k) = Null
        <3>1. Passes(s, st)  BY <1>17, <2>2, <2>3 DEF DoUpdatePos, Passes, Reads, Done, workVars, lockVars
        <3> QED BY <2>2, <3>1 DEF RunsOn
    <2>4. CASE AssetAt(s, st.k) # Null
        <3>1. assetLock[st.k] \in {Free, s}
            <4>1. Others(assetLock[st.k], s) = {}  BY <1>2, <2>1, <2>2, <2>4 DEF Blockers
            <4> QED BY <4>1, OthersAre
        <3>2. WritesAsset(s, st, [AssetAt(s, st.k) EXCEPT !.pos = st.pos])
            BY <1>17, <2>2, <2>4, <3>1 DEF DoUpdatePos, WritesAsset, Done
        <3> QED BY <2>2, <3>2 DEF RunsOn
    <2> QED BY <2>3, <2>4
<1>18. CASE DoSum(s)
    <2>1. At(s, "sum")  BY <1>18 DEF DoSum
    <2>2. Facing(s, st) /\ Head(todo[s]) = st /\ st.op = "sum"  BY <1>2, <1>3, <2>1 DEF Facing
    <2>3. pfLock[st.p] \in {Free, s}
        <3>1. Others(pfLock[st.p], s) = {}  BY <1>2, <2>1, <2>2 DEF Blockers
        <3> QED BY <3>1, OthersAre
    <2>4. Sums(s, st)  BY <1>18, <2>2, <2>3 DEF DoSum, Sums, Done
    <2> QED BY <2>2, <2>4 DEF RunsOn
<1>19. CASE Commit(s)  BY <1>19 DEF Ends, Commit
<1> QED BY <1>5, <1>6, <1>7, <1>8, <1>9, <1>10, <1>11, <1>12, <1>13, <1>14, <1>15, <1>16, <1>17, <1>18, <1>19
        DEF Run

\* A step of the system is one of a slot.
LEMMA NextIs ==
    ASSUME TypeInv, Next
    PROVE  \E s \in Slots : Starts(s) \/ Ends(s) \/ RunsOn(s)
<1>1. PICK s \in Slots : Request(s) \/ Run(s) \/ Fail(s) \/ Victim(s)  BY DEF Next
<1>2. Tables  BY DEF TypeInv, Tables
<1>3. CASE Request(s)  BY <1>2, <1>3, RequestStarts DEF Starts
<1>4. CASE Run(s)  BY <1>4, RunIs
<1>5. CASE Fail(s)  BY <1>5 DEF Fail, Ends
<1>6. CASE Victim(s)  BY <1>6 DEF Victim, Cyclic, Ends
<1> QED BY <1>1, <1>3, <1>4, <1>5, <1>6

\* What a step of another slot leaves to slot o.
Kept(o) ==
    /\ todo'[o] = todo[o] /\ no'[o] = no[o] /\ (o \in active' <=> o \in active)
    /\ wtx'[o] = wtx[o] /\ wasset'[o] = wasset[o] /\ wnet'[o] = wnet[o]
    /\ \A i \in Ids : txLock[i] = o => txLock'[i] = o
    /\ \A k \in Keys : assetLock[k] = o => assetLock'[k] = o
    /\ \A p \in Portfolios : pfLock[p] = o => pfLock'[p] = o
    /\ \A p \in Portfolios : o \in pfShare[p] => o \in pfShare'[p]

LEMMA OthersKeep ==
    ASSUME TypeInv, NEW s \in Slots, NEW o \in Slots, o # s, Starts(s) \/ Ends(s) \/ RunsOn(s),
           \A i \in Ids : i >= nextId => txLock[i] = Free
    PROVE  Kept(o)
<1>0. o # Free  BY LedgerAssumption
<1>1. CASE Starts(s)
    <2>1. PICK q : Begin(s, q)  BY <1>1 DEF Starts
    <2> QED BY <2>1 DEF Begin, Kept, TypeInv, lockVars
<1>2. CASE Ends(s)
    <2>1. Forget(s) /\ Unlock(s)  BY <1>2 DEF Ends, Rollback, Commit
    <2> QED BY <2>1 DEF Forget, Unlock, Kept, TypeInv
<1>3. ASSUME NEW st, Facing(s, st), Locks(s, st) PROVE Kept(o)
    <2>1. st.k \in Keys  BY <1>3, StatementIs DEF Facing, Locks, AssetOps
    <2> QED BY <1>0, <1>3, <2>1 DEF Locks, Reads, Kept, TypeInv, workVars
<1>4. ASSUME NEW st, Facing(s, st), Passes(s, st) PROVE Kept(o)
    BY <1>4 DEF Passes, Reads, Kept, TypeInv, workVars
<1>5. ASSUME NEW st, Facing(s, st), Carries(s, st) PROVE Kept(o)
    BY <1>5 DEF Carries, Reads, Kept, TypeInv, workVars
<1>6. ASSUME NEW st, Facing(s, st), Sums(s, st) PROVE Kept(o)
    <2>1. st.p \in Portfolios  BY <1>6, StatementIs DEF Facing, Sums
    <2> QED BY <1>0, <1>6, <2>1 DEF Sums, Kept, TypeInv
<1>7. ASSUME NEW st, Facing(s, st), NEW new, Turns(s, st, new) PROVE Kept(o)
    BY <1>7 DEF Turns, Reads, Kept, TypeInv, workVars
<1>8. ASSUME NEW st, Facing(s, st), NEW v, WritesAsset(s, st, v) PROVE Kept(o)
    <2>1. st.k \in Keys  BY <1>8, StatementIs DEF Facing, WritesAsset, AssetOps
    <2>2. st.k[1] \in Portfolios  BY <2>1, KeysAre
    <2> QED BY <1>0, <1>8, <2>1, <2>2 DEF WritesAsset, WriteAsset, Kept, TypeInv
<1>9. ASSUME NEW st, Facing(s, st), NEW i, NEW v, WritesTx(s, st, i, v) PROVE Kept(o)
    <2>1. i \in Ids  BY <1>9 DEF WritesTx
    <2>2. txLock[i] \in {Free, s}  BY <1>9, <2>1 DEF WritesTx, TypeInv, Ids
    <2>3. st.op = "insertTx" => st.r.pf \in Portfolios  BY <1>9, StatementIs DEF Facing, TxRows
    <2>4. /\ wtx' = [wtx EXCEPT ![s][i] = v] /\ txLock' = [txLock EXCEPT ![i] = s]
          /\ todo' = [todo EXCEPT ![s] = Tail(todo[s])]
          /\ active' = active /\ no' = no /\ wasset' = wasset /\ wnet' = wnet
          /\ assetLock' = assetLock /\ pfLock' = pfLock
        BY <1>9 DEF WritesTx, WriteTx
    <2>5. \A p \in Portfolios : o \in pfShare[p] => o \in pfShare'[p]
        <3>1. CASE st.op = "insertTx"
            <4>1. pfShare' = [pfShare EXCEPT ![st.r.pf] = @ \cup {s}]  BY <1>9, <3>1 DEF WritesTx
            <4> QED BY <2>3, <3>1, <4>1 DEF TypeInv
        <3>2. CASE st.op # "insertTx"  BY <1>9, <3>2 DEF WritesTx
        <3> QED BY <3>1, <3>2
    <2> QED BY <1>0, <2>1, <2>2, <2>4, <2>5 DEF Kept, TypeInv
<1> QED BY <1>1, <1>2, <1>3, <1>4, <1>5, <1>6, <1>7, <1>8, <1>9 DEF RunsOn

\* The committed rows change only at a commit, and only where the request wrote.
LEMMA RowsKeep ==
    ASSUME TypeInv, NEW s \in Slots, Starts(s) \/ Ends(s) \/ RunsOn(s)
    PROVE  \/ txs' = txs /\ asset' = asset /\ net' = net
           \/ Commit(s)
<1>1. CASE Starts(s)  BY <1>1 DEF Starts, Begin, dbVars
<1>2. CASE Ends(s)  BY <1>2 DEF Ends, Rollback, dbVars
<1>3. CASE RunsOn(s)
    BY <1>3 DEF RunsOn, Locks, Passes, Carries, Sums, Turns, Reads, WritesAsset, WriteAsset, WritesTx, WriteTx, dbVars
<1> QED BY <1>1, <1>2, <1>3

-----------------------------------------------------------------------------
(* Rows, locks and programs *)

\* A lock belongs to a request in its transaction, a row that is written is locked, ids are fresh, a
\* slot without a request has written nothing.
LockInv ==
    /\ \A i \in Ids : txLock[i] \in active \cup {Free}
    /\ \A k \in Keys : assetLock[k] \in active \cup {Free}
    /\ \A p \in Portfolios : pfLock[p] \in active \cup {Free} /\ pfShare[p] \subseteq active
    /\ \A s \in Slots : \A i \in Ids : wtx[s][i] # Same => txLock[i] = s
    /\ \A s \in Slots : \A k \in Keys : wasset[s][k] # Same => assetLock[k] = s
    /\ \A i \in Ids : i >= nextId => txs[i] = Null /\ txLock[i] = Free
    /\ \A s \in Slots : s \notin active => todo[s] = <<>>
    /\ \A s \in Slots, p \in Portfolios : s \notin active => wnet[s][p] = Same
    /\ \A s \in Slots : Good(todo[s])
Base == TypeInv /\ LockInv

LEMMA Views ==
    ASSUME TypeInv, NEW s \in Slots
    PROVE  /\ \A i \in Ids : TxAt(s, i) \in TxRows \cup {Null}
           /\ \A k \in Keys : AssetAt(s, k) \in AssetRows \cup {Null}
           /\ \A p \in Portfolios : NetAt(s, p) \in Int
           /\ Txs(s) \in [Ids -> TxRows \cup {Null}] /\ Assets(s) \in [Keys -> AssetRows \cup {Null}]
           /\ \A i \in Ids : Txs(s)[i] = TxAt(s, i)
           /\ \A k \in Keys : Assets(s)[k] = AssetAt(s, k)
<1>1. \A i \in Ids : TxAt(s, i) \in TxRows \cup {Null}  BY DEF TypeInv, TxAt
<1>2. \A k \in Keys : AssetAt(s, k) \in AssetRows \cup {Null}  BY DEF TypeInv, AssetAt
<1>3. \A p \in Portfolios : NetAt(s, p) \in Int  BY DEF TypeInv, NetAt
<1> QED BY <1>1, <1>2, <1>3 DEF Txs, Assets

\* The rows a request writes.
LEMMA AssetWritten ==
    ASSUME TypeInv, NEW s \in Slots, NEW st, Facing(s, st), NEW v, WritesAsset(s, st, v)
    PROVE  /\ st.k \in Keys /\ st.k[1] \in Portfolios /\ v \in AssetRows \cup {Null}
           /\ st.op = "deleteAsset" <=> v = Null
           /\ v # Null /\ st.op # "createAsset" => AssetAt(s, st.k) \in AssetRows
           /\ st.op = "updatePos" => v.pos = st.pos /\ v.lot = AssetAt(s, st.k).lot
<1>1. st \in Statements /\ st.op \in AssetOps  BY DEF Facing, WritesAsset, AssetOps
<1>2. st.k \in Keys /\ st.k[1] \in Portfolios  BY <1>1, StatementIs, KeysAre
<1>3. AssetAt(s, st.k) \in AssetRows \cup {Null}  BY <1>2, Views
<1>4. Null \notin AssetRows  BY RowsDiffer
<1>5. CASE st.op = "createAsset"
    <2>1. v = [id |-> no[s], lot |-> st.lot, pos |-> NewPosition]  BY <1>5 DEF WritesAsset
    <2>2. st.lot \in LotSet /\ no[s] \in Nat /\ NewPosition \in Positions
        BY <1>1, <1>5, StatementIs DEF NewPosition, Positions, TypeInv
    <2>3. v \in AssetRows  BY <2>1, <2>2 DEF AssetRows
    <2> QED BY <1>2, <1>4, <1>5, <2>3
<1>6. CASE st.op = "updateLot"
    <2>1. AssetAt(s, st.k) \in AssetRows /\ v = [AssetAt(s, st.k) EXCEPT !.lot = st.lot]
        BY <1>3, <1>6 DEF WritesAsset
    <2>2. st.lot \in LotSet  BY <1>1, <1>6, StatementIs
    <2>3. v \in AssetRows  BY <2>1, <2>2 DEF AssetRows
    <2> QED BY <1>2, <1>4, <1>6, <2>1, <2>3
<1>7. CASE st.op = "updateNet"
    <2>1. /\ AssetAt(s, st.k) \in AssetRows
          /\ v = [AssetAt(s, st.k) EXCEPT !.pos = [AssetAt(s, st.k).pos EXCEPT !.netDeposit = st.v]]
        BY <1>3, <1>7 DEF WritesAsset
    <2>2. st.v \in Int  BY <1>1, <1>7, StatementIs
    <2>3. [AssetAt(s, st.k).pos EXCEPT !.netDeposit = st.v] \in Positions
        BY <2>1, <2>2 DEF AssetRows, Positions
    <2>4. v \in AssetRows  BY <2>1, <2>3 DEF AssetRows
    <2> QED BY <1>2, <1>4, <1>7, <2>1, <2>4
<1>8. CASE st.op = "deleteAsset"  BY <1>2, <1>8 DEF WritesAsset
<1>9. CASE st.op = "updatePos"
    <2>1. AssetAt(s, st.k) \in AssetRows /\ v = [AssetAt(s, st.k) EXCEPT !.pos = st.pos]
        BY <1>3, <1>9 DEF WritesAsset
    <2>2. st.pos \in Positions  BY <1>1, <1>9, StatementIs
    <2>3. v \in AssetRows /\ v.pos = st.pos /\ v.lot = AssetAt(s, st.k).lot  BY <2>1, <2>2 DEF AssetRows
    <2> QED BY <1>2, <1>4, <1>9, <2>1, <2>3
<1> QED BY <1>5, <1>6, <1>7, <1>8, <1>9 DEF WritesAsset

LEMMA EditedIs ==
    ASSUME NEW r \in TxRows, NEW ch \in Changes
    PROVE  /\ Edited(r, ch) \in TxRows /\ Edited(r, ch).pf = r.pf /\ Edited(r, ch).group = r.group
           /\ ch.tok = Same => KeyOf(Edited(r, ch)) = KeyOf(r)
<1>1. PICK tok : tok = Given(ch.tok, r.tok)  OBVIOUS
<1>2. PICK dir : dir = Given(ch.dir, r.dir)  OBVIOUS
<1>3. PICK a : a = Given(ch.amount, r.amount)  OBVIOUS
<1>4. PICK usd : usd = Given(ch.usd, r.usd)  OBVIOUS
<1>5. PICK ts : ts = Given(ch.ts, r.ts)  OBVIOUS
<1>6. tok \in Tokens /\ dir \in Directions /\ a \in Nat /\ usd \in Int /\ ts \in Nat
    BY <1>1, <1>2, <1>3, <1>4, <1>5 DEF Given, Changes, TxRows
<1>7. Edited(r, ch) = [pf |-> r.pf, tok |-> tok, dir |-> dir, amount |-> a, usd |-> usd, ts |-> ts, group |-> r.group]
    BY <1>1, <1>2, <1>3, <1>4, <1>5 DEF Edited, Row
<1>8. r.pf \in Portfolios /\ r.group \in Nat \cup {Null}  BY DEF TxRows
<1>9. Edited(r, ch) \in TxRows /\ Edited(r, ch).pf = r.pf /\ Edited(r, ch).group = r.group /\ Edited(r, ch).tok = tok
    BY <1>6, <1>7, <1>8 DEF TxRows
<1>10. ch.tok = Same => tok = r.tok  BY <1>1 DEF Given
<1> QED BY <1>9, <1>10 DEF KeyOf

LEMMA TxWritten ==
    ASSUME TypeInv, NEW s \in Slots, NEW st, Facing(s, st), NEW i, NEW v, WritesTx(s, st, i, v)
    PROVE  /\ i \in Ids /\ v \in TxRows \cup {Null}
           /\ st.op = "insertTx" => v = st.r /\ v \in TxRows /\ i = nextId
           /\ st.op # "insertTx" => st.op \in {"updateTx", "deleteTx"} /\ i = st.i /\ TxAt(s, i) \in TxRows
           /\ st.op = "updateTx" => /\ v = Edited(TxAt(s, i), st.ch) /\ v \in TxRows /\ st.ch \in Changes
                                    /\ v.group = TxAt(s, i).group
                                    /\ st.ch.tok = Same => KeyOf(v) = KeyOf(TxAt(s, i))
           /\ st.op = "deleteTx" => v = Null
<1>1. st \in Statements /\ i \in Ids  BY DEF Facing, WritesTx
<1>2. TxAt(s, i) \in TxRows \cup {Null}  BY <1>1, Views
<1>3. CASE st.op = "insertTx"
    <2>1. v = st.r /\ i = nextId  BY <1>3 DEF WritesTx
    <2>2. st.r \in TxRows  BY <1>1, <1>3, StatementIs
    <2> QED BY <1>1, <1>3, <2>1, <2>2
<1>4. CASE st.op = "updateTx"
    <2>1. i = st.i /\ TxAt(s, i) \in TxRows /\ v = Edited(TxAt(s, i), st.ch)  BY <1>2, <1>4 DEF WritesTx
    <2>2. st.ch \in Changes  BY <1>1, <1>4, StatementIs
    <2>3. /\ v \in TxRows /\ v.group = TxAt(s, i).group
          /\ st.ch.tok = Same => KeyOf(v) = KeyOf(TxAt(s, i))
        BY <2>1, <2>2, EditedIs
    <2> QED BY <1>1, <1>4, <2>1, <2>2, <2>3
<1>5. CASE st.op = "deleteTx"  BY <1>1, <1>2, <1>5 DEF WritesTx
<1> QED BY <1>3, <1>4, <1>5 DEF WritesTx

\* The nine statements of a transfer.
LEMMA SettleIs ==
    ASSUME NEW k \in Keys
    PROVE  /\ Settle(k) \in Seq(Statements) /\ Len(Settle(k)) = 3
           /\ Settle(k)[1] = LockAsset(k) /\ Settle(k)[2] = Recalc(k) /\ Settle(k)[3] = SumPortfolio(k[1])
<1>1. LockAsset(k) \in Statements /\ Recalc(k) \in Statements /\ SumPortfolio(k[1]) \in Statements
    BY LotsAre, StatementsAre
<1>2. PICK a \in Statements : a = LockAsset(k)  BY <1>1
<1>3. PICK b \in Statements : b = Recalc(k)  BY <1>1
<1>4. PICK c \in Statements : c = SumPortfolio(k[1])  BY <1>1
<1>5. Settle(k) = <<a, b>> \o <<c>>  BY <1>2, <1>3, <1>4 DEF Settle, RecalcAsset
<1>6. (<<a, b>> \o <<>>) \o <<c>> = <<a, b, c>>  BY Joined
<1>7. <<a, b>> \in Seq(Statements)  OBVIOUS
<1>8. Settle(k) = <<a, b, c>>  BY <1>5, <1>6, <1>7, ConcatEmptySeq
<1>9. /\ <<a, b, c>> \in Seq(Statements) /\ Len(<<a, b, c>>) = 3
      /\ <<a, b, c>>[1] = a /\ <<a, b, c>>[2] = b /\ <<a, b, c>>[3] = c
    OBVIOUS
<1> QED BY <1>2, <1>3, <1>4, <1>8, <1>9

Nine(w, A, B, C) ==
    /\ w \in Seq(Statements) /\ Len(w) = 9
    /\ w[1] = A[1] /\ w[2] = A[2] /\ w[3] = A[3]
    /\ w[4] = B[1] /\ w[5] = B[2] /\ w[6] = B[3]
    /\ w[7] = C[1] /\ w[8] = C[2] /\ w[9] = C[3]
LEMMA ThreeThrees ==
    ASSUME NEW A \in Seq(Statements), NEW B \in Seq(Statements), NEW C \in Seq(Statements),
           Len(A) = 3, Len(B) = 3, Len(C) = 3
    PROVE  Nine((A \o B) \o C, A, B, C)
<1>1. PICK D : D = A \o B  OBVIOUS
<1>2. /\ D \in Seq(Statements) /\ Len(D) = Len(A) + Len(B)
      /\ \A i \in 1 .. Len(A) + Len(B) : D[i] = IF i <= Len(A) THEN A[i] ELSE B[i - Len(A)]
    BY <1>1, ConcatProperties
<1>3. /\ Len(D) = 6 /\ D[1] = A[1] /\ D[2] = A[2] /\ D[3] = A[3]
      /\ D[4] = B[1] /\ D[5] = B[2] /\ D[6] = B[3]
    BY <1>2
<1>4. PICK q : q = D \o C  OBVIOUS
<1>5. /\ q \in Seq(Statements) /\ Len(q) = Len(D) + Len(C)
      /\ \A i \in 1 .. Len(D) + Len(C) : q[i] = IF i <= Len(D) THEN D[i] ELSE C[i - Len(D)]
    <2>1. D \in Seq(Statements) /\ C \in Seq(Statements)  BY <1>2
    <2>2. \A x, y \in Seq(Statements) :
             /\ x \o y \in Seq(Statements) /\ Len(x \o y) = Len(x) + Len(y)
             /\ \A i \in 1 .. Len(x) + Len(y) : (x \o y)[i] = IF i <= Len(x) THEN x[i] ELSE y[i - Len(x)]
        BY ConcatProperties
    <2> QED BY <1>4, <2>1, <2>2, Zenon
<1>6. /\ Len(q) = 9 /\ q[1] = D[1] /\ q[2] = D[2] /\ q[3] = D[3] /\ q[4] = D[4] /\ q[5] = D[5] /\ q[6] = D[6]
      /\ q[7] = C[1] /\ q[8] = C[2] /\ q[9] = C[3]
    BY <1>3, <1>5
<1> QED BY <1>1, <1>3, <1>4, <1>5, <1>6 DEF Nine

LEMMA CarryIs ==
    ASSUME TypeInv, NEW s \in Slots, NEW st, Facing(s, st), Carries(s, st)
    PROVE  LET q == CarryProgram(s, st)
               d == <<st.d, st.k[2]>>
               x == Leg(s, st, st.k, "sell")
               y == Leg(s, st, d, "buy")
           IN /\ st.k \in Keys /\ d \in Keys /\ d[1] = st.d /\ d[2] = st.k[2] /\ x \in TxRows /\ y \in TxRows
              /\ KeyOf(x) = st.k /\ KeyOf(y) = d /\ x.group = no[s] /\ y.group = no[s]
              /\ x.dir = "sell" /\ y.dir = "buy" /\ x.amount = y.amount /\ x.usd = y.usd
              /\ q \in Seq(Statements) /\ Len(q) = 9
              /\ q[1] = EnsureAsset(d) /\ q[2] = InsertTx(x) /\ q[3] = InsertTx(y)
              /\ q[4] = LockAsset(st.k) /\ q[5] = Recalc(st.k) /\ q[6] = SumPortfolio(st.k[1])
              /\ q[7] = LockAsset(d) /\ q[8] = Recalc(d) /\ q[9] = SumPortfolio(d[1])
<1>1. st \in Statements /\ st.op = "carry"  BY DEF Facing, Carries
<1>2. st.k \in Keys /\ st.d \in Portfolios /\ st.amount \in Nat \ {0} /\ st.ts \in Nat
    BY <1>1, StatementIs DEF AssetOps
<1>3. PICK d \in Keys : d = <<st.d, st.k[2]>> /\ d[1] = st.d /\ d[2] = st.k[2]  BY <1>2, KeysAre
<1>4. PICK u : u = CarriedBasis(AssetAt(s, st.k).pos, st.amount)  OBVIOUS
<1>5. u \in Int
    <2>1. PICK pos : pos = AssetAt(s, st.k).pos  OBVIOUS
    <2>2. AssetAt(s, st.k) \in AssetRows /\ ~(pos.balance < st.amount)  BY <1>2, <2>1, Views DEF Carries
    <2>3. pos.balance \in Int /\ pos.netDeposit \in Int  BY <2>1, <2>2 DEF AssetRows, Positions
    <2>4. pos.balance > 0 /\ st.amount * pos.netDeposit \in Int  BY <1>2, <2>2, <2>3
    <2>5. (st.amount * pos.netDeposit) \div pos.balance \in Int  BY <2>3, <2>4, Quotient
    <2> QED BY <1>4, <2>1, <2>5 DEF CarriedBasis
<1>6. PICK x : x = Leg(s, st, st.k, "sell")  OBVIOUS
<1>7. PICK y : y = Leg(s, st, d, "buy")  OBVIOUS
<1>8. no[s] \in Nat  BY DEF TypeInv
<1>9. /\ x = [pf |-> st.k[1], tok |-> st.k[2], dir |-> "sell", amount |-> st.amount, usd |-> u,
              ts |-> st.ts, group |-> no[s]]
      /\ y = [pf |-> d[1], tok |-> d[2], dir |-> "buy", amount |-> st.amount, usd |-> u,
              ts |-> st.ts, group |-> no[s]]
    BY <1>4, <1>6, <1>7 DEF Leg, Row
<1>10. /\ st.k[1] \in Portfolios /\ st.k[2] \in Tokens /\ d[1] \in Portfolios /\ d[2] \in Tokens
       /\ st.k = <<st.k[1], st.k[2]>> /\ d = <<d[1], d[2]>>
    BY <1>2, <1>3, KeysAre
<1>11. x \in TxRows /\ y \in TxRows  BY <1>2, <1>5, <1>8, <1>9, <1>10 DEF TxRows, Directions
<1>12. /\ KeyOf(x) = st.k /\ KeyOf(y) = d /\ x.group = no[s] /\ y.group = no[s]
       /\ x.dir = "sell" /\ y.dir = "buy" /\ x.amount = y.amount /\ x.usd = y.usd
    BY <1>9, <1>10 DEF KeyOf
<1>13. EnsureAsset(d) \in Statements /\ InsertTx(x) \in Statements /\ InsertTx(y) \in Statements
    BY <1>11, LotsAre, StatementsAre, TxStatementsAre
<1>14. PICK A : A = <<EnsureAsset(d), InsertTx(x), InsertTx(y)>>  OBVIOUS
<1>15. A \in Seq(Statements) /\ Len(A) = 3 /\ A[1] = EnsureAsset(d) /\ A[2] = InsertTx(x) /\ A[3] = InsertTx(y)
    <2>1. PICK a1 \in Statements : a1 = EnsureAsset(d)  BY <1>13
    <2>2. PICK a2 \in Statements : a2 = InsertTx(x)  BY <1>13
    <2>3. PICK a3 \in Statements : a3 = InsertTx(y)  BY <1>13
    <2>4. A = <<a1, a2, a3>>  BY <1>14, <2>1, <2>2, <2>3
    <2>5. A \in Seq(Statements) /\ Len(A) = 3 /\ A[1] = a1 /\ A[2] = a2 /\ A[3] = a3  BY <2>4
    <2> QED BY <2>1, <2>2, <2>3, <2>5
<1>16. PICK B \in Seq(Statements) : /\ B = Settle(st.k) /\ Len(B) = 3 /\ B[1] = LockAsset(st.k)
                                    /\ B[2] = Recalc(st.k) /\ B[3] = SumPortfolio(st.k[1])
    BY <1>2, SettleIs
<1>17. PICK C \in Seq(Statements) : /\ C = Settle(d) /\ Len(C) = 3 /\ C[1] = LockAsset(d)
                                    /\ C[2] = Recalc(d) /\ C[3] = SumPortfolio(d[1])
    BY SettleIs
<1>18. PICK q : q = CarryProgram(s, st)  OBVIOUS
<1>19. q = (A \o B) \o C  BY <1>3, <1>6, <1>7, <1>14, <1>16, <1>17, <1>18 DEF CarryProgram
<1>20. /\ q \in Seq(Statements) /\ Len(q) = 9
       /\ q[1] = A[1] /\ q[2] = A[2] /\ q[3] = A[3]
       /\ q[4] = B[1] /\ q[5] = B[2] /\ q[6] = B[3]
       /\ q[7] = C[1] /\ q[8] = C[2] /\ q[9] = C[3]
    <2>1. A \in Seq(Statements) /\ B \in Seq(Statements) /\ C \in Seq(Statements)  BY <1>15, <1>16, <1>17
    <2>2. Len(A) = 3 /\ Len(B) = 3 /\ Len(C) = 3  BY <1>15, <1>16, <1>17
    <2>3. Nine((A \o B) \o C, A, B, C)  BY <2>1, <2>2, ThreeThrees
    <2>4. Nine(q, A, B, C)  BY <1>19, <2>3
    <2> QED BY <2>4 DEF Nine
<1> QED BY <1>2, <1>3, <1>6, <1>7, <1>11, <1>12, <1>15, <1>16, <1>17, <1>18, <1>20

\* Its statements by kind.
LEMMA CarryOps ==
    ASSUME TypeInv, NEW s \in Slots, NEW st, Facing(s, st), Carries(s, st)
    PROVE  LET q == CarryProgram(s, st)
               d == <<st.d, st.k[2]>>
           IN /\ q \in Seq(Statements) /\ Len(q) = 9 /\ st.k \in Keys /\ d \in Keys /\ d[1] = st.d
              /\ q[1].op = "ensureAsset" /\ q[1].k = d
              /\ q[2].op = "insertTx" /\ KeyOf(q[2].r) = st.k
              /\ q[3].op = "insertTx" /\ KeyOf(q[3].r) = d
              /\ q[4].op = "lock" /\ q[4].k = st.k /\ q[5].op = "recalc" /\ q[5].k = st.k
              /\ q[6].op = "sum" /\ q[6].p = st.k[1]
              /\ q[7].op = "lock" /\ q[7].k = d /\ q[8].op = "recalc" /\ q[8].k = d
              /\ q[9].op = "sum" /\ q[9].p = d[1]
<1>1. PICK q : q = CarryProgram(s, st)  OBVIOUS
<1>2. PICK d : d = <<st.d, st.k[2]>>  OBVIOUS
<1>3. PICK x : x = Leg(s, st, st.k, "sell")  OBVIOUS
<1>4. PICK y : y = Leg(s, st, d, "buy")  OBVIOUS
<1>5. /\ st.k \in Keys /\ d \in Keys /\ d[1] = st.d /\ KeyOf(x) = st.k /\ KeyOf(y) = d
      /\ q \in Seq(Statements) /\ Len(q) = 9
      /\ q[1] = EnsureAsset(d) /\ q[2] = InsertTx(x) /\ q[3] = InsertTx(y)
      /\ q[4] = LockAsset(st.k) /\ q[5] = Recalc(st.k) /\ q[6] = SumPortfolio(st.k[1])
      /\ q[7] = LockAsset(d) /\ q[8] = Recalc(d) /\ q[9] = SumPortfolio(d[1])
    BY <1>1, <1>2, <1>3, <1>4, CarryIs
<1> QED BY <1>1, <1>2, <1>5 DEF EnsureAsset, InsertTx, LockAsset, Recalc, SumPortfolio

LEMMA CarryGood ==
    ASSUME TypeInv, NEW s \in Slots, NEW st, Facing(s, st), Carries(s, st)
    PROVE  CarryProgram(s, st) \in Seq(Statements) /\ Good(CarryProgram(s, st))
<1>1. PICK q : q = CarryProgram(s, st)  OBVIOUS
<1>2. PICK d : d = <<st.d, st.k[2]>>  OBVIOUS
<1>3. /\ q \in Seq(Statements) /\ Len(q) = 9
      /\ q[1].op = "ensureAsset" /\ q[1].k = d
      /\ q[2].op = "insertTx" /\ KeyOf(q[2].r) = st.k
      /\ q[3].op = "insertTx" /\ KeyOf(q[3].r) = d
      /\ q[4].op = "lock" /\ q[4].k = st.k /\ q[5].op = "recalc" /\ q[5].k = st.k
      /\ q[6].op = "sum" /\ q[6].p = st.k[1]
      /\ q[7].op = "lock" /\ q[7].k = d /\ q[8].op = "recalc" /\ q[8].k = d
      /\ q[9].op = "sum" /\ q[9].p = d[1]
    BY <1>1, <1>2, CarryOps
<1>4. \A n \in Nat : /\ n < 6 => HasSum(q, n, st.k[1])
                     /\ n < 9 => HasSum(q, n, d[1])
                     /\ n < 5 => HasRecalc(q, n, st.k)
                     /\ n < 8 => HasRecalc(q, n, d)
    <2> SUFFICES ASSUME NEW n \in Nat PROVE /\ n < 6 => HasSum(q, n, st.k[1])
                                            /\ n < 9 => HasSum(q, n, d[1])
                                            /\ n < 5 => HasRecalc(q, n, st.k)
                                            /\ n < 8 => HasRecalc(q, n, d)
        OBVIOUS
    <2>1. 5 \in 1 .. Len(q) /\ 6 \in 1 .. Len(q) /\ 8 \in 1 .. Len(q) /\ 9 \in 1 .. Len(q)  BY <1>3
    <2>2. n < 6 => 6 > n  OBVIOUS
    <2>3. n < 9 => 9 > n  OBVIOUS
    <2>4. n < 5 => 5 > n  OBVIOUS
    <2>5. n < 8 => 8 > n  OBVIOUS
    <2> QED BY <1>3, <2>1, <2>2, <2>3, <2>4, <2>5 DEF HasSum, HasRecalc
<1>5. GoodAt(q, 1)  BY <1>3, <1>4 DEF GoodAt, AssetWriters
<1>6. GoodAt(q, 2)  BY <1>3, <1>4 DEF GoodAt, AssetWriters
<1>7. GoodAt(q, 3)  BY <1>3, <1>4 DEF GoodAt, AssetWriters
<1>8. GoodAt(q, 4) /\ GoodAt(q, 6) /\ GoodAt(q, 7) /\ GoodAt(q, 9)  BY <1>3 DEF GoodAt, AssetWriters
<1>9. GoodAt(q, 5)
    <2>1. 5 - 1 = 4 /\ 5 \in Nat /\ 5 < 6  OBVIOUS
    <2>2. HasSum(q, 5, st.k[1])  BY <1>4, <2>1
    <2> QED BY <1>3, <2>1, <2>2 DEF GoodAt, AssetWriters
<1>10. GoodAt(q, 8)
    <2>1. 8 - 1 = 7 /\ 8 \in Nat /\ 8 < 9  OBVIOUS
    <2>2. HasSum(q, 8, d[1])  BY <1>4, <2>1
    <2> QED BY <1>3, <2>1, <2>2 DEF GoodAt, AssetWriters
<1>11. \A n \in 1 .. Len(q) : n = 1 \/ n = 2 \/ n = 3 \/ n = 4 \/ n = 5 \/ n = 6 \/ n = 7 \/ n = 8 \/ n = 9
    BY <1>3
<1> QED BY <1>1, <1>3, <1>5, <1>6, <1>7, <1>8, <1>9, <1>10, <1>11 DEF Good

LEMMA InitBase == Init => Base
<1> SUFFICES ASSUME Init PROVE Base  OBVIOUS
<1>1. PICK L \in Nat : L = Len(Logged) /\ L <= MaxTx /\ MaxTx \in Nat /\ \A i \in 1 .. L : Logged[i] \in TxRows
    <2>1. Logged \in Seq(TxRows) /\ Len(Logged) <= MaxTx /\ MaxTx \in Nat  BY LedgerAssumption
    <2> QED BY <2>1, LenProperties, ElementOfSeq
<1>2. txs = [i \in Ids |-> IF i <= L THEN Logged[i] ELSE Null]  BY <1>1 DEF Init
<1>3. txs \in [Ids -> TxRows \cup {Null}]
    <2>1. \A i \in Ids : i <= L => i \in 1 .. L  BY <1>1 DEF Ids
    <2> QED BY <1>1, <1>2, <2>1
<1>4. \A i \in Ids : i >= L + 1 => txs[i] = Null  BY <1>1, <1>2 DEF Ids
<1>5. asset \in [Keys -> AssetRows \cup {Null}]
    <2>1. asset = [k \in Keys |-> IF k \in Opened THEN [id |-> 0, lot |-> OpenLot, pos |-> Derive(OpenLot, txs, k)]
                                  ELSE Null]
        BY <1>1, <1>2 DEF Init
    <2>2. OpenLot \in LotSet  BY LedgerAssumption
    <2>3. \A k \in Keys : Derive(OpenLot, txs, k) \in Positions  BY <1>3, <2>2, DeriveType
    <2>4. \A k \in Keys : [id |-> 0, lot |-> OpenLot, pos |-> Derive(OpenLot, txs, k)] \in AssetRows
        BY <2>2, <2>3 DEF AssetRows
    <2> QED BY <2>1, <2>4
<1>6. net \in [Portfolios -> Int]
    <2>1. \A p \in Portfolios : SumNet(asset, p) \in Int  BY <1>5, SumNetType
    <2> QED BY <2>1 DEF Init
<1>7. nextId = L + 1 /\ nextId \in 1 .. MaxTx + 1  BY <1>1 DEF Init
<1>8. <<>> \in Seq(Statements) /\ Len(<<>>) = 0  OBVIOUS
<1>9. /\ active = {} /\ todo = [s \in Slots |-> <<>>] /\ no = [s \in Slots |-> 0]
      /\ wtx = [s \in Slots |-> [i \in Ids |-> Same]]
      /\ wasset = [s \in Slots |-> [k \in Keys |-> Same]]
      /\ wnet = [s \in Slots |-> [p \in Portfolios |-> Same]]
      /\ txLock = [i \in Ids |-> Free] /\ assetLock = [k \in Keys |-> Free]
      /\ pfLock = [p \in Portfolios |-> Free] /\ pfShare = [p \in Portfolios |-> {}] /\ nreq = 0
    BY DEF Init
<1>10. TypeInv  BY <1>3, <1>5, <1>6, <1>7, <1>8, <1>9 DEF TypeInv
<1>11. Good(<<>>)
    <2>1. \A n \in 1 .. Len(<<>>) : FALSE  BY <1>8
    <2> QED BY <2>1 DEF Good
<1>12. LockInv  BY <1>4, <1>7, <1>9, <1>11 DEF LockInv
<1> QED BY <1>10, <1>12 DEF Base

\* What begins, runs on and ends keeps the types.
LEMMA StartBase ==
    ASSUME Base, NEW s \in Slots, Starts(s)
    PROVE  Base'
<1>1. PICK q : s \notin active /\ Fresh(q) /\ Begin(s, q)  BY DEF Starts
<1>2. q \in Seq(Statements) /\ Good(q)  BY <1>1 DEF Fresh
<1>3. /\ nreq' = nreq + 1 /\ active' = active \cup {s} /\ no' = [no EXCEPT ![s] = nreq + 1]
      /\ todo' = [todo EXCEPT ![s] = q]
      /\ txs' = txs /\ asset' = asset /\ net' = net /\ nextId' = nextId /\ wtx' = wtx /\ wasset' = wasset
      /\ wnet' = wnet /\ txLock' = txLock /\ assetLock' = assetLock /\ pfLock' = pfLock /\ pfShare' = pfShare
    BY <1>1 DEF Begin, dbVars, lockVars
<1>4. TypeInv'  BY <1>2, <1>3 DEF Base, TypeInv
<1>5. \A o \in Slots : Good(todo'[o])  BY <1>2, <1>3 DEF Base, LockInv, TypeInv
<1>6. LockInv'  BY <1>3, <1>5 DEF Base, LockInv, TypeInv
<1> QED BY <1>4, <1>6 DEF Base

LEMMA EndBase ==
    ASSUME Base, NEW s \in Slots, Ends(s)
    PROVE  Base'
<1>1. /\ active' = active \ {s} /\ todo' = [todo EXCEPT ![s] = <<>>] /\ no' = [no EXCEPT ![s] = 0]
      /\ wtx' = [wtx EXCEPT ![s] = [i \in Ids |-> Same]]
      /\ wasset' = [wasset EXCEPT ![s] = [k \in Keys |-> Same]]
      /\ wnet' = [wnet EXCEPT ![s] = [p \in Portfolios |-> Same]]
      /\ nextId' = nextId /\ nreq' = nreq
    BY DEF Ends, Rollback, Commit, Forget
<1>2. /\ txLock' = [i \in Ids |-> IF txLock[i] = s THEN Free ELSE txLock[i]]
      /\ assetLock' = [k \in Keys |-> IF assetLock[k] = s THEN Free ELSE assetLock[k]]
      /\ pfLock' = [p \in Portfolios |-> IF pfLock[p] = s THEN Free ELSE pfLock[p]]
      /\ pfShare' = [p \in Portfolios |-> pfShare[p] \ {s}]
    BY DEF Ends, Rollback, Commit, Unlock
<1>3. /\ txs' \in [Ids -> TxRows \cup {Null}] /\ asset' \in [Keys -> AssetRows \cup {Null}]
      /\ net' \in [Portfolios -> Int]
      /\ \A i \in Ids : txs'[i] = txs[i] \/ (txs'[i] = wtx[s][i] /\ wtx[s][i] # Same)
    <2>1. CASE txs' = txs /\ asset' = asset /\ net' = net  BY <2>1 DEF Base, TypeInv
    <2>2. CASE Commit(s)
        <3>1. txs' = Txs(s) /\ asset' = Assets(s) /\ net' = [p \in Portfolios |-> NetAt(s, p)]
            BY <2>2 DEF Commit
        <3>2. TypeInv  BY DEF Base
        <3>3. \A i \in Ids : Txs(s)[i] = TxAt(s, i)  BY <3>2, Views
        <3>4. \A p \in Portfolios : NetAt(s, p) \in Int  BY <3>2, Views
        <3>5. Txs(s) \in [Ids -> TxRows \cup {Null}] /\ Assets(s) \in [Keys -> AssetRows \cup {Null}]
            BY <3>2, Views
        <3> QED BY <3>1, <3>3, <3>4, <3>5 DEF TxAt
    <2> QED BY <2>1, <2>2, RowsKeep DEF Base
<1>4. <<>> \in Seq(Statements) /\ Len(<<>>) = 0 /\ Same \in {Null, Same}  OBVIOUS
<1>5. TypeInv'
    <2>1. /\ todo' \in [Slots -> Seq(Statements)] /\ no' \in [Slots -> Nat]
          /\ nextId' \in 1 .. MaxTx + 1 /\ active' \in SUBSET Slots /\ nreq' \in Nat
        BY <1>1, <1>4 DEF Base, TypeInv
    <2>2. /\ wtx' \in [Slots -> [Ids -> TxRows \cup {Null, Same}]]
          /\ wasset' \in [Slots -> [Keys -> AssetRows \cup {Null, Same}]]
          /\ wnet' \in [Slots -> [Portfolios -> Int \cup {Same}]]
        <3>1. /\ [i \in Ids |-> Same] \in [Ids -> TxRows \cup {Null, Same}]
              /\ [k \in Keys |-> Same] \in [Keys -> AssetRows \cup {Null, Same}]
              /\ [p \in Portfolios |-> Same] \in [Portfolios -> Int \cup {Same}]
            OBVIOUS
        <3> QED BY <1>1, <3>1 DEF Base, TypeInv
    <2>3. /\ txLock' \in [Ids -> Slots \cup {Free}] /\ assetLock' \in [Keys -> Slots \cup {Free}]
          /\ pfLock' \in [Portfolios -> Slots \cup {Free}] /\ pfShare' \in [Portfolios -> SUBSET Slots]
        BY <1>2 DEF Base, TypeInv
    <2> QED BY <1>3, <2>1, <2>2, <2>3 DEF TypeInv
<1>6. Good(<<>>)
    <2>1. \A n \in 1 .. Len(<<>>) : FALSE  BY <1>4
    <2> QED BY <2>1 DEF Good
<1>7. \A o \in Slots : Good(todo'[o])  BY <1>1, <1>6 DEF Base, LockInv, TypeInv
<1>8. s # Free  BY LedgerAssumption
<1>9. \A i \in Ids : i >= nextId' => txs'[i] = Null /\ txLock'[i] = Free
    <2> SUFFICES ASSUME NEW i \in Ids, i >= nextId PROVE txs'[i] = Null /\ txLock'[i] = Free  BY <1>1
    <2>1. txs[i] = Null /\ txLock[i] = Free  BY DEF Base, LockInv
    <2>2. wtx[s][i] = Same  BY <1>8, <2>1 DEF Base, LockInv
    <2> QED BY <1>2, <1>3, <2>1, <2>2
<1>10. /\ \A o \in Slots : \A i \in Ids : wtx'[o][i] # Same => txLock'[i] = o
       /\ \A o \in Slots : \A k \in Keys : wasset'[o][k] # Same => assetLock'[k] = o
    <2> SUFFICES ASSUME NEW o \in Slots
                 PROVE  /\ \A i \in Ids : wtx'[o][i] # Same => txLock'[i] = o
                        /\ \A k \in Keys : wasset'[o][k] # Same => assetLock'[k] = o
        OBVIOUS
    <2>1. CASE o = s  BY <1>1, <2>1 DEF Base, TypeInv
    <2>2. CASE o # s  BY <1>1, <1>2, <2>2 DEF Base, TypeInv, LockInv
    <2> QED BY <2>1, <2>2
<1>11. /\ \A i \in Ids : txLock'[i] \in active' \cup {Free}
       /\ \A k \in Keys : assetLock'[k] \in active' \cup {Free}
       /\ \A p \in Portfolios : pfLock'[p] \in active' \cup {Free} /\ pfShare'[p] \subseteq active'
    BY <1>1, <1>2 DEF Base, LockInv
<1>12. /\ \A o \in Slots : o \notin active' => todo'[o] = <<>>
       /\ \A o \in Slots, p \in Portfolios : o \notin active' => wnet'[o][p] = Same
    BY <1>1 DEF Base, LockInv, TypeInv
<1>13. LockInv'  BY <1>7, <1>9, <1>10, <1>11, <1>12 DEF LockInv
<1> QED BY <1>5, <1>13 DEF Base

\* The program after a step.
LEMMA NewProgram ==
    ASSUME Base, NEW s \in Slots, s \in active, NEW q \in Seq(Statements), Good(q), todo' = [todo EXCEPT ![s] = q],
           active' = active
    PROVE  /\ todo' \in [Slots -> Seq(Statements)] /\ \A o \in Slots : Good(todo'[o])
           /\ \A o \in Slots : o \notin active' => todo'[o] = <<>>
BY DEF Base, TypeInv, LockInv

LEMMA TailProgram ==
    ASSUME Base, NEW s \in Slots, NEW st, Facing(s, st)
    PROVE  Tail(todo[s]) \in Seq(Statements) /\ Good(Tail(todo[s])) /\ st \in Statements /\ Good(todo[s])
           /\ todo[s] \in Seq(Statements) /\ todo[s] # <<>> /\ st = todo[s][1] /\ s \in active
<1>1. todo[s] \in Seq(Statements) /\ todo[s] # <<>> /\ Good(todo[s]) /\ st \in Statements /\ st = todo[s][1]
    BY DEF Base, TypeInv, LockInv, Facing
<1>2. s \in active  BY DEF Facing
<1> QED BY <1>1, <1>2, TailGood, TailIs

\* The new head of a program is a statement, and the program stays good.
LEMMA TurnIs ==
    ASSUME Base, NEW s \in Slots, NEW st, Facing(s, st), NEW new, Turns(s, st, new)
    PROVE  /\ st.k \in Keys /\ new \in Statements /\ new.k = st.k
           /\ \/ st.op = "ensureAsset" /\ new.op = "createAsset"
              \/ /\ st.op = "recalc" /\ new.op = "updatePos"
                 /\ AssetAt(s, st.k) \in AssetRows /\ new.pos = Derive(AssetAt(s, st.k).lot, Txs(s), st.k)
           /\ [todo[s] EXCEPT ![1] = new] \in Seq(Statements) /\ Good([todo[s] EXCEPT ![1] = new])
<1>1. /\ st \in Statements /\ Good(todo[s]) /\ todo[s] \in Seq(Statements) /\ todo[s] # <<>> /\ st = todo[s][1]
    BY TailProgram
<1>2. st.k \in Keys  BY <1>1, StatementIs DEF Turns, AssetOps
<1>3. CASE st.op = "ensureAsset"
    <2>1. new = CreateAsset(st.k, NoLot)  BY <1>3 DEF Turns
    <2>2. new \in Statements /\ new.op = "createAsset" /\ new.k = st.k
        BY <1>2, <2>1, LotsAre, StatementsAre DEF CreateAsset
    <2>3. Good([todo[s] EXCEPT ![1] = new])  BY <1>1, <1>3, <2>2, InsteadGood
    <2> QED BY <1>1, <1>2, <1>3, <2>2, <2>3, InsteadIs
<1>4. CASE st.op = "recalc"
    <2>0. TypeInv  BY DEF Base
    <2>1. AssetAt(s, st.k) # Null /\ new = UpdatePos(st.k, Derive(AssetAt(s, st.k).lot, Txs(s), st.k))
        BY <1>4 DEF Turns
    <2>2. AssetAt(s, st.k) \in AssetRows /\ Txs(s) \in [Ids -> TxRows \cup {Null}]  BY <1>2, <2>0, <2>1, Views
    <2>3. AssetAt(s, st.k).lot \in LotSet  BY <2>2 DEF AssetRows
    <2>4. PICK pos \in Positions : pos = Derive(AssetAt(s, st.k).lot, Txs(s), st.k)  BY <2>2, <2>3, DeriveType
    <2>5. UpdatePos(st.k, pos) \in Statements  BY <1>2, LotsAre, StatementsAre
    <2>6. new = UpdatePos(st.k, pos)  BY <2>1, <2>4
    <2>7. new \in Statements /\ new.op = "updatePos" /\ new.k = st.k /\ new.pos = pos
        BY <2>5, <2>6 DEF UpdatePos
    <2>8. Good([todo[s] EXCEPT ![1] = new])  BY <1>1, <1>4, <2>7, InsteadGood
    <2> QED BY <1>1, <1>2, <1>4, <2>2, <2>4, <2>7, <2>8, InsteadIs
<1> QED BY <1>3, <1>4 DEF Turns

LEMMA ReadBase ==
    ASSUME Base, NEW s \in Slots, NEW st, Facing(s, st), NEW q \in Seq(Statements), Good(q), Reads(s, q),
           \/ assetLock' = assetLock
           \/ st.k \in Keys /\ assetLock[st.k] \in {Free, s} /\ assetLock' = [assetLock EXCEPT ![st.k] = s]
    PROVE  Base'
<1>1. /\ todo' = [todo EXCEPT ![s] = q]
      /\ txs' = txs /\ asset' = asset /\ net' = net /\ nextId' = nextId /\ active' = active /\ no' = no
      /\ wtx' = wtx /\ wasset' = wasset /\ wnet' = wnet /\ txLock' = txLock /\ pfLock' = pfLock
      /\ pfShare' = pfShare /\ nreq' = nreq
    BY DEF Reads, dbVars, workVars
<1>2. s \in active /\ s # Free  BY LedgerAssumption DEF Facing
<1>3. /\ todo' \in [Slots -> Seq(Statements)] /\ \A o \in Slots : Good(todo'[o])
      /\ \A o \in Slots : o \notin active' => todo'[o] = <<>>
    BY <1>1, <1>2, NewProgram
<1>4. /\ assetLock' \in [Keys -> Slots \cup {Free}]
      /\ \A k \in Keys : assetLock'[k] \in active \cup {Free}
      /\ \A k \in Keys : \A o \in Slots : o # s /\ assetLock[k] = o => assetLock'[k] = o
      /\ \A k \in Keys : assetLock[k] = s => assetLock'[k] = s
    <2>1. assetLock \in [Keys -> Slots \cup {Free}] /\ \A k \in Keys : assetLock[k] \in active \cup {Free}
        BY DEF Base, TypeInv, LockInv
    <2>2. Free \notin Slots  BY LedgerAssumption
    <2>3. CASE assetLock' = assetLock  BY <2>1, <2>3
    <2>4. CASE st.k \in Keys /\ assetLock[st.k] \in {Free, s} /\ assetLock' = [assetLock EXCEPT ![st.k] = s]
        BY <1>2, <2>1, <2>2, <2>4
    <2> QED BY <2>3, <2>4
<1>5. TypeInv'  BY <1>1, <1>3, <1>4 DEF Base, TypeInv
<1>6. \A o \in Slots : \A k \in Keys : wasset[o][k] # Same => assetLock'[k] = o
    BY <1>4 DEF Base, LockInv
<1>7. LockInv'  BY <1>1, <1>3, <1>4, <1>6 DEF Base, LockInv
<1> QED BY <1>5, <1>7 DEF Base

LEMMA AssetBase ==
    ASSUME Base, NEW s \in Slots, NEW st, Facing(s, st), NEW v, WritesAsset(s, st, v)
    PROVE  Base'
<1>1. TypeInv /\ LockInv /\ s \in active /\ s # Free  BY LedgerAssumption DEF Base, Facing
<1>2. st.k \in Keys /\ st.k[1] \in Portfolios /\ v \in AssetRows \cup {Null}  BY <1>1, AssetWritten
<1>3. PICK k \in Keys : k = st.k  BY <1>2
<1>4. /\ todo' = [todo EXCEPT ![s] = Tail(todo[s])]
      /\ wasset' = [wasset EXCEPT ![s][k] = v] /\ assetLock' = [assetLock EXCEPT ![k] = s]
      /\ assetLock[k] \in {Free, s}
      /\ txs' = txs /\ asset' = asset /\ net' = net /\ nextId' = nextId /\ active' = active /\ no' = no
      /\ wtx' = wtx /\ wnet' = wnet /\ txLock' = txLock /\ pfLock' = pfLock /\ nreq' = nreq
    BY <1>3 DEF WritesAsset, WriteAsset, dbVars
<1>5. /\ pfShare' \in [Portfolios -> SUBSET Slots] /\ \A p \in Portfolios : pfShare'[p] \subseteq active
    <2>1. pfShare' = pfShare \/ pfShare' = [pfShare EXCEPT ![st.k[1]] = @ \cup {s}]  BY DEF WritesAsset
    <2>2. pfShare \in [Portfolios -> SUBSET Slots] /\ \A p \in Portfolios : pfShare[p] \subseteq active
        BY <1>1 DEF TypeInv, LockInv
    <2>3. CASE pfShare' = pfShare  BY <2>2, <2>3
    <2>4. CASE pfShare' = [pfShare EXCEPT ![st.k[1]] = @ \cup {s}]
        <3>1. PICK x \in Portfolios : x = st.k[1]  BY <1>2
        <3>2. pfShare' = [pfShare EXCEPT ![x] = pfShare[x] \cup {s}]  BY <2>4, <3>1
        <3> QED BY <1>1, <2>2, <3>2
    <2> QED BY <2>1, <2>3, <2>4
<1>6. /\ todo' \in [Slots -> Seq(Statements)] /\ \A o \in Slots : Good(todo'[o])
      /\ \A o \in Slots : o \notin active' => todo'[o] = <<>>
    BY <1>1, <1>4, TailProgram, NewProgram
<1>7. assetLock' \in [Keys -> Slots \cup {Free}] /\ wasset' \in [Slots -> [Keys -> AssetRows \cup {Null, Same}]]
    BY <1>1, <1>2, <1>3, <1>4 DEF TypeInv
<1>8. TypeInv'  BY <1>1, <1>4, <1>5, <1>6, <1>7 DEF TypeInv
<1>9. \A o \in Slots : \A x \in Keys : wasset'[o][x] # Same => assetLock'[x] = o
    <2> SUFFICES ASSUME NEW o \in Slots, NEW x \in Keys, wasset'[o][x] # Same PROVE assetLock'[x] = o  OBVIOUS
    <2>1. CASE o = s /\ x = k  BY <1>1, <1>4, <2>1 DEF TypeInv
    <2>2. CASE ~(o = s /\ x = k)
        <3>1. wasset[o][x] # Same  BY <1>1, <1>4, <2>2 DEF TypeInv
        <3>2. assetLock[x] = o /\ o # Free  BY <1>1, <3>1, LedgerAssumption DEF LockInv
        <3> QED BY <1>1, <1>4, <2>2, <3>2 DEF TypeInv
    <2> QED BY <2>1, <2>2
<1>10. \A x \in Keys : assetLock'[x] \in active \cup {Free}  BY <1>1, <1>4 DEF TypeInv, LockInv
<1>11. LockInv'  BY <1>1, <1>4, <1>5, <1>6, <1>9, <1>10 DEF LockInv
<1> QED BY <1>8, <1>11 DEF Base

LEMMA TxBase ==
    ASSUME Base, NEW s \in Slots, NEW st, Facing(s, st), NEW i, NEW v, WritesTx(s, st, i, v)
    PROVE  Base'
<1>1. TypeInv /\ LockInv /\ s \in active /\ s # Free  BY LedgerAssumption DEF Base, Facing
<1>2. i \in Ids /\ v \in TxRows \cup {Null}  BY <1>1, TxWritten
<1>3. /\ todo' = [todo EXCEPT ![s] = Tail(todo[s])]
      /\ wtx' = [wtx EXCEPT ![s][i] = v] /\ txLock' = [txLock EXCEPT ![i] = s]
      /\ txs' = txs /\ asset' = asset /\ net' = net /\ active' = active /\ no' = no
      /\ wasset' = wasset /\ wnet' = wnet /\ assetLock' = assetLock /\ pfLock' = pfLock /\ nreq' = nreq
    BY DEF WritesTx, WriteTx, dbVars
<1>4. nextId \in Int /\ MaxTx \in Nat /\ Ids = 1 .. MaxTx  BY <1>1, LedgerAssumption DEF TypeInv, Ids
<1>5. /\ nextId' \in 1 .. MaxTx + 1 /\ nextId <= nextId' /\ i < nextId' /\ txLock[i] \in {Free, s}
      /\ pfShare' \in [Portfolios -> SUBSET Slots] /\ \A p \in Portfolios : pfShare'[p] \subseteq active
    <2>1. CASE st.op = "insertTx"
        <3>1. i = nextId /\ nextId' = nextId + 1 /\ pfShare' = [pfShare EXCEPT ![st.r.pf] = @ \cup {s}]
            BY <2>1 DEF WritesTx
        <3>2. st.r.pf \in Portfolios  BY <2>1, StatementIs DEF Facing, TxRows
        <3>3. txLock[i] = Free  BY <1>1, <1>2, <1>4, <3>1 DEF LockInv
        <3>4. nextId' \in 1 .. MaxTx + 1 /\ nextId <= nextId' /\ i < nextId'  BY <1>2, <1>4, <3>1
        <3> QED BY <1>1, <3>1, <3>2, <3>3, <3>4 DEF TypeInv, LockInv
    <2>2. CASE st.op # "insertTx"
        <3>1. nextId' = nextId /\ pfShare' = pfShare /\ txLock[i] \in {Free, s} /\ TxAt(s, i) # Null
            BY <2>2 DEF WritesTx
        <3>2. i < nextId
            <4> SUFFICES ASSUME i >= nextId PROVE FALSE  BY <1>2, <1>4
            <4>1. txs[i] = Null /\ txLock[i] = Free  BY <1>1, <1>2 DEF LockInv
            <4>2. wtx[s][i] = Same  BY <1>1, <1>2, <4>1 DEF LockInv
            <4> QED BY <3>1, <4>1, <4>2 DEF TxAt
        <3> QED BY <1>1, <1>4, <3>1, <3>2 DEF TypeInv, LockInv
    <2> QED BY <2>1, <2>2
<1>6. /\ todo' \in [Slots -> Seq(Statements)] /\ \A o \in Slots : Good(todo'[o])
      /\ \A o \in Slots : o \notin active' => todo'[o] = <<>>
    BY <1>1, <1>3, TailProgram, NewProgram
<1>7. txLock' \in [Ids -> Slots \cup {Free}] /\ wtx' \in [Slots -> [Ids -> TxRows \cup {Null, Same}]]
    BY <1>1, <1>2, <1>3 DEF TypeInv
<1>8. TypeInv'  BY <1>1, <1>3, <1>5, <1>6, <1>7 DEF TypeInv
<1>9. \A o \in Slots : \A x \in Ids : wtx'[o][x] # Same => txLock'[x] = o
    <2> SUFFICES ASSUME NEW o \in Slots, NEW x \in Ids, wtx'[o][x] # Same PROVE txLock'[x] = o  OBVIOUS
    <2>1. CASE o = s /\ x = i  BY <1>1, <1>2, <1>3, <2>1 DEF TypeInv
    <2>2. CASE ~(o = s /\ x = i)
        <3>1. wtx[o][x] # Same  BY <1>1, <1>2, <1>3, <2>2 DEF TypeInv
        <3>2. txLock[x] = o /\ o # Free  BY <1>1, <3>1, LedgerAssumption DEF LockInv
        <3> QED BY <1>1, <1>2, <1>3, <1>5, <2>2, <3>2 DEF TypeInv
    <2> QED BY <2>1, <2>2
<1>10. \A x \in Ids : txLock'[x] \in active \cup {Free}  BY <1>1, <1>2, <1>3 DEF TypeInv, LockInv
<1>11. \A x \in Ids : x >= nextId' => txs'[x] = Null /\ txLock'[x] = Free
    <2> SUFFICES ASSUME NEW x \in Ids, x >= nextId' PROVE txs'[x] = Null /\ txLock'[x] = Free  OBVIOUS
    <2>1. x >= nextId /\ x # i
        <3>1. x \in Int /\ i \in Int /\ nextId' \in Int  BY <1>2, <1>4, <1>5
        <3> QED BY <1>4, <1>5, <3>1
    <2>2. txs[x] = Null /\ txLock[x] = Free  BY <1>1, <2>1 DEF LockInv
    <2> QED BY <1>1, <1>2, <1>3, <2>1, <2>2 DEF TypeInv
<1>12. LockInv'  BY <1>1, <1>3, <1>5, <1>6, <1>9, <1>10, <1>11 DEF LockInv
<1> QED BY <1>8, <1>12 DEF Base

LEMMA SumBase ==
    ASSUME Base, NEW s \in Slots, NEW st, Facing(s, st), Sums(s, st)
    PROVE  Base'
<1>1. TypeInv /\ LockInv /\ s \in active /\ s # Free  BY LedgerAssumption DEF Base, Facing
<1>2. PICK p \in Portfolios : p = st.p  BY StatementIs DEF Facing, Sums
<1>3. /\ todo' = [todo EXCEPT ![s] = Tail(todo[s])] /\ pfLock[p] \in {Free, s}
      /\ wnet' = [wnet EXCEPT ![s][p] = SumNet(Assets(s), p)] /\ pfLock' = [pfLock EXCEPT ![p] = s]
      /\ txs' = txs /\ asset' = asset /\ net' = net /\ nextId' = nextId /\ active' = active /\ no' = no
      /\ wtx' = wtx /\ wasset' = wasset /\ txLock' = txLock /\ assetLock' = assetLock /\ pfShare' = pfShare
      /\ nreq' = nreq
    BY <1>2 DEF Sums, dbVars
<1>4. SumNet(Assets(s), p) \in Int  BY <1>1, Views, SumNetType
<1>5. /\ todo' \in [Slots -> Seq(Statements)] /\ \A o \in Slots : Good(todo'[o])
      /\ \A o \in Slots : o \notin active' => todo'[o] = <<>>
    BY <1>1, <1>3, TailProgram, NewProgram
<1>6. pfLock' \in [Portfolios -> Slots \cup {Free}] /\ wnet' \in [Slots -> [Portfolios -> Int \cup {Same}]]
    BY <1>1, <1>3, <1>4 DEF TypeInv
<1>7. TypeInv'  BY <1>1, <1>3, <1>5, <1>6 DEF TypeInv
<1>8. \A x \in Portfolios : pfLock'[x] \in active \cup {Free}  BY <1>1, <1>3 DEF TypeInv, LockInv
<1>9. \A o \in Slots, x \in Portfolios : o \notin active' => wnet'[o][x] = Same
    BY <1>1, <1>3 DEF TypeInv, LockInv
<1>10. LockInv'  BY <1>1, <1>3, <1>5, <1>8, <1>9 DEF LockInv
<1> QED BY <1>7, <1>10 DEF Base

LEMMA RunBase ==
    ASSUME Base, NEW s \in Slots, RunsOn(s)
    PROVE  Base'
<1>1. PICK st : /\ Facing(s, st)
                /\ \/ Locks(s, st) \/ Passes(s, st) \/ Carries(s, st) \/ Sums(s, st)
                   \/ \E new : Turns(s, st, new)
                   \/ \E v : WritesAsset(s, st, v)
                   \/ \E i, v : WritesTx(s, st, i, v)
    BY DEF RunsOn
<1>2. Tail(todo[s]) \in Seq(Statements) /\ Good(Tail(todo[s])) /\ st \in Statements  BY <1>1, TailProgram
<1>3. CASE Locks(s, st)
    <2>1. st.k \in Keys  BY <1>2, <1>3, StatementIs DEF Locks, AssetOps
    <2>2. Reads(s, Tail(todo[s])) /\ \/ assetLock' = assetLock
                                     \/ assetLock[st.k] \in {Free, s} /\ assetLock' = [assetLock EXCEPT ![st.k] = s]
        BY <1>3 DEF Locks
    <2> QED BY <1>1, <1>2, <2>1, <2>2, ReadBase
<1>4. CASE Passes(s, st)
    <2>1. Reads(s, Tail(todo[s])) /\ assetLock' = assetLock  BY <1>4 DEF Passes
    <2> QED BY <1>1, <1>2, <2>1, ReadBase
<1>5. CASE Carries(s, st)
    <2>1. Reads(s, CarryProgram(s, st)) /\ assetLock' = assetLock  BY <1>5 DEF Carries
    <2>2. CarryProgram(s, st) \in Seq(Statements) /\ Good(CarryProgram(s, st))  BY <1>1, <1>5, CarryGood DEF Base
    <2> QED BY <1>1, <2>1, <2>2, ReadBase
<1>6. CASE Sums(s, st)  BY <1>1, <1>6, SumBase
<1>7. CASE \E new : Turns(s, st, new)
    <2>1. PICK new : Turns(s, st, new)  BY <1>7
    <2>2. Reads(s, [todo[s] EXCEPT ![1] = new]) /\ assetLock' = assetLock  BY <2>1 DEF Turns
    <2>3. [todo[s] EXCEPT ![1] = new] \in Seq(Statements) /\ Good([todo[s] EXCEPT ![1] = new])
        BY <1>1, <2>1, TurnIs
    <2> QED BY <1>1, <2>2, <2>3, ReadBase
<1>8. CASE \E v : WritesAsset(s, st, v)  BY <1>1, <1>8, AssetBase
<1>9. CASE \E i, v : WritesTx(s, st, i, v)  BY <1>1, <1>9, TxBase
<1> QED BY <1>1, <1>3, <1>4, <1>5, <1>6, <1>7, <1>8, <1>9

LEMMA BaseStep == ASSUME Base, [Next]_vars PROVE Base'
<1>1. CASE Next
    <2>1. PICK s \in Slots : Starts(s) \/ Ends(s) \/ RunsOn(s)  BY <1>1, NextIs DEF Base
    <2> QED BY <2>1, StartBase, EndBase, RunBase
<1>2. CASE UNCHANGED vars
    BY <1>2 DEF vars, dbVars, workVars, lockVars, Base, TypeInv, LockInv, Good
<1> QED BY <1>1, <1>2

\* Whatever requests interleave, fail or are chosen as deadlock victims: every committed row belongs
\* to a portfolio and a token, and a row lock is held by a request in its transaction (the callback of
\* prisma.$transaction ends with a commit or a rollback on every path).
THEOREM TypeSafety == Spec => []TypeOK
<1>1. Base => TypeOK
    <2> SUFFICES ASSUME Base PROVE TypeOK  OBVIOUS
    <2>1. \A i \in Ids : txs[i] # Null => KeyOf(txs[i]) \in Keys /\ txs[i].dir \in Directions
        <3> SUFFICES ASSUME NEW i \in Ids, txs[i] # Null PROVE KeyOf(txs[i]) \in Keys /\ txs[i].dir \in Directions
            OBVIOUS
        <3>1. txs[i] \in TxRows  BY DEF Base, TypeInv
        <3> QED BY <3>1, KeysAre DEF TxRows
    <2>2. DOMAIN asset = Keys /\ net \in [Portfolios -> Int] /\ nextId \in 1 .. MaxTx + 1 /\ active \subseteq Slots
        BY DEF Base, TypeInv
    <2>3. /\ txLock \in [Ids -> active \cup {Free}] /\ assetLock \in [Keys -> active \cup {Free}]
          /\ pfLock \in [Portfolios -> active \cup {Free}] /\ pfShare \in [Portfolios -> SUBSET active]
        BY DEF Base, TypeInv, LockInv
    <2> QED BY <2>1, <2>2, <2>3 DEF TypeOK
<1> QED BY <1>1, InitBase, BaseStep, PTL DEF Spec

-----------------------------------------------------------------------------
(* Portfolio.netDeposit is the sum of its assets *)

\* A request that has written to a portfolio has its sum before it, or holds the row and has the sum.
NetDirty(s, p)   == wnet[s][p] # Same \/ \E t \in Tokens : wasset[s][<<p, t>>] # Same
NetSettled(s, p) == wnet[s][p] = SumNet(Assets(s), p) /\ pfLock[p] = s
NetAhead(s, p)   == NetDirty(s, p) => HasSum(todo[s], 0, p) \/ NetSettled(s, p)
NetInv == NetIsSum /\ \A s \in Slots, p \in Portfolios : NetAhead(s, p)

LEMMA SumLater ==
    ASSUME NEW q \in Seq(Statements), q # <<>>, NEW p, HasSum(q, 0, p), q[1].op # "sum" \/ q[1].p # p
    PROVE  HasSum(q, 1, p) /\ HasSum(Tail(q), 0, p)
<1>1. PICK m \in 1 .. Len(q) : m > 0 /\ q[m].op = "sum" /\ q[m].p = p  BY DEF HasSum
<1>2. m > 1  BY <1>1
<1>3. HasSum(q, 1, p)  BY <1>1, <1>2 DEF HasSum
<1>4. 0 \in Nat /\ 0 + 1 = 1  OBVIOUS
<1>5. HasSum(q, 0 + 1, p) => HasSum(Tail(q), 0, p)  BY <1>4, TailHas
<1> QED BY <1>3, <1>4, <1>5

\* The assets of a slot stay when neither its writes nor the committed rows change.
LEMMA SumStays ==
    ASSUME NEW o, NEW p \in Portfolios,
           \A t \in Tokens : wasset'[o][<<p, t>>] = wasset[o][<<p, t>>],
           \A t \in Tokens : asset'[<<p, t>>] = asset[<<p, t>>]
    PROVE  SumNet(Assets(o)', p) = SumNet(Assets(o), p)
<1>1. \A t \in Tokens : <<p, t>> \in Keys  BY KeysAre
<1>2. \A t \in Tokens : Assets(o)'[<<p, t>>] = Assets(o)[<<p, t>>]  BY <1>1 DEF Assets, AssetAt
<1>3. PICK more : more = Assets(o)'  OBVIOUS
<1>4. PICK rows : rows = Assets(o)  OBVIOUS
<1>5. \A t \in Tokens : more[<<p, t>>] = rows[<<p, t>>]  BY <1>2, <1>3, <1>4
<1>6. SumNet(more, p) = SumNet(rows, p)  BY <1>5, SumNetSame
<1> QED BY <1>3, <1>4, <1>6

\* A slot that does not run keeps what it knows of p while p's assets stay.
LEMMA NetOther ==
    ASSUME NEW o \in Slots, NEW p \in Portfolios, Kept(o), NetAhead(o, p),
           pfLock[p] = o => \A t \in Tokens : asset'[<<p, t>>] = asset[<<p, t>>]
    PROVE  NetAhead(o, p)'
<1>1. /\ todo'[o] = todo[o] /\ wasset'[o] = wasset[o] /\ wnet'[o] = wnet[o]
      /\ pfLock[p] = o => pfLock'[p] = o
    BY DEF Kept
<1>2. ASSUME NetSettled(o, p) PROVE NetSettled(o, p)'
    <2>1. pfLock[p] = o /\ wnet[o][p] = SumNet(Assets(o), p)  BY <1>2 DEF NetSettled
    <2>2. SumNet(Assets(o)', p) = SumNet(Assets(o), p)  BY <1>1, <2>1, SumStays
    <2> QED BY <1>1, <2>1, <2>2 DEF NetSettled
<1>3. NetDirty(o, p)' => NetDirty(o, p)  BY <1>1 DEF NetDirty
<1> QED BY <1>1, <1>2, <1>3 DEF NetAhead

\* A slot that runs keeps what it knows of p when it writes nothing of p.
LEMMA NetOwn ==
    ASSUME NEW s \in Slots, NEW p \in Portfolios, NetAhead(s, p),
           HasSum(todo[s], 0, p) => HasSum(todo'[s], 0, p),
           \A t \in Tokens : wasset'[s][<<p, t>>] = wasset[s][<<p, t>>],
           wnet'[s][p] = wnet[s][p], pfLock'[p] = pfLock[p], asset' = asset
    PROVE  NetAhead(s, p)'
<1>1. NetDirty(s, p)' => NetDirty(s, p)  BY DEF NetDirty
<1>2. SumNet(Assets(s)', p) = SumNet(Assets(s), p)  BY SumStays
<1>3. NetSettled(s, p) => NetSettled(s, p)'  BY <1>2 DEF NetSettled
<1> QED BY <1>1, <1>3 DEF NetAhead

LEMMA NetRun ==
    ASSUME Base, "net" \notin Kinds, NEW s \in Slots, RunsOn(s), NEW p \in Portfolios, NetAhead(s, p)
    PROVE  NetAhead(s, p)'
<1>1. PICK st : /\ Facing(s, st)
                /\ \/ Locks(s, st) \/ Passes(s, st) \/ Carries(s, st) \/ Sums(s, st)
                   \/ \E new : Turns(s, st, new)
                   \/ \E v : WritesAsset(s, st, v)
                   \/ \E i, v : WritesTx(s, st, i, v)
    BY DEF RunsOn
<1>2. TypeInv /\ s \in active  BY <1>1 DEF Base, Facing
<1>3. PICK q \in Seq(Statements) : q = todo[s] /\ q # <<>> /\ Good(q) /\ st = q[1] /\ st \in Statements
    BY <1>1, TailProgram
<1>4. 1 \in 1 .. Len(q) /\ GoodAt(q, 1)  BY <1>3, TailIs DEF Good
<1>5. HasSum(q, 0, p) /\ (st.op # "sum" \/ st.p # p) => HasSum(Tail(q), 0, p)  BY <1>3, SumLater
<1>6. ASSUME NEW r, Reads(s, r), HasSum(q, 0, p) => HasSum(r, 0, p) PROVE NetAhead(s, p)'
    <2>1. todo'[s] = r /\ wasset' = wasset /\ wnet' = wnet /\ pfLock' = pfLock /\ asset' = asset
        BY <1>2, <1>6 DEF Reads, dbVars, workVars, TypeInv
    <2> QED BY <1>3, <1>6, <2>1, NetOwn
<1>7. CASE Locks(s, st)
    <2>1. Reads(s, Tail(q)) /\ st.op = "lock"  BY <1>3, <1>7 DEF Locks
    <2> QED BY <1>5, <1>6, <2>1
<1>8. CASE Passes(s, st)
    <2>1. Reads(s, Tail(q)) /\ st.op # "sum"  BY <1>3, <1>8 DEF Passes
    <2> QED BY <1>5, <1>6, <2>1
<1>9. CASE Carries(s, st)
    <2>1. Reads(s, CarryProgram(s, st)) /\ st.op = "carry"  BY <1>9 DEF Carries
    <2>2. \A m \in 1 .. Len(q) : q[m].op \in {"lock", "carry"}  BY <1>3, <1>4, <2>1 DEF GoodAt
    <2>3. ~HasSum(q, 0, p)  BY <2>2 DEF HasSum
    <2> QED BY <1>6, <2>1, <2>3
<1>10. CASE Sums(s, st)
    <2>1. /\ st.op = "sum" /\ todo' = [todo EXCEPT ![s] = Tail(q)] /\ asset' = asset /\ wasset' = wasset
          /\ wnet' = [wnet EXCEPT ![s][st.p] = SumNet(Assets(s), st.p)]
          /\ pfLock' = [pfLock EXCEPT ![st.p] = s]
        BY <1>3, <1>10 DEF Sums, dbVars
    <2>2. CASE st.p = p
        <3>1. wnet'[s][p] = SumNet(Assets(s), p) /\ pfLock'[p] = s  BY <1>2, <2>1, <2>2 DEF TypeInv
        <3>2. SumNet(Assets(s)', p) = SumNet(Assets(s), p)  BY <2>1, SumStays
        <3> QED BY <3>1, <3>2 DEF NetAhead, NetSettled
    <2>3. CASE st.p # p
        <3>1. todo'[s] = Tail(q) /\ wnet'[s][p] = wnet[s][p] /\ pfLock'[p] = pfLock[p]
            BY <1>2, <2>1, <2>3 DEF TypeInv
        <3> QED BY <1>3, <1>5, <2>1, <2>3, <3>1, NetOwn
    <2> QED BY <2>2, <2>3
<1>11. CASE \E new : Turns(s, st, new)
    <2>1. PICK new : Turns(s, st, new)  BY <1>11
    <2>2. PICK r \in Seq(Statements) : r = [q EXCEPT ![1] = new] /\ Reads(s, r)
        BY <1>1, <1>3, <2>1, TurnIs DEF Turns
    <2>3. st.op # "sum" /\ new \in Statements  BY <1>1, <2>1, TurnIs
    <2>4. HasSum(q, 0, p) => HasSum(r, 0, p)
        <3> SUFFICES ASSUME HasSum(q, 0, p) PROVE HasSum(r, 0, p)  OBVIOUS
        <3>1. HasSum(q, 1, p)  BY <1>3, <2>3, SumLater
        <3>2. HasSum(r, 1, p)  BY <1>3, <1>4, <2>2, <2>3, <3>1, InsteadHas
        <3>3. PICK m \in 1 .. Len(r) : m > 1 /\ r[m].op = "sum" /\ r[m].p = p  BY <3>2 DEF HasSum
        <3>4. m > 0  BY <3>3
        <3> QED BY <3>3, <3>4 DEF HasSum
    <2> QED BY <1>6, <2>2, <2>4
<1>12. CASE \E v : WritesAsset(s, st, v)
    <2>1. PICK v : WritesAsset(s, st, v)  BY <1>12
    <2>2. PICK k \in Keys : k = st.k /\ k[1] \in Portfolios  BY <1>1, <1>2, <2>1, AssetWritten
    <2>3. /\ todo' = [todo EXCEPT ![s] = Tail(q)] /\ wasset' = [wasset EXCEPT ![s][k] = v]
          /\ wnet' = wnet /\ pfLock' = pfLock /\ asset' = asset /\ st.op # "sum"
        BY <1>3, <2>1, <2>2 DEF WritesAsset, WriteAsset, dbVars
    <2>4. todo'[s] = Tail(q)  BY <1>2, <2>3 DEF TypeInv
    <2>5. CASE k[1] = p
        <3>1. q[1].op # "updateNet"  BY <1>4 DEF GoodAt
        <3>2. q[1].op \in AssetWriters  BY <1>3, <2>1, <3>1 DEF WritesAsset, AssetWriters
        <3>3. HasSum(q, 1, p)  BY <1>3, <1>4, <2>2, <2>5, <3>2 DEF GoodAt
        <3>4. 0 \in Nat /\ 0 + 1 = 1  OBVIOUS
        <3>5. HasSum(q, 0 + 1, p) => HasSum(Tail(q), 0, p)  BY <1>3, <3>4, TailHas
        <3> QED BY <2>4, <3>3, <3>4, <3>5 DEF NetAhead
    <2>6. CASE k[1] # p
        <3>1. \A t \in Tokens : <<p, t>> # k  BY <2>6
        <3>2. \A t \in Tokens : wasset'[s][<<p, t>>] = wasset[s][<<p, t>>]  BY <1>2, <2>3, <3>1 DEF TypeInv
        <3> QED BY <1>3, <1>5, <2>3, <2>4, <3>2, NetOwn
    <2> QED BY <2>5, <2>6
<1>13. CASE \E i, v : WritesTx(s, st, i, v)
    <2>1. PICK i, v : WritesTx(s, st, i, v)  BY <1>13
    <2>2. /\ todo' = [todo EXCEPT ![s] = Tail(q)] /\ wasset' = wasset
          /\ wnet' = wnet /\ pfLock' = pfLock /\ asset' = asset /\ st.op # "sum"
        BY <1>3, <2>1 DEF WritesTx, WriteTx, dbVars
    <2>3. todo'[s] = Tail(q)  BY <1>2, <2>2 DEF TypeInv
    <2> QED BY <1>3, <1>5, <2>2, <2>3, NetOwn
<1> QED BY <1>1, <1>7, <1>8, <1>9, <1>10, <1>11, <1>12, <1>13

\* A slot without a request has written nothing.
LEMMA IdleClean ==
    ASSUME Base, NEW s \in Slots, s \notin active
    PROVE  /\ \A k \in Keys : wasset[s][k] = Same
           /\ \A i \in Ids : wtx[s][i] = Same
           /\ \A p \in Portfolios : wnet[s][p] = Same
           /\ todo[s] = <<>>
<1>1. s # Free  BY LedgerAssumption
<1> QED BY <1>1 DEF Base, LockInv

LEMMA EndsClean ==
    ASSUME TypeInv, NEW s \in Slots, Ends(s)
    PROVE  /\ \A k \in Keys : wasset'[s][k] = Same
           /\ \A i \in Ids : wtx'[s][i] = Same
           /\ \A p \in Portfolios : wnet'[s][p] = Same
           /\ todo'[s] = <<>> /\ nextId' = nextId /\ nreq' = nreq /\ active' = active \ {s}
<1>1. Forget(s)  BY DEF Ends, Rollback, Commit
<1> QED BY <1>1 DEF Forget, TypeInv

LEMMA EmptyHas == \A n, p, k : ~HasSum(<<>>, n, p) /\ ~HasRecalc(<<>>, n, k) /\ ~HasMaker(<<>>, n, k)
<1>1. Len(<<>>) = 0  OBVIOUS
<1>2. \A m \in 1 .. Len(<<>>) : FALSE  BY <1>1
<1> QED BY <1>2 DEF HasSum, HasRecalc, HasMaker

LEMMA NetStep ==
    ASSUME "net" \notin Kinds, Base, NetInv, [Next]_vars
    PROVE  NetInv'
<1>1. CASE UNCHANGED vars
    BY <1>1 DEF vars, dbVars, workVars, lockVars, NetInv, NetIsSum, NetAhead, NetDirty, NetSettled, Assets, AssetAt
<1>2. CASE Next
    <2>1. PICK s \in Slots : Starts(s) \/ Ends(s) \/ RunsOn(s)  BY <1>2, NextIs DEF Base
    <2>2. \A o \in Slots : o # s => Kept(o)  BY <2>1, OthersKeep DEF Base, LockInv
    <2>3. CASE txs' = txs /\ asset' = asset /\ net' = net
        <3>1. NetIsSum'  BY <2>3 DEF NetInv, NetIsSum
        <3>2. ASSUME NEW o \in Slots, NEW p \in Portfolios PROVE NetAhead(o, p)'
            <4>1. NetAhead(o, p)  BY DEF NetInv
            <4>2. CASE o # s  BY <2>2, <2>3, <4>1, <4>2, NetOther
            <4>3. CASE o = s /\ Starts(s)
                <5>1. PICK x : s \notin active /\ Begin(s, x)  BY <4>3 DEF Starts
                <5>2. wasset' = wasset /\ wnet' = wnet  BY <5>1 DEF Begin
                <5>4. wnet'[s][p] = Same /\ \A t \in Tokens : wasset'[s][<<p, t>>] = Same
                    BY <5>1, <5>2, IdleClean, KeysAre
                <5> QED BY <4>3, <5>4 DEF NetAhead, NetDirty
            <4>4. CASE o = s /\ Ends(s)
                <5>1. wnet'[s][p] = Same /\ \A t \in Tokens : wasset'[s][<<p, t>>] = Same
                    BY <4>4, EndsClean, KeysAre DEF Base
                <5> QED BY <4>4, <5>1 DEF NetAhead, NetDirty
            <4>5. CASE o = s /\ RunsOn(s)  BY <4>1, <4>5, NetRun
            <4> QED BY <2>1, <4>2, <4>3, <4>4, <4>5
        <3> QED BY <3>1, <3>2 DEF NetInv
    <2>4. CASE Commit(s)
        <3>1. TypeInv /\ Ends(s)  BY <2>4 DEF Base, Ends, Commit
        <3>2. /\ todo[s] = <<>> /\ asset' = Assets(s) /\ net' = [p \in Portfolios |-> NetAt(s, p)]
            BY <2>4 DEF Commit
        <3>3. ASSUME NEW p \in Portfolios, NetDirty(s, p) PROVE NetSettled(s, p)
            BY <3>2, <3>3, EmptyHas DEF NetInv, NetAhead
        <3>4. ASSUME NEW p \in Portfolios, ~NetDirty(s, p)
              PROVE  \A t \in Tokens : asset'[<<p, t>>] = asset[<<p, t>>]
            BY <3>1, <3>2, <3>4, Views, KeysAre DEF NetDirty, AssetAt
        <3>5. ASSUME NEW p \in Portfolios PROVE net'[p] = SumNet(asset', p)
            <4>1. CASE NetDirty(s, p)
                <5>1. wnet[s][p] = SumNet(Assets(s), p)  BY <3>3, <4>1 DEF NetSettled
                <5>2. SumNet(Assets(s), p) \in Int  BY <3>1, Views, SumNetType
                <5>3. wnet[s][p] # Same  BY <5>1, <5>2, LedgerAssumption
                <5> QED BY <3>2, <5>1, <5>3 DEF NetAt
            <4>2. CASE ~NetDirty(s, p)
                <5>1. SumNet(asset', p) = SumNet(asset, p)
                    <6>1. PICK more : more = asset'  OBVIOUS
                    <6>2. \A t \in Tokens : more[<<p, t>>] = asset[<<p, t>>]  BY <3>4, <4>2, <6>1
                    <6>3. SumNet(more, p) = SumNet(asset, p)  BY <6>2, SumNetSame
                    <6> QED BY <6>1, <6>3
                <5>2. net'[p] = net[p]  BY <3>2, <4>2 DEF NetAt, NetDirty
                <5> QED BY <5>1, <5>2 DEF NetInv, NetIsSum
            <4> QED BY <4>1, <4>2
        <3>6. ASSUME NEW o \in Slots, NEW p \in Portfolios PROVE NetAhead(o, p)'
            <4>1. CASE o = s
                <5>1. wnet'[s][p] = Same /\ \A t \in Tokens : wasset'[s][<<p, t>>] = Same
                    BY <3>1, EndsClean, KeysAre
                <5> QED BY <4>1, <5>1 DEF NetAhead, NetDirty
            <4>2. CASE o # s
                <5>1. pfLock[p] = o => \A t \in Tokens : asset'[<<p, t>>] = asset[<<p, t>>]
                    BY <3>3, <3>4, <4>2 DEF NetSettled
                <5>2. NetAhead(o, p)  BY DEF NetInv
                <5> QED BY <2>2, <4>2, <5>1, <5>2, NetOther
            <4> QED BY <4>1, <4>2
        <3> QED BY <3>5, <3>6 DEF NetInv, NetIsSum
    <2> QED BY <2>1, <2>3, <2>4, RowsKeep DEF Base
<1> QED BY <1>1, <1>2

\* Without the override of an asset's netDeposit (updateAsset writes that column alone and does not
\* refresh the portfolio), Portfolio.netDeposit is the sum over the committed assets, whatever
\* requests interleave: recalcPortfolioNetDeposit holds the portfolio's row while it sums, and no
\* request writes an asset without summing after it.
THEOREM NetSafety == ASSUME "net" \notin Kinds PROVE Spec => []NetIsSum
<1>1. Init => NetInv
    <2> SUFFICES ASSUME Init PROVE NetInv  OBVIOUS
    <2>1. NetIsSum  BY DEF Init, NetIsSum
    <2>2. \A s \in Slots, p \in Portfolios : NetAhead(s, p)
        <3> SUFFICES ASSUME NEW s \in Slots, NEW p \in Portfolios PROVE ~NetDirty(s, p)  BY DEF NetAhead
        <3>1. wnet[s][p] = Same /\ \A k \in Keys : wasset[s][k] = Same  BY DEF Init
        <3> QED BY <3>1, KeysAre DEF NetDirty
    <2> QED BY <2>1, <2>2 DEF NetInv
<1>2. NetInv => NetIsSum  BY DEF NetInv
<1> QED BY <1>1, <1>2, InitBase, BaseStep, NetStep, PTL DEF Spec

-----------------------------------------------------------------------------
(* An asset row says what its transactions derive *)

\* A row of the holding k; one that a request has written and not deleted.
OfKey(r, k) == r # Null /\ KeyOf(r) = k
IsTx(v)     == v \notin {Null, Same}

\* The holdings a transaction is committed to, or written to by a request.
BelongsTo(i, k) == OfKey(txs[i], k) \/ \E o \in Slots : IsTx(wtx[o][i]) /\ OfKey(wtx[o][i], k)

\* Request s has changed the holding k: its row or one of its transactions.
Touched(s, k) ==
    \/ wasset[s][k] # Same
    \/ \E i \in Ids : wtx[s][i] # Same /\ (OfKey(txs[i], k) \/ OfKey(wtx[s][i], k))

\* Request s holds the lock of k, and pos is what its rows derive.
PosIs(s, k, pos) ==
    /\ assetLock[k] = s /\ AssetAt(s, k) # Null
    /\ pos = Derive(AssetAt(s, k).lot, Txs(s), k)

\* The program q of s still recalculates every holding that s has changed, or has just done so.
Heads(q, k) == q # <<>> /\ q[1].op = "updatePos" /\ q[1].k = k
PosAhead(s, q, k) ==
    Touched(s, k) => HasRecalc(q, 0, k) \/ Heads(q, k) \/ PosIs(s, k, AssetAt(s, k).pos)

\* What holds of a pending statement: the holding it recalculates or adds to is there or is created
\* before it; every holding the transaction it changes may belong to is recalculated after it; a
\* recalculation about to read holds the lock, and about to write has read the rows as they are.
Backs(s, q, n, k) == AssetAt(s, k) # Null \/ HasMaker(q, n, k)
AheadAt(s, q, n) ==
    /\ q[n].op = "recalc" => Backs(s, q, n, q[n].k)
    /\ q[n].op = "insertTx" => Backs(s, q, n, KeyOf(q[n].r))
    /\ q[n].op \in {"updateTx", "deleteTx"} =>
           q[n].i < nextId /\ \A k \in Keys : BelongsTo(q[n].i, k) => HasRecalc(q, n, k)
    /\ n = 1 /\ q[n].op = "recalc" => assetLock[q[n].k] = s
    /\ q[n].op = "updatePos" => PosIs(s, q[n].k, q[n].pos)
Ahead(s, q) == \A n \in 1 .. Len(q) : AheadAt(s, q, n)

\* A transaction that s has written keeps its holding, and the holding is there.
Homes(s) == \A i \in Ids : IsTx(wtx[s][i]) =>
                /\ AssetAt(s, KeyOf(wtx[s][i])) # Null
                /\ txs[i] # Null => KeyOf(txs[i]) = KeyOf(wtx[s][i])

Local(s) ==
    /\ \A k \in Keys : wasset[s][k] # Null
    /\ Homes(s)
    /\ Ahead(s, todo[s])
    /\ \A k \in Keys : PosAhead(s, todo[s], k)
DerInv ==
    /\ AssetIsDerived
    /\ \A i \in Ids : txs[i] # Null => asset[KeyOf(txs[i])] # Null
    /\ \A s \in Slots : Local(s)

\* The requests that keep it: no edit of a symbol, of a timestamp alone or of a net deposit alone, and
\* no removal of an asset.
Derivable == Kinds \cap {"retoken", "retime", "net", "remove"} = {}

LEMMA EventsSame ==
    ASSUME NEW a \in [Ids -> TxRows \cup {Null}], NEW b \in [Ids -> TxRows \cup {Null}], NEW k \in Keys,
           \A i \in Ids : a[i] = b[i] \/ (~OfKey(a[i], k) /\ ~OfKey(b[i], k))
    PROVE  EventsOf(a, k) = EventsOf(b, k)
<1>1. \A r \in TxRows \cup {Null} : OfKey(r, k) <=> r # Null /\ r.pf = k[1] /\ r.tok = k[2]
    <2> SUFFICES ASSUME NEW r \in TxRows, r # Null PROVE KeyOf(r) = k <=> r.pf = k[1] /\ r.tok = k[2]
        BY DEF OfKey
    <2>1. KeyOf(r)[1] = r.pf /\ KeyOf(r)[2] = r.tok /\ KeyOf(r) = <<r.pf, r.tok>>  BY KeysAre DEF KeyOf
    <2>2. k = <<k[1], k[2]>>  BY KeysAre
    <2> QED BY <2>1, <2>2
<1>2. EventsOf(a, k) = {[id |-> i, row |-> a[i]] : i \in {j \in Ids : OfKey(a[j], k)}}
    BY <1>1 DEF EventsOf
<1>3. EventsOf(b, k) = {[id |-> i, row |-> b[i]] : i \in {j \in Ids : OfKey(b[j], k)}}
    BY <1>1 DEF EventsOf
<1>4. {j \in Ids : OfKey(a[j], k)} = {j \in Ids : OfKey(b[j], k)}  OBVIOUS
<1>5. \A i \in {j \in Ids : OfKey(a[j], k)} : a[i] = b[i]  OBVIOUS
<1> QED BY <1>2, <1>3, <1>4, <1>5

LEMMA DeriveSame ==
    ASSUME NEW lot, NEW a \in [Ids -> TxRows \cup {Null}], NEW b \in [Ids -> TxRows \cup {Null}], NEW k \in Keys,
           \A i \in Ids : a[i] = b[i] \/ (~OfKey(a[i], k) /\ ~OfKey(b[i], k))
    PROVE  Derive(lot, a, k) = Derive(lot, b, k)
<1>1. EventsOf(a, k) = EventsOf(b, k)  BY EventsSame
<1> QED BY <1>1 DEF Derive

\* The same for the rows a slot sees after a step.
LEMMA PosStays ==
    ASSUME TypeInv, TypeInv', NEW o \in Slots, NEW k \in Keys, NEW pos, PosIs(o, k, pos),
           assetLock'[k] = o, AssetAt(o, k)' = AssetAt(o, k),
           \A i \in Ids : TxAt(o, i)' = TxAt(o, i) \/ (~OfKey(TxAt(o, i), k) /\ ~OfKey(TxAt(o, i)', k))
    PROVE  PosIs(o, k, pos)'
<1>1. PICK a \in [Ids -> TxRows \cup {Null}] : a = Txs(o) /\ \A i \in Ids : a[i] = TxAt(o, i)  BY Views
<1>2. PICK b \in [Ids -> TxRows \cup {Null}] : b = Txs(o)' /\ \A i \in Ids : b[i] = TxAt(o, i)'
    <2> DEFINE b == [i \in Ids |-> IF wtx'[o][i] = Same THEN txs'[i] ELSE wtx'[o][i]]
    <2>1. Txs(o)' = b  BY DEF Txs, TxAt
    <2>2. \A i \in Ids : b[i] = TxAt(o, i)'  BY DEF TxAt
    <2>3. \A i \in Ids : b[i] \in TxRows \cup {Null}  BY DEF TypeInv
    <2>4. b \in [Ids -> TxRows \cup {Null}]  BY <2>3
    <2> QED BY <2>1, <2>2, <2>4
<1>3. \A i \in Ids : a[i] = b[i] \/ (~OfKey(a[i], k) /\ ~OfKey(b[i], k))  BY <1>1, <1>2
<1>4. \A lot : Derive(lot, a, k) = Derive(lot, b, k)  BY <1>3, DeriveSame
<1> QED BY <1>1, <1>2, <1>4 DEF PosIs

\* What a step of another slot must leave alone: the rows that o has locked, the holdings, and which
\* holdings a transaction belongs to.
Shrinks == nextId <= nextId' /\ \A i \in Ids, k \in Keys : i < nextId /\ BelongsTo(i, k)' => BelongsTo(i, k)
Spares(o) ==
    /\ \A k \in Keys : asset[k] # Null => asset'[k] # Null
    /\ \A k \in Keys : assetLock[k] = o =>
           /\ asset'[k] = asset[k]
           /\ \A i \in Ids : txs'[i] = txs[i] \/ (~OfKey(txs[i], k) /\ ~OfKey(txs'[i], k))
    /\ \A i \in Ids : txLock[i] = o => txs'[i] = txs[i]
    /\ Shrinks

\* The program of s after a step is q.
LEMMA LocalIs ==
    ASSUME NEW s \in Slots, NEW q, todo'[s] = q, \A k \in Keys : wasset'[s][k] # Null, Homes(s)',
           Ahead(s, q)', \A k \in Keys : PosAhead(s, q, k)'
    PROVE  Local(s)'
<1>1. Ahead(s, todo[s])'  BY DEF Ahead, AheadAt
<1>2. \A k \in Keys : PosAhead(s, todo[s], k)'  BY DEF PosAhead
<1> QED BY <1>1, <1>2 DEF Local

LEMMA DerOther ==
    ASSUME TypeInv, LockInv, TypeInv', NEW o \in Slots, Kept(o), Spares(o), Local(o)
    PROVE  Local(o)'
<1>0. PICK q : q = todo[o]  OBVIOUS
<1>1. /\ todo'[o] = q /\ wtx'[o] = wtx[o] /\ wasset'[o] = wasset[o]
      /\ \A k \in Keys : assetLock[k] = o => assetLock'[k] = o
    BY <1>0 DEF Kept
<1>2. \A i \in Ids : wtx[o][i] # Same => txs'[i] = txs[i]  BY DEF LockInv, Spares
<1>3. \A k \in Keys : AssetAt(o, k) # Null => AssetAt(o, k)' # Null  BY <1>1 DEF AssetAt, Spares
<1>4. \A k \in Keys : assetLock[k] = o => AssetAt(o, k)' = AssetAt(o, k)  BY <1>1 DEF AssetAt, Spares
<1>5. ASSUME NEW k \in Keys, NEW pos, PosIs(o, k, pos) PROVE PosIs(o, k, pos)'
    <2>1. assetLock[k] = o  BY <1>5 DEF PosIs
    <2>2. \A i \in Ids : TxAt(o, i)' = TxAt(o, i) \/ (~OfKey(TxAt(o, i), k) /\ ~OfKey(TxAt(o, i)', k))
        BY <1>1, <2>1 DEF TxAt, Spares
    <2> QED BY <1>1, <1>4, <1>5, <2>1, <2>2, PosStays
<1>6. Homes(o)'  BY <1>1, <1>2, <1>3, KeysAre DEF Homes, Local, TypeInv, IsTx
<1>7. ASSUME NEW n \in 1 .. Len(q) PROVE AheadAt(o, q, n)'
    <2>1. AheadAt(o, q, n)  BY <1>0 DEF Local, Ahead
    <2>2. /\ q[n].op \in {"recalc", "updatePos"} => q[n].k \in Keys
          /\ q[n].op = "insertTx" => KeyOf(q[n].r) \in Keys
          /\ q[n].op \in {"updateTx", "deleteTx"} => q[n].i \in Ids
        <3>1. q[n] \in Statements  BY <1>0 DEF TypeInv
        <3> QED BY <3>1, StatementIs, KeysAre DEF AssetOps
    <2>3. q[n].op = "recalc" => Backs(o, q, n, q[n].k)'  BY <1>3, <2>1, <2>2 DEF AheadAt, Backs
    <2>4. q[n].op = "insertTx" => Backs(o, q, n, KeyOf(q[n].r))'  BY <1>3, <2>1, <2>2 DEF AheadAt, Backs
    <2>5. q[n].op \in {"updateTx", "deleteTx"} =>
              q[n].i < nextId' /\ \A k \in Keys : BelongsTo(q[n].i, k)' => HasRecalc(q, n, k)
        <3> SUFFICES ASSUME q[n].op \in {"updateTx", "deleteTx"}
                     PROVE  q[n].i < nextId' /\ \A k \in Keys : BelongsTo(q[n].i, k)' => HasRecalc(q, n, k)
            OBVIOUS
        <3>1. PICK i \in Ids : i = q[n].i  BY <2>2
        <3>2. i < nextId /\ \A k \in Keys : BelongsTo(i, k) => HasRecalc(q, n, k)  BY <2>1, <3>1 DEF AheadAt
        <3>3. \A k \in Keys : BelongsTo(i, k)' => BelongsTo(i, k)  BY <3>2 DEF Spares, Shrinks
        <3>4. i < nextId'  BY <3>2 DEF Spares, Shrinks, TypeInv, Ids
        <3>5. \A k \in Keys : BelongsTo(q[n].i, k)' => BelongsTo(i, k)'  BY <3>1 DEF BelongsTo
        <3> QED BY <3>1, <3>2, <3>3, <3>4, <3>5
    <2>6. n = 1 /\ q[n].op = "recalc" => assetLock'[q[n].k] = o  BY <1>1, <2>1, <2>2 DEF AheadAt
    <2>7. q[n].op = "updatePos" => PosIs(o, q[n].k, q[n].pos)'  BY <1>5, <2>1, <2>2 DEF AheadAt
    <2> QED BY <2>3, <2>4, <2>5, <2>6, <2>7 DEF AheadAt
<1>8. ASSUME NEW k \in Keys PROVE PosAhead(o, q, k)'
    <2>1. PosAhead(o, q, k)  BY <1>0 DEF Local
    <2>2. Touched(o, k)' => Touched(o, k)  BY <1>1, <1>2 DEF Touched
    <2>3. PosIs(o, k, AssetAt(o, k).pos) => PosIs(o, k, AssetAt(o, k).pos)'
        <3> SUFFICES ASSUME PosIs(o, k, AssetAt(o, k).pos) PROVE PosIs(o, k, AssetAt(o, k).pos)'  OBVIOUS
        <3>1. AssetAt(o, k)' = AssetAt(o, k)  BY <1>4 DEF PosIs
        <3>2. PICK pos : pos = AssetAt(o, k).pos  OBVIOUS
        <3>3. PosIs(o, k, pos)'  BY <1>5, <3>2
        <3> QED BY <3>1, <3>2, <3>3 DEF PosIs
    <2> QED BY <2>1, <2>2, <2>3 DEF PosAhead
<1>9. \A k \in Keys : wasset'[o][k] # Null  BY <1>1 DEF Local
<1> QED BY <1>1, <1>6, <1>7, <1>8, <1>9, LocalIs DEF Ahead

\* A request that ends leaves nothing; one that begins knows what its program relies on.
LEMMA DerEnd ==
    ASSUME TypeInv, TypeInv', NEW s \in Slots, Ends(s)
    PROVE  Local(s)'
<1>1. /\ \A k \in Keys : wasset'[s][k] = Same
      /\ \A i \in Ids : wtx'[s][i] = Same
      /\ todo'[s] = <<>>
    BY EndsClean
<1>2. PICK q : q = <<>>  OBVIOUS
<1>3. \A n \in 1 .. Len(q) : FALSE  BY <1>2
<1>4. \A k \in Keys : wasset'[s][k] # Null  BY <1>1, RowsDiffer
<1>5. Homes(s)'  BY <1>1 DEF Homes, IsTx
<1>6. Ahead(s, q)'  BY <1>3 DEF Ahead
<1>7. \A k \in Keys : PosAhead(s, q, k)'  BY <1>1 DEF PosAhead, Touched
<1> QED BY <1>1, <1>2, <1>4, <1>5, <1>6, <1>7, LocalIs

LEMMA DerStart ==
    ASSUME Base, DerInv, Derivable, NEW s \in Slots, Starts(s)
    PROVE  Local(s)'
<1>1. PICK q : s \notin active /\ Fresh(q) /\ Begin(s, q)  BY DEF Starts
<1>2. TypeInv /\ LockInv  BY DEF Base
<1>3. /\ todo' = [todo EXCEPT ![s] = q] /\ UNCHANGED <<dbVars, nextId, wtx, wasset, lockVars>>
    BY <1>1 DEF Begin
<1>4. todo'[s] = q  BY <1>2, <1>3 DEF TypeInv
<1>5. /\ \A k \in Keys : wasset'[s][k] = Same
      /\ \A i \in Ids : wtx'[s][i] = Same
    BY <1>1, <1>3, IdleClean
<1>6. \A k \in Keys : AssetAt(s, k)' = asset[k]  BY <1>3, <1>5 DEF AssetAt, dbVars
<1>7. \A i \in Ids, k \in Keys : BelongsTo(i, k)' => BelongsTo(i, k)  BY <1>3 DEF BelongsTo, dbVars
<1>8. \A i \in Ids : txs[i] # Null => txs[i] \in TxRows /\ asset[KeyOf(txs[i])] # Null
    BY <1>2 DEF TypeInv, DerInv
<1>9. \A n, k : Backed(q, n, k) /\ k \in Keys => Backs(s, q, n, k)'
    BY <1>6, <1>8 DEF Backed, Backs
<1>10. ASSUME NEW n \in 1 .. Len(q) PROVE AheadAt(s, q, n)'
    <2>1. FreshAt(q, n) /\ q[n] \in Statements  BY <1>1 DEF Fresh
    <2>2. /\ q[n].op = "recalc" => q[n].k \in Keys
          /\ q[n].op = "insertTx" => KeyOf(q[n].r) \in Keys
          /\ q[n].op \in {"updateTx", "deleteTx"} => q[n].i \in Ids
        BY <2>1, StatementIs, KeysAre DEF AssetOps
    <2>3. /\ q[n].op = "recalc" => n # 1 /\ Backs(s, q, n, q[n].k)'
          /\ q[n].op = "insertTx" => Backs(s, q, n, KeyOf(q[n].r))'
          /\ q[n].op # "updatePos"
        BY <1>9, <2>1, <2>2 DEF FreshAt
    <2>4. q[n].op \in {"updateTx", "deleteTx"} =>
              q[n].i < nextId' /\ \A k \in Keys : BelongsTo(q[n].i, k)' => HasRecalc(q, n, k)
        <3> SUFFICES ASSUME q[n].op \in {"updateTx", "deleteTx"}
                     PROVE  q[n].i < nextId' /\ \A k \in Keys : BelongsTo(q[n].i, k)' => HasRecalc(q, n, k)
            OBVIOUS
        <3>1. PICK i \in Ids : i = q[n].i  BY <2>2
        <3>2. txs[i] # Null /\ HasRecalc(q, n, KeyOf(txs[i]))  BY <2>1, <3>1 DEF FreshAt, Derivable
        <3>3. \A k \in Keys : BelongsTo(i, k) => k = KeyOf(txs[i])
            BY <3>2 DEF BelongsTo, OfKey, DerInv, Local, Homes
        <3>4. i < nextId'  BY <1>2, <1>3, <3>2 DEF LockInv, TypeInv, Ids
        <3>5. \A k \in Keys : BelongsTo(q[n].i, k)' => BelongsTo(i, k)'  BY <3>1 DEF BelongsTo
        <3> QED BY <1>7, <3>1, <3>2, <3>3, <3>4, <3>5
    <2> QED BY <2>3, <2>4 DEF AheadAt
<1>11. \A k \in Keys : wasset'[s][k] # Null  BY <1>5, RowsDiffer
<1>12. Homes(s)'  BY <1>5 DEF Homes, IsTx
<1>13. \A k \in Keys : PosAhead(s, q, k)'  BY <1>5 DEF PosAhead, Touched
<1> QED BY <1>4, <1>10, <1>11, <1>12, <1>13, LocalIs DEF Ahead

\* A statement has run: what the ones after it rely on is still so.
LEMMA TailAhead ==
    ASSUME TypeInv, TypeInv', NEW s \in Slots, NEW q \in Seq(Statements), q # <<>>, Good(q), Ahead(s, q), Shrinks,
           \A k \in Keys : AssetAt(s, k) # Null => AssetAt(s, k)' # Null,
           q[1].op \in {"createAsset", "ensureAsset"} => AssetAt(s, q[1].k)' # Null,
           q[1].op = "lock" /\ AssetAt(s, q[1].k) # Null => assetLock'[q[1].k] = s
    PROVE  Ahead(s, Tail(q))'
<1>1. PICK r : r = Tail(q)  OBVIOUS
<1>2. r \in Seq(Statements) /\ Len(r) \in Nat /\ Len(q) \in Nat /\ Len(r) = Len(q) - 1  BY <1>1, TailIs
<1>3. \A n \in 1 .. Len(r) : r[n] = q[n + 1]  BY <1>1, <1>2, TailIs
<1>4. ASSUME NEW n \in 1 .. Len(r) PROVE AheadAt(s, r, n)'
    <2>1. n \in Nat /\ n + 1 \in 1 .. Len(q) /\ n + 1 # 1  BY <1>2
    <2>2. r[n] = q[n + 1] /\ AheadAt(s, q, n + 1) /\ GoodAt(q, n + 1)  BY <1>3, <2>1 DEF Ahead, Good
    <2>3. /\ r[n].op \in {"recalc", "updatePos"} => r[n].k \in Keys
          /\ r[n].op = "insertTx" => KeyOf(r[n].r) \in Keys
          /\ r[n].op \in {"updateTx", "deleteTx"} => r[n].i \in Ids
        <3>1. r[n] \in Statements  BY <1>2
        <3> QED BY <3>1, StatementIs, KeysAre DEF AssetOps
    <2>4. \A k : HasRecalc(q, n + 1, k) => HasRecalc(r, n, k)  BY <1>1, <2>1, TailHas
    <2>5. \A k : HasMaker(q, n + 1, k) =>
                     HasMaker(r, n, k) \/ (q[1].op \in {"createAsset", "ensureAsset"} /\ q[1].k = k)
        BY <1>1, <2>1, TailHas
    <2>6. \A k \in Keys : Backs(s, q, n + 1, k) => Backs(s, r, n, k)'  BY <2>5 DEF Backs
    <2>7. /\ r[n].op = "recalc" => Backs(s, r, n, r[n].k)'
          /\ r[n].op = "insertTx" => Backs(s, r, n, KeyOf(r[n].r))'
          /\ r[n].op # "updatePos"
        BY <2>1, <2>2, <2>3, <2>6 DEF AheadAt, GoodAt
    <2>8. r[n].op \in {"updateTx", "deleteTx"} =>
              r[n].i < nextId' /\ \A k \in Keys : BelongsTo(r[n].i, k)' => HasRecalc(r, n, k)
        <3> SUFFICES ASSUME r[n].op \in {"updateTx", "deleteTx"}
                     PROVE  r[n].i < nextId' /\ \A k \in Keys : BelongsTo(r[n].i, k)' => HasRecalc(r, n, k)
            OBVIOUS
        <3>1. PICK i \in Ids : i = r[n].i  BY <2>3
        <3>2. i < nextId /\ \A k \in Keys : BelongsTo(i, k) => HasRecalc(q, n + 1, k)
            BY <2>2, <3>1 DEF AheadAt
        <3>3. \A k \in Keys : BelongsTo(i, k)' => BelongsTo(i, k)  BY <3>2 DEF Shrinks
        <3>4. i < nextId'  BY <3>2 DEF Shrinks, TypeInv, Ids
        <3>5. \A k \in Keys : BelongsTo(r[n].i, k)' => BelongsTo(i, k)'  BY <3>1 DEF BelongsTo
        <3> QED BY <2>4, <3>1, <3>2, <3>3, <3>4, <3>5
    <2>9. n = 1 /\ r[n].op = "recalc" => assetLock'[r[n].k] = s
        <3> SUFFICES ASSUME n = 1, r[n].op = "recalc" PROVE assetLock'[r[n].k] = s  OBVIOUS
        <3>1. PICK m : m = n + 1  OBVIOUS
        <3>2. m = 2 /\ m - 1 = 1 /\ m > 1  BY <3>1
        <3>3. q[1].op = "lock" /\ q[1].k = r[n].k  BY <2>2, <3>1, <3>2 DEF GoodAt
        <3>4. ~HasMaker(q, m, r[n].k)
            <4> SUFFICES ASSUME NEW j \in 1 .. Len(q), j < m, q[j].op \in {"createAsset", "ensureAsset"} PROVE FALSE
                BY DEF HasMaker
            <4>1. j = 1  BY <3>2
            <4> QED BY <3>3, <4>1
        <3>5. AssetAt(s, r[n].k) # Null  BY <2>2, <3>1, <3>4 DEF AheadAt, Backs
        <3> QED BY <3>3, <3>5
    <2> QED BY <2>7, <2>8, <2>9 DEF AheadAt
<1> QED BY <1>1, <1>4 DEF Ahead

LEMMA RecalcLater ==
    ASSUME NEW q \in Seq(Statements), q # <<>>, NEW k, HasRecalc(q, 0, k), q[1].op # "recalc" \/ q[1].k # k
    PROVE  HasRecalc(q, 1, k) /\ HasRecalc(Tail(q), 0, k)
<1>1. PICK m \in 1 .. Len(q) : m > 0 /\ q[m].op = "recalc" /\ q[m].k = k  BY DEF HasRecalc
<1>2. m > 1  BY <1>1
<1>3. HasRecalc(q, 1, k)  BY <1>1, <1>2 DEF HasRecalc
<1>4. 0 \in Nat /\ 0 + 1 = 1  OBVIOUS
<1>5. HasRecalc(q, 0 + 1, k) => HasRecalc(Tail(q), 0, k)  BY <1>4, TailHas
<1> QED BY <1>3, <1>5

\* What s has derived for k stays while it writes nothing of k.
LEMMA PosOwn ==
    ASSUME TypeInv, TypeInv', NEW s \in Slots, NEW k \in Keys, NEW q, NEW r, PosAhead(s, q, k),
           HasRecalc(q, 0, k) \/ Heads(q, k) => HasRecalc(r, 0, k) \/ Heads(r, k),
           wasset'[s][k] = wasset[s][k], asset' = asset, txs' = txs,
           \A i \in Ids : \/ wtx'[s][i] = wtx[s][i]
                          \/ ~OfKey(txs[i], k) /\ ~OfKey(wtx'[s][i], k) /\ ~OfKey(TxAt(s, i), k),
           assetLock[k] = s => assetLock'[k] = s
    PROVE  PosAhead(s, r, k)'
<1>1. Touched(s, k)' => Touched(s, k)  BY DEF Touched
<1>2. AssetAt(s, k)' = AssetAt(s, k)  BY DEF AssetAt
<1>3. \A i \in Ids : TxAt(s, i)' = TxAt(s, i) \/ (~OfKey(TxAt(s, i), k) /\ ~OfKey(TxAt(s, i)', k))
    BY DEF TxAt
<1>4. ASSUME PosIs(s, k, AssetAt(s, k).pos) PROVE PosIs(s, k, AssetAt(s, k).pos)'
    <2>1. PICK pos : pos = AssetAt(s, k).pos  OBVIOUS
    <2>2. assetLock'[k] = s  BY <1>4 DEF PosIs
    <2>3. PosIs(s, k, pos)'  BY <1>2, <1>3, <1>4, <2>1, <2>2, PosStays
    <2> QED BY <1>2, <2>1, <2>3 DEF PosIs
<1> QED BY <1>1, <1>4 DEF PosAhead

\* Nothing is written.
LEMMA ReadViews ==
    ASSUME TypeInv, NEW s \in Slots, NEW r, Reads(s, r)
    PROVE  /\ todo'[s] = r /\ txs' = txs /\ asset' = asset /\ wtx' = wtx /\ wasset' = wasset /\ Shrinks
           /\ \A k : AssetAt(s, k)' = AssetAt(s, k)
           /\ \A i : TxAt(s, i)' = TxAt(s, i)
<1>1. todo'[s] = r /\ txs' = txs /\ asset' = asset /\ wtx' = wtx /\ wasset' = wasset /\ nextId' = nextId
    BY DEF Reads, dbVars, workVars, TypeInv
<1>2. Shrinks  BY <1>1 DEF Shrinks, BelongsTo, TypeInv
<1> QED BY <1>1, <1>2 DEF AssetAt, TxAt

LEMMA DerRead ==
    ASSUME TypeInv, TypeInv', NEW s \in Slots, NEW r, Reads(s, r), Local(s),
           \A k \in Keys : assetLock[k] = s => assetLock'[k] = s,
           \A k \in Keys : HasRecalc(todo[s], 0, k) \/ Heads(todo[s], k) => HasRecalc(r, 0, k) \/ Heads(r, k),
           Ahead(s, r)'
    PROVE  Local(s)'
<1>1. PICK q : q = todo[s]  OBVIOUS
<1>2. todo'[s] = r /\ txs' = txs /\ asset' = asset /\ wtx' = wtx /\ wasset' = wasset  BY ReadViews
<1>3. \A k \in Keys : PosAhead(s, r, k)'
    <2> SUFFICES ASSUME NEW k \in Keys PROVE PosAhead(s, r, k)'  OBVIOUS
    <2>1. PosAhead(s, q, k)  BY <1>1 DEF Local
    <2> QED BY <1>1, <1>2, <2>1, PosOwn
<1>4. \A k \in Keys : wasset'[s][k] # Null  BY <1>2 DEF Local
<1>5. Homes(s)'  BY <1>2 DEF Homes, Local, AssetAt
<1> QED BY <1>2, <1>3, <1>4, <1>5, LocalIs

\* A holding that is there stays, without the removal of assets.
LEMMA HeldRow ==
    ASSUME NEW s \in Slots, \A k \in Keys : wasset[s][k] # Null, NEW k \in Keys, asset[k] # Null
    PROVE  AssetAt(s, k) # Null
BY DEF AssetAt

\* The head of the program of s, and what holds of it.
LEMMA HeadIs ==
    ASSUME Base, NEW s \in Slots, Local(s), NEW st, Facing(s, st)
    PROVE  \E q \in Seq(Statements) : /\ q = todo[s] /\ q # <<>> /\ Good(q) /\ st = q[1] /\ st \in Statements
                                      /\ GoodAt(q, 1) /\ Ahead(s, q) /\ AheadAt(s, q, 1)
                                      /\ \A k : ~HasMaker(q, 1, k)
<1>1. PICK q \in Seq(Statements) : q = todo[s] /\ q # <<>> /\ Good(q) /\ st = q[1] /\ st \in Statements
    BY TailProgram
<1>2. 1 \in 1 .. Len(q)  BY <1>1, TailIs
<1>3. Ahead(s, q)  BY <1>1 DEF Local
<1>4. \A k : ~HasMaker(q, 1, k)  BY DEF HasMaker
<1> QED BY <1>1, <1>2, <1>3, <1>4 DEF Good, Ahead

LEMMA DerLock ==
    ASSUME Base, TypeInv', NEW s \in Slots, Local(s), NEW st, Facing(s, st), Locks(s, st)
    PROVE  Local(s)'
<1>1. PICK q \in Seq(Statements) : /\ q = todo[s] /\ q # <<>> /\ Good(q) /\ st = q[1] /\ st \in Statements
                                   /\ Ahead(s, q)
    BY HeadIs
<1>2. TypeInv  BY DEF Base
<1>3. st.op = "lock" /\ Reads(s, Tail(q)) /\ st.k \in Keys
    BY <1>1, StatementIs DEF Locks, AssetOps
<1>4. PICK r : r = Tail(q)  OBVIOUS
<1>5. Shrinks /\ \A k : AssetAt(s, k)' = AssetAt(s, k)  BY <1>2, <1>3, ReadViews
<1>6. /\ AssetAt(s, st.k) # Null => assetLock'[st.k] = s
      /\ \A k \in Keys : assetLock[k] = s => assetLock'[k] = s
    BY <1>2, <1>3 DEF Locks, TypeInv
<1>7. Ahead(s, Tail(q))'  BY <1>1, <1>2, <1>3, <1>5, <1>6, TailAhead
<1>8. Ahead(s, r)'  BY <1>4, <1>7
<1>9. \A k \in Keys : HasRecalc(q, 0, k) \/ Heads(q, k) => HasRecalc(r, 0, k)
    BY <1>1, <1>3, <1>4, RecalcLater DEF Heads
<1> QED BY <1>1, <1>2, <1>3, <1>4, <1>6, <1>8, <1>9, DerRead

LEMMA DerPass ==
    ASSUME Base, TypeInv', NEW s \in Slots, Local(s), NEW st, Facing(s, st), Passes(s, st)
    PROVE  Local(s)'
<1>1. PICK q \in Seq(Statements) : /\ q = todo[s] /\ q # <<>> /\ Good(q) /\ st = q[1] /\ st \in Statements
                                   /\ Ahead(s, q) /\ AheadAt(s, q, 1) /\ \A k : ~HasMaker(q, 1, k)
    BY HeadIs
<1>2. TypeInv  BY DEF Base
<1>3. Reads(s, Tail(q)) /\ assetLock' = assetLock  BY <1>1 DEF Passes
<1>4. PICK r : r = Tail(q)  OBVIOUS
<1>5. Shrinks /\ \A k : AssetAt(s, k)' = AssetAt(s, k)  BY <1>2, <1>3, ReadViews
<1>6. st.op \in {"check", "ensureAsset"} /\ AssetAt(s, st.k) # Null
    BY <1>1 DEF Passes, AheadAt, Backs, PosIs
<1>7. Ahead(s, Tail(q))'  BY <1>1, <1>2, <1>3, <1>5, <1>6, TailAhead
<1>8. Ahead(s, r)'  BY <1>4, <1>7
<1>9. \A k \in Keys : HasRecalc(q, 0, k) \/ Heads(q, k) => HasRecalc(r, 0, k)
    BY <1>1, <1>4, <1>6, RecalcLater DEF Heads
<1> QED BY <1>1, <1>2, <1>3, <1>4, <1>8, <1>9, DerRead

LEMMA DerCarry ==
    ASSUME Base, TypeInv', NEW s \in Slots, Local(s), NEW st, Facing(s, st), Carries(s, st)
    PROVE  Local(s)'
<1>1. PICK q \in Seq(Statements) : /\ q = todo[s] /\ q # <<>> /\ Good(q) /\ st = q[1] /\ st \in Statements
                                   /\ GoodAt(q, 1)
    BY HeadIs
<1>2. TypeInv  BY DEF Base
<1>3. PICK r \in Seq(Statements) : r = CarryProgram(s, st) /\ Reads(s, r)  BY <1>2, CarryOps DEF Carries
<1>4. st.op = "carry" /\ AssetAt(s, st.k) # Null /\ assetLock' = assetLock  BY DEF Carries
<1>5. \A k : AssetAt(s, k)' = AssetAt(s, k)  BY <1>2, <1>3, ReadViews
<1>6. PICK d : d = <<st.d, st.k[2]>>  OBVIOUS
<1>7. /\ Len(r) = 9
      /\ r[1].op = "ensureAsset" /\ r[1].k = d
      /\ r[2].op = "insertTx" /\ KeyOf(r[2].r) = st.k
      /\ r[3].op = "insertTx" /\ KeyOf(r[3].r) = d
      /\ r[4].op = "lock" /\ r[5].op = "recalc" /\ r[5].k = st.k
      /\ r[6].op = "sum" /\ r[7].op = "lock" /\ r[8].op = "recalc" /\ r[8].k = d /\ r[9].op = "sum"
    BY <1>2, <1>3, <1>6, CarryOps
<1>8. \A n \in 1 .. 9 : n > 1 => HasMaker(r, n, d)  BY <1>7 DEF HasMaker
<1>9. ASSUME NEW n \in 1 .. Len(r) PROVE AheadAt(s, r, n)'
    <2>1. n \in {1, 2, 3, 4, 5, 6, 7, 8, 9}  BY <1>7
    <2>2. r[n].op = "recalc" => Backs(s, r, n, r[n].k)' /\ n # 1
        BY <1>4, <1>5, <1>7, <1>8, <2>1 DEF Backs
    <2>3. r[n].op = "insertTx" => Backs(s, r, n, KeyOf(r[n].r))'
        BY <1>4, <1>5, <1>7, <1>8, <2>1 DEF Backs
    <2>4. r[n].op \notin {"updateTx", "deleteTx", "updatePos"}  BY <1>7, <2>1
    <2> QED BY <2>2, <2>3, <2>4 DEF AheadAt
<1>10. \A m \in 1 .. Len(q) : q[m].op \in {"lock", "carry"}  BY <1>1, <1>4 DEF GoodAt
<1>11. \A k \in Keys : ~HasRecalc(q, 0, k) /\ ~Heads(q, k)  BY <1>1, <1>4, <1>10 DEF HasRecalc, Heads
<1>12. Ahead(s, r)'  BY <1>9 DEF Ahead
<1> QED BY <1>1, <1>2, <1>3, <1>4, <1>11, <1>12, DerRead

LEMMA DerTurn ==
    ASSUME Base, TypeInv', NEW s \in Slots, Local(s), NEW st, Facing(s, st), NEW new, Turns(s, st, new)
    PROVE  Local(s)'
<1>1. PICK q \in Seq(Statements) : /\ q = todo[s] /\ q # <<>> /\ Good(q) /\ st = q[1] /\ st \in Statements
                                   /\ Ahead(s, q) /\ AheadAt(s, q, 1)
    BY HeadIs
<1>2. TypeInv  BY DEF Base
<1>3. /\ st.k \in Keys /\ new \in Statements /\ new.k = st.k
      /\ \/ st.op = "ensureAsset" /\ new.op = "createAsset"
         \/ /\ st.op = "recalc" /\ new.op = "updatePos"
            /\ AssetAt(s, st.k) \in AssetRows /\ new.pos = Derive(AssetAt(s, st.k).lot, Txs(s), st.k)
    BY TurnIs
<1>4. PICK r \in Seq(Statements) : r = [q EXCEPT ![1] = new] /\ Reads(s, r)  BY <1>1, TurnIs DEF Turns
<1>5. assetLock' = assetLock  BY DEF Turns
<1>6. /\ Shrinks /\ \A k : AssetAt(s, k)' = AssetAt(s, k)
      /\ \A i : TxAt(s, i)' = TxAt(s, i)
    BY <1>2, <1>4, ReadViews
<1>7. /\ Len(r) = Len(q) /\ Len(q) \in Nat /\ r[1] = new /\ \A n \in 2 .. Len(q) : r[n] = q[n]
      /\ 1 \in 1 .. Len(q)
    BY <1>1, <1>3, <1>4, InsteadIs
<1>8. \A n \in 1 .. Len(q) : \A k : HasRecalc(q, n, k) <=> HasRecalc(r, n, k)
    BY <1>1, <1>3, <1>4, InsteadHas
<1>9. \A n \in 1 .. Len(q) : \A k : HasMaker(q, n, k) => HasMaker(r, n, k)
    BY <1>1, <1>3, <1>4, InsteadHas
<1>10. ASSUME NEW k \in Keys, NEW pos, PosIs(s, k, pos) PROVE PosIs(s, k, pos)'
    <2>1. assetLock'[k] = s /\ AssetAt(s, k)' = AssetAt(s, k)  BY <1>5, <1>6, <1>10 DEF PosIs
    <2> QED BY <1>2, <1>6, <1>10, <2>1, PosStays
<1>11. ASSUME NEW n \in 1 .. Len(r), n # 1 PROVE AheadAt(s, r, n)'
    <2>1. n \in 2 .. Len(q) /\ n \in 1 .. Len(q)  BY <1>7, <1>11
    <2>2. r[n] = q[n] /\ AheadAt(s, q, n) /\ GoodAt(q, n)  BY <1>1, <1>7, <2>1 DEF Ahead, Good
    <2>3. r[n] \in Statements  OBVIOUS
    <2>4. /\ r[n].op = "recalc" => Backs(s, r, n, r[n].k)'
          /\ r[n].op = "insertTx" => Backs(s, r, n, KeyOf(r[n].r))'
          /\ r[n].op # "updatePos"
        BY <1>6, <1>9, <1>11, <2>1, <2>2 DEF AheadAt, Backs, GoodAt
    <2>5. r[n].op \in {"updateTx", "deleteTx"} =>
              r[n].i < nextId' /\ \A k \in Keys : BelongsTo(r[n].i, k)' => HasRecalc(r, n, k)
        <3> SUFFICES ASSUME r[n].op \in {"updateTx", "deleteTx"}
                     PROVE  r[n].i < nextId' /\ \A k \in Keys : BelongsTo(r[n].i, k)' => HasRecalc(r, n, k)
            OBVIOUS
        <3>1. PICK i \in Ids : i = r[n].i  BY <2>3, StatementIs
        <3>2. i < nextId /\ \A k \in Keys : BelongsTo(i, k) => HasRecalc(q, n, k)
            BY <2>2, <3>1 DEF AheadAt
        <3>3. \A k \in Keys : BelongsTo(i, k)' => BelongsTo(i, k)  BY <1>6, <3>2 DEF Shrinks
        <3>4. i < nextId'  BY <1>2, <1>6, <3>2 DEF Shrinks, TypeInv, Ids
        <3>5. \A k \in Keys : BelongsTo(r[n].i, k)' => BelongsTo(i, k)'  BY <3>1 DEF BelongsTo
        <3> QED BY <1>8, <2>1, <3>1, <3>2, <3>3, <3>4, <3>5
    <2> QED BY <1>11, <2>4, <2>5 DEF AheadAt
<1>12. AheadAt(s, r, 1)'
    <2>1. CASE new.op = "createAsset"  BY <1>7, <2>1 DEF AheadAt
    <2>2. CASE new.op = "updatePos"
        <3>1. /\ st.op = "recalc" /\ AssetAt(s, st.k) # Null
              /\ new.pos = Derive(AssetAt(s, st.k).lot, Txs(s), st.k)
            BY <1>3, <2>2, RowsDiffer
        <3>2. PosIs(s, new.k, new.pos)  BY <1>1, <1>3, <3>1 DEF AheadAt, PosIs
        <3>3. PosIs(s, new.k, new.pos)'  BY <1>3, <1>10, <3>2
        <3> QED BY <1>7, <2>2, <3>3 DEF AheadAt
    <2> QED BY <1>3, <2>1, <2>2
<1>13. Ahead(s, r)'  BY <1>11, <1>12 DEF Ahead
<1>14. ASSUME NEW k \in Keys, HasRecalc(q, 0, k) \/ Heads(q, k) PROVE HasRecalc(r, 0, k) \/ Heads(r, k)
    <2>1. HasRecalc(q, 0, k) /\ r # <<>>  BY <1>1, <1>3, <1>7, <1>14 DEF Heads
    <2>2. CASE st.op = "recalc" /\ st.k = k  BY <1>3, <1>7, <2>1, <2>2 DEF Heads
    <2>3. CASE ~(st.op = "recalc" /\ st.k = k)
        <3>1. HasRecalc(q, 1, k)  BY <1>1, <2>1, <2>3, RecalcLater
        <3>2. HasRecalc(r, 1, k)  BY <1>7, <1>8, <3>1
        <3>3. HasRecalc(r, 0, k)  BY <3>2 DEF HasRecalc
        <3> QED BY <3>3
    <2> QED BY <2>2, <2>3
<1> QED BY <1>1, <1>2, <1>4, <1>5, <1>13, <1>14, DerRead

LEMMA DerSum ==
    ASSUME Base, TypeInv', NEW s \in Slots, Local(s), NEW st, Facing(s, st), Sums(s, st)
    PROVE  Local(s)'
<1>1. PICK q \in Seq(Statements) : /\ q = todo[s] /\ q # <<>> /\ Good(q) /\ st = q[1] /\ st \in Statements
                                   /\ Ahead(s, q)
    BY HeadIs
<1>2. TypeInv  BY DEF Base
<1>3. PICK r : r = Tail(q)  OBVIOUS
<1>4. /\ st.op = "sum" /\ todo'[s] = r /\ txs' = txs /\ asset' = asset /\ wtx' = wtx /\ wasset' = wasset
      /\ nextId' = nextId /\ assetLock' = assetLock
    BY <1>1, <1>2, <1>3 DEF Sums, dbVars, TypeInv
<1>5. Shrinks  BY <1>2, <1>4 DEF Shrinks, BelongsTo, TypeInv
<1>6. \A k : AssetAt(s, k)' = AssetAt(s, k)  BY <1>4 DEF AssetAt
<1>7. Ahead(s, Tail(q))'  BY <1>1, <1>2, <1>4, <1>5, <1>6, TailAhead
<1>8. Ahead(s, r)'  BY <1>3, <1>7
<1>9. ASSUME NEW k \in Keys PROVE PosAhead(s, r, k)'
    <2>1. HasRecalc(q, 0, k) \/ Heads(q, k) => HasRecalc(r, 0, k)
        BY <1>1, <1>3, <1>4, RecalcLater DEF Heads
    <2>2. PosAhead(s, q, k)  BY <1>1 DEF Local
    <2> QED BY <1>2, <1>4, <2>1, <2>2, PosOwn
<1>10. \A k \in Keys : wasset'[s][k] # Null  BY <1>4 DEF Local
<1>11. Homes(s)'  BY <1>4 DEF Homes, Local, AssetAt
<1> QED BY <1>4, <1>8, <1>9, <1>10, <1>11, LocalIs

LEMMA DerAsset ==
    ASSUME Base, TypeInv', Derivable, NEW s \in Slots, Local(s), NEW st, Facing(s, st), NEW v, WritesAsset(s, st, v)
    PROVE  Local(s)'
<1>1. PICK q \in Seq(Statements) : /\ q = todo[s] /\ q # <<>> /\ Good(q) /\ st = q[1] /\ st \in Statements
                                   /\ GoodAt(q, 1) /\ Ahead(s, q) /\ AheadAt(s, q, 1)
    BY HeadIs
<1>2. TypeInv  BY DEF Base
<1>3. PICK r : r = Tail(q)  OBVIOUS
<1>4. PICK c \in Keys : c = st.k  BY <1>2, AssetWritten
<1>5. st.op \in {"createAsset", "updateLot", "updatePos"}
    BY <1>1 DEF GoodAt, Derivable, WritesAsset
<1>6. v \in AssetRows /\ v # Null /\ v # Same  BY <1>2, <1>5, AssetWritten, RowsDiffer
<1>7. /\ todo'[s] = r /\ txs' = txs /\ asset' = asset /\ wtx' = wtx
      /\ wasset' = [wasset EXCEPT ![s][c] = v] /\ assetLock' = [assetLock EXCEPT ![c] = s] /\ nextId' = nextId
    BY <1>1, <1>2, <1>3, <1>4 DEF WritesAsset, WriteAsset, dbVars, TypeInv
<1>8. /\ wasset'[s][c] = v /\ \A k \in Keys : k # c => wasset'[s][k] = wasset[s][k]
      /\ assetLock'[c] = s /\ \A k \in Keys : k # c => assetLock'[k] = assetLock[k]
    BY <1>2, <1>7 DEF TypeInv
<1>9. AssetAt(s, c)' = v /\ \A k \in Keys : k # c => AssetAt(s, k)' = AssetAt(s, k)
    BY <1>6, <1>7, <1>8 DEF AssetAt
<1>10. Shrinks  BY <1>2, <1>7 DEF Shrinks, BelongsTo, TypeInv
<1>11. \A i : TxAt(s, i)' = TxAt(s, i)  BY <1>7 DEF TxAt
<1>12. \A k \in Keys : AssetAt(s, k) # Null => AssetAt(s, k)' # Null  BY <1>6, <1>9
<1>13. AssetAt(s, q[1].k)' # Null
    <2>1. AssetAt(s, q[1].k)' = AssetAt(s, c)'  BY <1>1, <1>4 DEF AssetAt
    <2> QED BY <1>6, <1>9, <2>1
<1>14. Ahead(s, Tail(q))'  BY <1>1, <1>2, <1>5, <1>10, <1>12, <1>13, TailAhead
<1>15. Ahead(s, r)'  BY <1>3, <1>14
<1>16. ASSUME NEW k \in Keys, k # c PROVE PosAhead(s, r, k)'
    <2>1. HasRecalc(q, 0, k) \/ Heads(q, k) => HasRecalc(r, 0, k)
        BY <1>1, <1>3, <1>4, <1>5, <1>16, RecalcLater DEF Heads
    <2>2. PosAhead(s, q, k)  BY <1>1 DEF Local
    <2> QED BY <1>2, <1>7, <1>8, <1>16, <2>1, <2>2, PosOwn
<1>17. PosAhead(s, r, c)'
    <2>1. CASE st.op \in {"createAsset", "updateLot"}
        <3>1. HasRecalc(q, 1, c)  BY <1>1, <1>4, <2>1 DEF GoodAt
        <3>2. 0 \in Nat /\ 0 + 1 = 1  OBVIOUS
        <3>3. HasRecalc(q, 0 + 1, c) => HasRecalc(r, 0, c)  BY <1>1, <1>3, <3>2, TailHas
        <3> QED BY <3>1, <3>2, <3>3 DEF PosAhead
    <2>2. CASE st.op = "updatePos"
        <3>1. PosIs(s, c, st.pos)  BY <1>1, <1>4, <2>2 DEF AheadAt
        <3>2. PICK row \in AssetRows : row = AssetAt(s, c)  BY <1>4, <1>6, <2>2, <1>2, AssetWritten
        <3>3. v.pos = st.pos /\ v.lot = row.lot  BY <1>2, <1>4, <2>2, <3>2, AssetWritten
        <3>4. Txs(s)' = Txs(s)  BY <1>7 DEF Txs, TxAt
        <3>5. v.pos = Derive(v.lot, Txs(s)', c)  BY <3>1, <3>2, <3>3, <3>4 DEF PosIs
        <3>6. PosIs(s, c, AssetAt(s, c).pos)'  BY <1>6, <1>8, <1>9, <3>5 DEF PosIs
        <3> QED BY <3>6 DEF PosAhead
    <2> QED BY <1>5, <2>1, <2>2
<1>18. \A k \in Keys : wasset'[s][k] # Null  BY <1>6, <1>8 DEF Local
<1>19. Homes(s)'
    <2> SUFFICES ASSUME NEW i \in Ids, IsTx(wtx[s][i])
                 PROVE  /\ AssetAt(s, KeyOf(wtx[s][i]))' # Null
                        /\ txs[i] # Null => KeyOf(txs[i]) = KeyOf(wtx[s][i])
        BY <1>7 DEF Homes
    <2>1. wtx[s][i] \in TxRows  BY <1>2 DEF TypeInv, IsTx
    <2>2. PICK k \in Keys : k = KeyOf(wtx[s][i])  BY <2>1, KeysAre
    <2>3. AssetAt(s, k) # Null /\ (txs[i] # Null => KeyOf(txs[i]) = k)  BY <2>2 DEF Local, Homes
    <2>4. AssetAt(s, k)' # Null  BY <1>12, <2>3
    <2>5. AssetAt(s, KeyOf(wtx[s][i]))' = AssetAt(s, k)'  BY <1>7, <2>2 DEF AssetAt
    <2> QED BY <2>2, <2>3, <2>4, <2>5
<1> QED BY <1>7, <1>15, <1>16, <1>17, <1>18, <1>19, LocalIs

\* The transaction i of the holding c is inserted, changed or deleted by s.
LEMMA DerTx ==
    ASSUME Base, TypeInv', DerInv, Derivable, NEW s \in Slots, NEW st, Facing(s, st),
           NEW i, NEW v, WritesTx(s, st, i, v)
    PROVE  Local(s)' /\ Shrinks
<1>0. Local(s) /\ TypeInv /\ LockInv  BY DEF DerInv, Base
<1>1. PICK q \in Seq(Statements) : /\ q = todo[s] /\ q # <<>> /\ Good(q) /\ st = q[1] /\ st \in Statements
                                   /\ GoodAt(q, 1) /\ Ahead(s, q) /\ AheadAt(s, q, 1)
                                   /\ \A k : ~HasMaker(q, 1, k)
    BY <1>0, HeadIs
<1>2. PICK r : r = Tail(q)  OBVIOUS
<1>3. i \in Ids /\ v \in TxRows \cup {Null} /\ v # Same  BY <1>0, TxWritten, RowsDiffer
<1>4. /\ todo'[s] = r /\ txs' = txs /\ asset' = asset /\ wasset' = wasset
      /\ wtx' = [wtx EXCEPT ![s][i] = v] /\ assetLock' = assetLock
    BY <1>0, <1>1, <1>2 DEF WritesTx, WriteTx, dbVars, TypeInv
<1>5. /\ wtx'[s][i] = v /\ \A j \in Ids : j # i => wtx'[s][j] = wtx[s][j]
      /\ \A o \in Slots : o # s => wtx'[o] = wtx[o]
    BY <1>0, <1>3, <1>4 DEF TypeInv
<1>6. \A k : AssetAt(s, k)' = AssetAt(s, k)  BY <1>4 DEF AssetAt
<1>7. \A k \in Keys : asset[k] # Null => AssetAt(s, k) # Null  BY <1>0, HeldRow DEF Local
\* Where the row belongs is recalculated later; the row was and is of no other holding.
<1>8. /\ st.op \in {"insertTx", "updateTx", "deleteTx"} /\ q[1].op # "recalc" /\ q[1].op # "updatePos"
      /\ q[1].op \notin {"createAsset", "ensureAsset", "lock"}
    BY <1>1 DEF WritesTx
<1>9. CASE st.op = "insertTx"
    <2>1. v \in TxRows /\ v = st.r /\ i = nextId /\ nextId' = nextId + 1 /\ nextId \in Nat
        <3>1. v \in TxRows /\ v = st.r /\ i = nextId  BY <1>0, <1>9, TxWritten
        <3>2. nextId' = nextId + 1  BY <1>9 DEF WritesTx
        <3>3. nextId \in Nat  BY <1>0 DEF TypeInv
        <3> QED BY <3>1, <3>2, <3>3
    <2>2. PICK c \in Keys : c = KeyOf(v)  BY <2>1, KeysAre
    <2>3. AssetAt(s, c) # Null /\ HasRecalc(q, 1, c)  BY <1>1, <1>9, <2>1, <2>2 DEF AheadAt, Backs, GoodAt
    <2>4. txs[i] = Null /\ wtx[s][i] = Same
        <3>1. txs[i] = Null /\ txLock[i] = Free /\ s # Free  BY <1>0, <1>3, <2>1, LedgerAssumption DEF LockInv, Ids
        <3> QED BY <1>0, <1>3, <3>1 DEF LockInv
    <2>5. Shrinks
        <3>1. ASSUME NEW j \in Ids, NEW k \in Keys, j < nextId, BelongsTo(j, k)' PROVE BelongsTo(j, k)
            <4>1. j # i  BY <2>1, <3>1
            <4>2. \A o \in Slots : wtx'[o][j] = wtx[o][j]  BY <1>5, <4>1
            <4> QED BY <1>4, <3>1, <4>2 DEF BelongsTo
        <3> QED BY <2>1, <3>1 DEF Shrinks
    <2>6. Ahead(s, Tail(q))'  BY <1>0, <1>1, <1>6, <1>8, <2>5, TailAhead
    <2>7. Ahead(s, r)'  BY <1>2, <2>6
    <2>8. ASSUME NEW k \in Keys PROVE PosAhead(s, r, k)'
        <3>1. CASE k = c
            <4>1. 0 \in Nat /\ 0 + 1 = 1  OBVIOUS
            <4>2. HasRecalc(q, 0 + 1, c) => HasRecalc(r, 0, c)  BY <1>1, <1>2, <4>1, TailHas
            <4> QED BY <2>3, <3>1, <4>1, <4>2 DEF PosAhead
        <3>2. CASE k # c
            <4>1. HasRecalc(q, 0, k) \/ Heads(q, k) => HasRecalc(r, 0, k)  BY <1>1, <1>2, <1>8, RecalcLater DEF Heads
            <4>2. PosAhead(s, q, k)  BY <1>0, <1>1 DEF Local
            <4>3. ~OfKey(txs[i], k) /\ ~OfKey(wtx'[s][i], k) /\ ~OfKey(TxAt(s, i), k)
                BY <1>5, <2>2, <2>4, <3>2 DEF OfKey, TxAt
            <4> QED BY <1>0, <1>4, <1>5, <4>1, <4>2, <4>3, PosOwn
        <3> QED BY <3>1, <3>2
    <2>9. Homes(s)'
        <3> SUFFICES ASSUME NEW j \in Ids, IsTx(wtx'[s][j])
                     PROVE  /\ AssetAt(s, KeyOf(wtx[s][j]))' # Null
                            /\ txs[j] # Null => KeyOf(txs[j]) = KeyOf(wtx'[s][j])
            BY <1>4 DEF Homes
        <3>1. CASE j = i
            <4>1. AssetAt(s, KeyOf(wtx[s][j]))' = AssetAt(s, c)'  BY <1>5, <2>2, <3>1 DEF AssetAt
            <4> QED BY <1>6, <2>3, <2>4, <3>1, <4>1
        <3>2. CASE j # i
            <4>1. wtx'[s][j] = wtx[s][j]  BY <1>5, <3>2
            <4>2. AssetAt(s, KeyOf(wtx[s][j]))' = AssetAt(s, KeyOf(wtx[s][j]))  BY <1>4, <4>1 DEF AssetAt
            <4> QED BY <1>0, <4>1, <4>2 DEF Local, Homes
        <3> QED BY <3>1, <3>2
    <2>10. \A k \in Keys : wasset'[s][k] # Null  BY <1>0, <1>4 DEF Local
    <2>11. Local(s)'  BY <1>4, <2>7, <2>8, <2>9, <2>10, LocalIs
    <2> QED BY <2>5, <2>11
<1>10. CASE st.op \in {"updateTx", "deleteTx"}
    <2>1. /\ i = st.i /\ nextId' = nextId /\ nextId \in Nat /\ TxAt(s, i) \in TxRows
          /\ v # Null => v \in TxRows /\ KeyOf(v) = KeyOf(TxAt(s, i))
        <3>1. st.op = "updateTx" => st.ch.tok = Same  BY <1>1 DEF GoodAt, Derivable
        <3>2. i = st.i /\ TxAt(s, i) \in TxRows  BY <1>0, <1>10, TxWritten
        <3>3. nextId' = nextId /\ nextId \in Nat  BY <1>0, <1>10 DEF WritesTx, TypeInv
        <3>4. v # Null => st.op = "updateTx"  BY <1>0, <1>10, TxWritten
        <3>5. st.op = "updateTx" => v \in TxRows /\ KeyOf(v) = KeyOf(TxAt(s, i))  BY <1>0, <3>1, TxWritten
        <3> QED BY <3>2, <3>3, <3>4, <3>5
    <2>2. PICK c \in Keys : c = KeyOf(TxAt(s, i))  BY <2>1, KeysAre
    <2>3. TxAt(s, i) # Null /\ (v # Null => KeyOf(v) = c)  BY <2>1, <2>2, RowsDiffer
    <2>4. wtx[s][i] = Same => txs[i] = TxAt(s, i)  BY DEF TxAt
    <2>5. wtx[s][i] # Same => IsTx(wtx[s][i]) /\ wtx[s][i] = TxAt(s, i)  BY <2>3 DEF TxAt, IsTx
    <2>6. BelongsTo(i, c)  BY <2>2, <2>3, <2>4, <2>5 DEF BelongsTo, OfKey
    <2>7. AssetAt(s, c) # Null /\ (txs[i] # Null => KeyOf(txs[i]) = c)
        <3>1. CASE wtx[s][i] = Same
            <4>1. txs[i] = TxAt(s, i) /\ asset[c] # Null  BY <1>3, <2>2, <2>3, <2>4, <3>1 DEF DerInv
            <4> QED BY <1>7, <2>2, <4>1
        <3>2. CASE wtx[s][i] # Same  BY <1>0, <1>3, <2>2, <2>5, <3>2 DEF Local, Homes
        <3> QED BY <3>1, <3>2
    <2>8. ASSUME NEW j \in Ids, NEW k \in Keys, BelongsTo(j, k)' PROVE BelongsTo(j, k)
        <3>1. CASE OfKey(txs[j], k)  BY <3>1 DEF BelongsTo
        <3>2. CASE \E o \in Slots : IsTx(wtx'[o][j]) /\ OfKey(wtx'[o][j], k)
            <4>1. PICK o \in Slots : IsTx(wtx'[o][j]) /\ OfKey(wtx'[o][j], k)  BY <3>2
            <4>2. CASE o = s /\ j = i
                <5>1. c = k  BY <1>5, <2>3, <4>1, <4>2 DEF OfKey
                <5> QED BY <2>6, <4>2, <5>1
            <4>3. CASE ~(o = s /\ j = i)
                <5>1. wtx'[o][j] = wtx[o][j]  BY <1>5, <4>3
                <5> QED BY <4>1, <5>1 DEF BelongsTo
            <4> QED BY <4>2, <4>3
        <3> QED BY <1>4, <2>8, <3>1, <3>2 DEF BelongsTo
    <2>9. Shrinks  BY <2>1, <2>8 DEF Shrinks
    <2>10. Ahead(s, Tail(q))'  BY <1>0, <1>1, <1>6, <1>8, <2>9, TailAhead
    <2>11. Ahead(s, r)'  BY <1>2, <2>10
    <2>12. ASSUME NEW k \in Keys PROVE PosAhead(s, r, k)'
        <3>1. CASE k = c
            <4>1. HasRecalc(q, 1, c)  BY <1>1, <1>10, <2>1, <2>6 DEF AheadAt
            <4>2. 0 \in Nat /\ 0 + 1 = 1  OBVIOUS
            <4>3. HasRecalc(q, 0 + 1, c) => HasRecalc(r, 0, c)  BY <1>1, <1>2, <4>2, TailHas
            <4> QED BY <3>1, <4>1, <4>2, <4>3 DEF PosAhead
        <3>2. CASE k # c
            <4>1. HasRecalc(q, 0, k) \/ Heads(q, k) => HasRecalc(r, 0, k)  BY <1>1, <1>2, <1>8, RecalcLater DEF Heads
            <4>2. PosAhead(s, q, k)  BY <1>0, <1>1 DEF Local
            <4>3. ~OfKey(txs[i], k) /\ ~OfKey(wtx'[s][i], k) /\ ~OfKey(TxAt(s, i), k)
                BY <1>5, <2>2, <2>3, <2>7, <3>2 DEF OfKey
            <4> QED BY <1>0, <1>4, <1>5, <4>1, <4>2, <4>3, PosOwn
        <3> QED BY <3>1, <3>2
    <2>13. Homes(s)'
        <3> SUFFICES ASSUME NEW j \in Ids, IsTx(wtx'[s][j])
                     PROVE  /\ AssetAt(s, KeyOf(wtx[s][j]))' # Null
                            /\ txs[j] # Null => KeyOf(txs[j]) = KeyOf(wtx'[s][j])
            BY <1>4 DEF Homes
        <3>1. CASE j = i
            <4>1. KeyOf(wtx'[s][j]) = c  BY <1>5, <2>3, <3>1 DEF IsTx
            <4>2. AssetAt(s, KeyOf(wtx[s][j]))' = AssetAt(s, c)'  BY <4>1 DEF AssetAt
            <4> QED BY <1>6, <2>7, <3>1, <4>1, <4>2
        <3>2. CASE j # i
            <4>1. wtx'[s][j] = wtx[s][j]  BY <1>5, <3>2
            <4>2. AssetAt(s, KeyOf(wtx[s][j]))' = AssetAt(s, KeyOf(wtx[s][j]))  BY <1>4, <4>1 DEF AssetAt
            <4> QED BY <1>0, <4>1, <4>2 DEF Local, Homes
        <3> QED BY <3>1, <3>2
    <2>14. \A k \in Keys : wasset'[s][k] # Null  BY <1>0, <1>4 DEF Local
    <2>15. Local(s)'  BY <1>4, <2>11, <2>12, <2>13, <2>14, LocalIs
    <2> QED BY <2>9, <2>15
<1> QED BY <1>1, <1>8, <1>9, <1>10

LEMMA DerRun ==
    ASSUME Base, TypeInv', DerInv, Derivable, NEW s \in Slots, RunsOn(s)
    PROVE  Local(s)' /\ Shrinks
<1>1. PICK st : /\ Facing(s, st)
                /\ \/ Locks(s, st) \/ Passes(s, st) \/ Carries(s, st) \/ Sums(s, st)
                   \/ \E new : Turns(s, st, new)
                   \/ \E v : WritesAsset(s, st, v)
                   \/ \E i, v : WritesTx(s, st, i, v)
    BY DEF RunsOn
<1>2. TypeInv /\ Local(s)  BY DEF Base, DerInv
<1>3. txs' = txs /\ wtx' = wtx /\ nextId' = nextId => Shrinks
    BY <1>2 DEF Shrinks, BelongsTo, TypeInv
<1>4. (\E r : Reads(s, r)) => Shrinks  BY <1>3 DEF Reads, dbVars, workVars
<1>5. CASE Locks(s, st)  BY <1>1, <1>2, <1>4, <1>5, DerLock DEF Locks
<1>6. CASE Passes(s, st)  BY <1>1, <1>2, <1>4, <1>6, DerPass DEF Passes
<1>7. CASE Carries(s, st)  BY <1>1, <1>2, <1>4, <1>7, DerCarry DEF Carries
<1>8. CASE Sums(s, st)  BY <1>1, <1>2, <1>3, <1>8, DerSum DEF Sums, dbVars
<1>9. CASE \E new : Turns(s, st, new)  BY <1>1, <1>2, <1>4, <1>9, DerTurn DEF Turns
<1>10. CASE \E v : WritesAsset(s, st, v)
    BY <1>1, <1>2, <1>3, <1>10, DerAsset DEF WritesAsset, WriteAsset, dbVars
<1>11. CASE \E i, v : WritesTx(s, st, i, v)  BY <1>1, <1>11, DerTx
<1> QED BY <1>1, <1>5, <1>6, <1>7, <1>8, <1>9, <1>10, <1>11

\* What a commit leaves in the tables is what its request saw.
LEMMA CommitIs ==
    ASSUME TypeInv, NEW s \in Slots, Commit(s)
    PROVE  /\ s \in active /\ todo[s] = <<>> /\ Ends(s) /\ nextId' = nextId /\ nreq' = nreq
           /\ txs' = Txs(s) /\ asset' = Assets(s) /\ active' = active \ {s}
           /\ \A i \in Ids : txs'[i] = TxAt(s, i) /\ wtx'[s][i] = Same
           /\ \A k \in Keys : asset'[k] = AssetAt(s, k)
           /\ \A o \in Slots : o # s => wtx'[o] = wtx[o]
<1>1. Ends(s)  BY DEF Ends, Commit
<1>2. /\ txs' = Txs(s) /\ asset' = Assets(s) /\ Forget(s) /\ s \in active /\ todo[s] = <<>>
    BY DEF Commit
<1>3. \A i \in Ids : wtx'[s][i] = Same  BY <1>1, EndsClean
<1>4. nextId' = nextId /\ nreq' = nreq /\ active' = active \ {s}  BY <1>1, EndsClean
<1>5. \A i \in Ids : txs'[i] = TxAt(s, i)  BY <1>2, Views
<1>6. \A k \in Keys : asset'[k] = AssetAt(s, k)  BY <1>2, Views
<1>7. \A o \in Slots : o # s => wtx'[o] = wtx[o]  BY <1>2 DEF Forget, TypeInv
<1> QED BY <1>1, <1>2, <1>3, <1>4, <1>5, <1>6, <1>7

\* A request that commits has derived what it has changed, and holds its locks.
LEMMA DerCommit ==
    ASSUME Base, TypeInv', DerInv, NEW s \in Slots, Commit(s)
    PROVE  /\ AssetIsDerived' /\ \A i \in Ids : txs'[i] # Null => asset'[KeyOf(txs'[i])] # Null
           /\ Shrinks /\ \A o \in Slots : o # s => Spares(o)
<1>0. TypeInv /\ LockInv /\ Local(s)  BY DEF Base, DerInv
<1>1. /\ s \in active /\ todo[s] = <<>> /\ txs' = Txs(s) /\ asset' = Assets(s) /\ nextId' = nextId
      /\ \A i \in Ids : txs'[i] = TxAt(s, i) /\ wtx'[s][i] = Same
      /\ \A k \in Keys : asset'[k] = AssetAt(s, k)
      /\ \A o \in Slots : o # s => wtx'[o] = wtx[o]
    BY <1>0, CommitIs
<1>2. \A k \in Keys : Touched(s, k) => PosIs(s, k, AssetAt(s, k).pos)
    BY <1>0, <1>1, EmptyHas DEF Local, PosAhead, Heads
<1>3. ASSUME NEW k \in Keys, ~Touched(s, k)
      PROVE  /\ asset'[k] = asset[k]
             /\ \A i \in Ids : txs'[i] = txs[i] \/ (~OfKey(txs[i], k) /\ ~OfKey(txs'[i], k))
    <2>1. wasset[s][k] = Same /\ \A i \in Ids : wtx[s][i] # Same => ~OfKey(txs[i], k) /\ ~OfKey(wtx[s][i], k)
        BY <1>3 DEF Touched
    <2> QED BY <1>1, <2>1 DEF TxAt, AssetAt
<1>4. ASSUME NEW k \in Keys, asset'[k] # Null PROVE asset'[k].pos = Derive(asset'[k].lot, txs', k)
    <2>1. CASE Touched(s, k)  BY <1>1, <1>2, <2>1 DEF PosIs
    <2>2. CASE ~Touched(s, k)
        <3>1. asset'[k] = asset[k] /\ asset[k].pos = Derive(asset[k].lot, txs, k)
            BY <1>3, <1>4, <2>2 DEF DerInv, AssetIsDerived
        <3>2. PICK a \in [Ids -> TxRows \cup {Null}] : a = txs  BY <1>0 DEF TypeInv
        <3>3. PICK b \in [Ids -> TxRows \cup {Null}] : b = txs'  BY DEF TypeInv
        <3>4. \A i \in Ids : a[i] = b[i] \/ (~OfKey(a[i], k) /\ ~OfKey(b[i], k))  BY <1>3, <2>2, <3>2, <3>3
        <3>5. \A lot : Derive(lot, a, k) = Derive(lot, b, k)  BY <3>4, DeriveSame
        <3> QED BY <3>1, <3>2, <3>3, <3>5
    <2> QED BY <2>1, <2>2
<1>5. \A k \in Keys : asset[k] # Null => AssetAt(s, k) # Null  BY <1>0, HeldRow DEF Local
<1>6. ASSUME NEW i \in Ids, txs'[i] # Null PROVE asset'[KeyOf(txs'[i])] # Null
    <2>1. txs'[i] \in TxRows  BY <1>6 DEF TypeInv
    <2>2. PICK k \in Keys : k = KeyOf(txs'[i])  BY <2>1, KeysAre
    <2>3. CASE wtx[s][i] = Same
        <3>1. txs'[i] = txs[i]  BY <1>1, <2>3 DEF TxAt
        <3> QED BY <1>1, <1>5, <1>6, <2>2, <3>1 DEF DerInv
    <2>4. CASE wtx[s][i] # Same
        <3>1. txs'[i] = wtx[s][i] /\ IsTx(wtx[s][i])  BY <1>1, <1>6, <2>4 DEF TxAt, IsTx
        <3> QED BY <1>0, <1>1, <2>2, <3>1 DEF Local, Homes
    <2> QED BY <2>3, <2>4
<1>7. ASSUME NEW i \in Ids, NEW k \in Keys, BelongsTo(i, k)' PROVE BelongsTo(i, k)
    <2>1. CASE OfKey(txs'[i], k)
        <3>1. OfKey(txs[i], k) \/ (IsTx(wtx[s][i]) /\ OfKey(wtx[s][i], k))
            BY <1>1, <2>1 DEF TxAt, OfKey, IsTx
        <3> QED BY <3>1 DEF BelongsTo
    <2>2. CASE \E o \in Slots : IsTx(wtx'[o][i]) /\ OfKey(wtx'[o][i], k)
        <3>1. PICK o \in Slots : IsTx(wtx'[o][i]) /\ OfKey(wtx'[o][i], k)  BY <2>2
        <3>2. o # s  BY <1>1, <3>1 DEF IsTx
        <3>3. wtx'[o] = wtx[o]  BY <1>1, <3>2
        <3> QED BY <3>1, <3>3 DEF BelongsTo
    <2> QED BY <1>7, <2>1, <2>2 DEF BelongsTo
<1>8. Shrinks  BY <1>0, <1>1, <1>7 DEF Shrinks, TypeInv
<1>9. ASSUME NEW o \in Slots, o # s PROVE Spares(o)
    <2>1. \A k \in Keys : asset[k] # Null => asset'[k] # Null  BY <1>1, <1>5
    <2>2. ASSUME NEW k \in Keys, assetLock[k] = o PROVE ~Touched(s, k)
        BY <1>2, <1>9, <2>2 DEF PosIs
    <2>3. \A i \in Ids : txLock[i] = o => txs'[i] = txs[i]
        <3> SUFFICES ASSUME NEW i \in Ids, txLock[i] = o PROVE txs'[i] = txs[i]  OBVIOUS
        <3>1. wtx[s][i] = Same  BY <1>0, <1>9 DEF LockInv
        <3> QED BY <1>1, <3>1 DEF TxAt
    <2> QED BY <1>3, <1>8, <2>1, <2>2, <2>3 DEF Spares
<1>10. AssetIsDerived'  BY <1>4 DEF AssetIsDerived
<1> QED BY <1>6, <1>8, <1>9, <1>10

\* What a step of slot s leaves to the others.
LEMMA StepSpares ==
    ASSUME Base, TypeInv', DerInv, Derivable, NEW s \in Slots, Starts(s) \/ Ends(s) \/ RunsOn(s)
    PROVE  Shrinks /\ \A o \in Slots : o # s => Kept(o) /\ Spares(o)
<1>1. TypeInv /\ LockInv  BY DEF Base
<1>2. \A o \in Slots : o # s => Kept(o)  BY <1>1, OthersKeep DEF LockInv
<1>3. CASE txs' = txs /\ asset' = asset /\ net' = net
    <2>1. Shrinks
        <3>1. CASE Starts(s)
            <4>1. PICK x : Begin(s, x)  BY <3>1 DEF Starts
            <4>2. wtx' = wtx /\ nextId' = nextId  BY <4>1 DEF Begin
            <4> QED BY <1>1, <1>3, <4>2 DEF Shrinks, BelongsTo, TypeInv
        <3>2. CASE Ends(s)
            <4>1. nextId' = nextId /\ \A i \in Ids : wtx'[s][i] = Same  BY <1>1, <3>2, EndsClean
            <4>2. \A o \in Slots, i \in Ids : wtx'[o][i] = Same \/ wtx'[o][i] = wtx[o][i]
                BY <1>2, <4>1 DEF Kept
            <4>3. \A i \in Ids, k \in Keys : BelongsTo(i, k)' => BelongsTo(i, k)
                BY <1>3, <4>2 DEF BelongsTo, IsTx
            <4> QED BY <1>1, <4>1, <4>3 DEF Shrinks, TypeInv
        <3>3. CASE RunsOn(s)  BY <1>1, <3>3, DerRun
        <3> QED BY <3>1, <3>2, <3>3
    <2>2. \A o \in Slots : Spares(o)  BY <1>3, <2>1 DEF Spares
    <2> QED BY <1>2, <2>1, <2>2
<1>4. CASE Commit(s)  BY <1>2, <1>4, DerCommit
<1> QED BY <1>1, <1>3, <1>4, RowsKeep

LEMMA DerStep ==
    ASSUME Base, DerInv, Derivable, [Next]_vars
    PROVE  DerInv'
<1>0. TypeInv /\ LockInv /\ TypeInv'  BY BaseStep DEF Base
<1>1. CASE UNCHANGED vars
    <2>1. /\ UNCHANGED <<txs, asset, net, nextId, active, todo, no, wtx, wasset, wnet>>
          /\ UNCHANGED <<txLock, assetLock, pfLock, pfShare>>
        BY <1>1 DEF vars, dbVars, workVars, lockVars
    <2>2. \A o \in Slots : Kept(o)  BY <2>1 DEF Kept
    <2>3. Shrinks  BY <1>0, <2>1 DEF Shrinks, BelongsTo, TypeInv
    <2>4. \A o \in Slots : Spares(o)  BY <2>1, <2>3 DEF Spares
    <2>5. \A o \in Slots : Local(o)'  BY <1>0, <2>2, <2>4, DerOther DEF DerInv
    <2>6. AssetIsDerived'  BY <2>1 DEF DerInv, AssetIsDerived
    <2> QED BY <2>1, <2>5, <2>6 DEF DerInv
<1>2. CASE Next
    <2>1. PICK s \in Slots : Starts(s) \/ Ends(s) \/ RunsOn(s)  BY <1>0, <1>2, NextIs
    <2>2. \A o \in Slots : o # s => Kept(o) /\ Spares(o)  BY <1>0, <2>1, StepSpares
    <2>3. \A o \in Slots : o # s => Local(o)'  BY <1>0, <2>2, DerOther DEF DerInv
    <2>4. Local(s)'  BY <1>0, <2>1, DerStart, DerEnd, DerRun
    <2>5. AssetIsDerived' /\ \A i \in Ids : txs'[i] # Null => asset'[KeyOf(txs'[i])] # Null
        <3>1. CASE txs' = txs /\ asset' = asset /\ net' = net  BY <3>1 DEF DerInv, AssetIsDerived
        <3>2. CASE Commit(s)  BY <1>0, <3>2, DerCommit
        <3> QED BY <1>0, <2>1, <3>1, <3>2, RowsKeep
    <2> QED BY <2>3, <2>4, <2>5 DEF DerInv
<1> QED BY <1>1, <1>2

LEMMA DerInit == Init => DerInv
<1> SUFFICES ASSUME Init PROVE DerInv  OBVIOUS
<1>1. TypeInv  BY InitBase DEF Base
<1>2. /\ \A s \in Slots : todo[s] = <<>>
      /\ \A s \in Slots, i \in Ids : wtx[s][i] = Same
      /\ \A s \in Slots, k \in Keys : wasset[s][k] = Same
    BY DEF Init
<1>3. ASSUME NEW k \in Keys, k \in Opened
      PROVE  asset[k] = [id |-> 0, lot |-> OpenLot, pos |-> Derive(OpenLot, txs, k)]
    BY <1>3 DEF Init
<1>4. AssetIsDerived
    <2> SUFFICES ASSUME NEW k \in Keys, asset[k] # Null PROVE asset[k].pos = Derive(asset[k].lot, txs, k)
        BY DEF AssetIsDerived
    <2>1. k \in Opened  BY DEF Init
    <2>2. PICK pos : pos = Derive(OpenLot, txs, k)  OBVIOUS
    <2>3. asset[k] = [id |-> 0, lot |-> OpenLot, pos |-> pos]  BY <1>3, <2>1, <2>2
    <2>4. asset[k].lot = OpenLot /\ asset[k].pos = pos  BY <2>3
    <2> QED BY <2>2, <2>4
<1>5. ASSUME NEW i \in Ids, txs[i] # Null PROVE asset[KeyOf(txs[i])] # Null
    <2>1. i \in 1 .. Len(Logged) /\ txs[i] = Logged[i]  BY <1>5, LedgerAssumption DEF Init, Ids
    <2>2. PICK k \in Opened : k = KeyOf(txs[i])  BY <2>1, LedgerAssumption
    <2>3. k \in Keys /\ OpenLot \in LotSet  BY LedgerAssumption
    <2>4. Derive(OpenLot, txs, k) \in Positions  BY <1>1, <2>3, DeriveType DEF TypeInv
    <2>5. PICK pos \in Positions : pos = Derive(OpenLot, txs, k)  BY <2>4
    <2>6. asset[k] = [id |-> 0, lot |-> OpenLot, pos |-> pos]  BY <1>3, <2>2, <2>3, <2>5
    <2>7. asset[k] \in AssetRows  BY <2>3, <2>6 DEF AssetRows
    <2> QED BY <2>2, <2>7, RowsDiffer
<1>6. ASSUME NEW s \in Slots PROVE Local(s)
    <2>1. \A k \in Keys : wasset[s][k] # Null  BY <1>2, RowsDiffer
    <2>2. Homes(s)  BY <1>2 DEF Homes, IsTx
    <2>3. PICK q : q = todo[s] /\ q = <<>>  BY <1>2
    <2>4. \A n \in 1 .. Len(q) : FALSE  BY <2>3
    <2>5. Ahead(s, todo[s])  BY <2>3, <2>4 DEF Ahead
    <2>6. \A k \in Keys : PosAhead(s, todo[s], k)  BY <1>2 DEF PosAhead, Touched
    <2> QED BY <2>1, <2>2, <2>5, <2>6 DEF Local
<1> QED BY <1>4, <1>5, <1>6 DEF DerInv

\* Whatever requests interleave, a committed asset row says what recalcAssetBalance derives from the
\* committed opening lot and transactions: every request that touches a holding recalculates it under
\* the row's lock before it commits. The exceptions are the edits that the code does not recalculate
\* for or that move a row under another request (a symbol, a timestamp alone, a net deposit alone) and
\* the removal of an asset.
THEOREM DerivedSafety ==
    ASSUME Kinds \cap {"retoken", "retime", "net", "remove"} = {} PROVE Spec => []AssetIsDerived
<1>1. Derivable  BY DEF Derivable
<1>2. DerInv => AssetIsDerived  BY DEF DerInv
<1> QED BY <1>1, <1>2, InitBase, DerInit, BaseStep, DerStep, PTL DEF Spec

-----------------------------------------------------------------------------
(* Pending statements *)

\* The program of s after a step of its transaction: the rest of it, its head replaced by what it leads
\* to, or the nine statements of a transfer.
LEMMA ProgramIs ==
    ASSUME Base, NEW s \in Slots, NEW st, Facing(s, st),
           \/ Locks(s, st) \/ Passes(s, st) \/ Carries(s, st) \/ Sums(s, st)
           \/ \E new : Turns(s, st, new)
           \/ \E v : WritesAsset(s, st, v)
           \/ \E i, v : WritesTx(s, st, i, v)
    PROVE  \/ todo'[s] = Tail(todo[s]) /\ st.op # "carry"
           \/ \E new \in Statements : /\ todo'[s] = [todo[s] EXCEPT ![1] = new] /\ new.op \in {"createAsset", "updatePos"}
                                      /\ st.op \in {"ensureAsset", "recalc"}
           \/ todo'[s] = CarryProgram(s, st) /\ st.op = "carry"
<1>1. TypeInv  BY DEF Base
<1>2. CASE Locks(s, st)  BY <1>1, <1>2 DEF Locks, Reads, TypeInv
<1>3. CASE Passes(s, st)  BY <1>1, <1>3 DEF Passes, Reads, TypeInv
<1>4. CASE Carries(s, st)  BY <1>1, <1>4 DEF Carries, Reads, TypeInv
<1>5. CASE Sums(s, st)  BY <1>1, <1>5 DEF Sums, TypeInv
<1>6. CASE \E new : Turns(s, st, new)
    <2>1. PICK new : Turns(s, st, new)  BY <1>6
    <2>2. new \in Statements /\ new.op \in {"createAsset", "updatePos"} /\ st.op \in {"ensureAsset", "recalc"}
        BY <2>1, TurnIs
    <2>3. todo'[s] = [todo[s] EXCEPT ![1] = new]  BY <1>1, <2>1 DEF Turns, Reads, TypeInv
    <2> QED BY <2>2, <2>3
<1>7. CASE \E v : WritesAsset(s, st, v)  BY <1>1, <1>7 DEF WritesAsset, TypeInv
<1>8. CASE \E i, v : WritesTx(s, st, i, v)  BY <1>1, <1>8 DEF WritesTx, TypeInv
<1> QED BY <1>2, <1>3, <1>4, <1>5, <1>6, <1>7, <1>8

\* A statement of transaction i that is still to run was planned when the request began.
Pending(q, i, ops) == \E n \in 1 .. Len(q) : q[n].op \in ops /\ q[n].i = i

LEMMA PendingShrinks ==
    ASSUME Base, NEW s \in Slots, RunsOn(s), NEW i, NEW ops \in SUBSET {"updateTx", "deleteTx"},
           Pending(todo[s], i, ops)'
    PROVE  Pending(todo[s], i, ops)
<1>1. PICK st : /\ Facing(s, st)
                /\ \/ Locks(s, st) \/ Passes(s, st) \/ Carries(s, st) \/ Sums(s, st)
                   \/ \E new : Turns(s, st, new)
                   \/ \E v : WritesAsset(s, st, v)
                   \/ \E j, v : WritesTx(s, st, j, v)
    BY DEF RunsOn
<1>2. TypeInv  BY DEF Base
<1>3. PICK q \in Seq(Statements) : q = todo[s] /\ q # <<>>  BY <1>1, TailProgram
<1>4. PICK r : r = todo'[s]  OBVIOUS
<1>5. PICK n \in 1 .. Len(r) : r[n].op \in ops /\ r[n].i = i  BY <1>4 DEF Pending
<1>6. CASE r = Tail(q)
    <2>1. n + 1 \in 1 .. Len(q) /\ r[n] = q[n + 1]  BY <1>3, <1>5, <1>6, TailIs
    <2> QED BY <1>3, <1>5, <2>1 DEF Pending
<1>7. CASE \E new \in Statements : r = [q EXCEPT ![1] = new] /\ new.op \in {"createAsset", "updatePos"}
    <2>1. PICK new \in Statements : r = [q EXCEPT ![1] = new] /\ new.op \in {"createAsset", "updatePos"}  BY <1>7
    <2>2. Len(r) = Len(q) /\ r[1] = new /\ \A m \in 2 .. Len(q) : r[m] = q[m]  BY <1>3, <2>1, InsteadIs
    <2>3. n # 1  BY <1>5, <2>1, <2>2
    <2>4. n \in 1 .. Len(q) /\ n \in 2 .. Len(q)  BY <1>5, <2>2, <2>3
    <2> QED BY <1>3, <1>5, <2>2, <2>4 DEF Pending
<1>8. CASE r = CarryProgram(s, st) /\ Carries(s, st)
    <2>0. PICK d : d = <<st.d, st.k[2]>>  OBVIOUS
    <2>1. PICK w \in Seq(Statements) : w = CarryProgram(s, st)  BY <1>1, <1>2, <1>8, CarryOps
    <2>2. /\ Len(w) = 9 /\ w[1].op = "ensureAsset" /\ w[2].op = "insertTx" /\ w[3].op = "insertTx"
          /\ w[4].op = "lock" /\ w[5].op = "recalc" /\ w[6].op = "sum" /\ w[7].op = "lock"
          /\ w[8].op = "recalc" /\ w[9].op = "sum"
        BY <1>1, <1>2, <1>8, <2>0, <2>1, CarryOps
    <2>3. n \in {1, 2, 3, 4, 5, 6, 7, 8, 9}  BY <1>5, <1>8, <2>1, <2>2
    <2> QED BY <1>5, <1>8, <2>1, <2>2, <2>3
<1>9. st.op = "carry" => Carries(s, st)
    BY <1>1, TurnIs DEF Locks, Passes, Sums, Turns, WritesAsset, WritesTx
<1> QED BY <1>1, <1>3, <1>4, <1>6, <1>7, <1>8, <1>9, ProgramIs

\* A transaction to change or delete is one whose insertion was committed before.
Old(i) == i < nextId /\ \A o \in Slots : IsTx(wtx[o][i]) => txs[i] # Null
TxChanges == {"updateTx", "deleteTx"}
OldInv == \A s \in Slots, i \in Ids : Pending(todo[s], i, TxChanges) => Old(i)

LEMMA OldStays ==
    ASSUME Base, NEW s \in Slots, Starts(s) \/ Ends(s) \/ RunsOn(s), NEW i \in Ids, Old(i)
    PROVE  Old(i)'
<1>1. TypeInv /\ LockInv  BY DEF Base
<1>2. \A o \in Slots : o # s => wtx'[o] = wtx[o]  BY <1>1, OthersKeep DEF LockInv, Kept
<1>3. CASE Starts(s)
    <2>1. PICK x : Begin(s, x)  BY <1>3 DEF Starts
    <2>2. wtx' = wtx /\ txs' = txs /\ nextId' = nextId  BY <2>1 DEF Begin, dbVars
    <2> QED BY <2>2 DEF Old
<1>4. CASE Ends(s)
    <2>1. nextId' = nextId /\ wtx'[s][i] = Same  BY <1>1, <1>4, EndsClean
    <2>2. ASSUME NEW o \in Slots, IsTx(wtx'[o][i]) PROVE txs'[i] # Null
        <3>1. o # s /\ wtx'[o] = wtx[o] /\ txs[i] # Null  BY <1>2, <2>1, <2>2 DEF Old, IsTx
        <3>2. CASE Commit(s)
            <4>1. txLock[i] = o /\ wtx[s][i] = Same  BY <1>1, <2>2, <3>1 DEF LockInv, IsTx
            <4>2. txs'[i] = txs[i]  BY <1>1, <3>2, <4>1, CommitIs DEF TxAt
            <4> QED BY <3>1, <4>2
        <3> QED BY <1>1, <1>4, <3>1, <3>2, RowsKeep
    <2> QED BY <2>1, <2>2 DEF Old
<1>5. CASE RunsOn(s)
    <2>1. PICK st : /\ Facing(s, st)
                    /\ \/ Locks(s, st) \/ Passes(s, st) \/ Carries(s, st) \/ Sums(s, st)
                       \/ \E new : Turns(s, st, new)
                       \/ \E v : WritesAsset(s, st, v)
                       \/ \E j, v : WritesTx(s, st, j, v)
        BY <1>5 DEF RunsOn
    <2>2. CASE \E j, v : WritesTx(s, st, j, v)
        <3>1. PICK j, v : WritesTx(s, st, j, v)  BY <2>2
        <3>2. txs' = txs /\ wtx' = [wtx EXCEPT ![s][j] = v]  BY <3>1 DEF WritesTx, WriteTx, dbVars
        <3>3. j \in Ids /\ nextId \in Nat /\ i \in Nat  BY <1>1, <3>1 DEF WritesTx, TypeInv, Ids
        <3>4. nextId' \in {nextId, nextId + 1}  BY <3>1 DEF WritesTx
        <3>5. i < nextId'  BY <3>3, <3>4 DEF Old
        <3>6. CASE j # i
            <4>1. \A o \in Slots : wtx'[o][i] = wtx[o][i]  BY <1>1, <3>2, <3>3, <3>6 DEF TypeInv
            <4> QED BY <3>2, <3>5, <4>1 DEF Old
        <3>7. CASE j = i
            <4>1. st.op # "insertTx"  BY <3>1, <3>3, <3>7 DEF WritesTx, Old
            <4>2. TxAt(s, i) # Null  BY <3>1, <3>7, <4>1 DEF WritesTx
            <4>3. txs[i] # Null  BY <4>2 DEF TxAt, Old, IsTx
            <4> QED BY <3>2, <3>5, <4>3 DEF Old
        <3> QED BY <3>6, <3>7
    <2>3. CASE ~\E j, v : WritesTx(s, st, j, v)
        <3>1. wtx' = wtx /\ txs' = txs /\ nextId' = nextId
            BY <2>1, <2>3 DEF Locks, Passes, Carries, Sums, Turns, Reads, WritesAsset, WriteAsset, dbVars, workVars
        <3> QED BY <3>1 DEF Old
    <2> QED BY <2>2, <2>3
<1> QED BY <1>3, <1>4, <1>5

LEMMA OldStep ==
    ASSUME Base, OldInv, [Next]_vars
    PROVE  OldInv'
<1>0. TypeInv /\ LockInv  BY DEF Base
<1>1. CASE UNCHANGED vars
    BY <1>1 DEF vars, dbVars, workVars, OldInv, Old, Pending
<1>2. CASE Next
    <2>1. PICK s \in Slots : Starts(s) \/ Ends(s) \/ RunsOn(s)  BY <1>0, <1>2, NextIs
    <2>2. \A i \in Ids : Old(i) => Old(i)'  BY <2>1, OldStays
    <2>3. ASSUME NEW o \in Slots, NEW i \in Ids, Pending(todo[o], i, TxChanges)' PROVE Old(i)'
        <3>1. CASE o # s
            <4>1. todo'[o] = todo[o]  BY <1>0, <2>1, <3>1, OthersKeep DEF LockInv, Kept
            <4>2. Pending(todo[o], i, TxChanges)  BY <2>3, <4>1 DEF Pending
            <4> QED BY <2>2, <4>2 DEF OldInv
        <3>2. CASE o = s /\ Starts(s)
            <4>1. PICK q : Fresh(q) /\ Begin(s, q)  BY <3>2 DEF Starts
            <4>2. todo'[s] = q  BY <1>0, <4>1 DEF Begin, TypeInv
            <4>3. PICK n \in 1 .. Len(q) : q[n].op \in TxChanges /\ q[n].i = i  BY <2>3, <3>2, <4>2 DEF Pending
            <4>4. txs[i] # Null  BY <4>1, <4>3 DEF Fresh, FreshAt, TxChanges
            <4>5. Old(i)  BY <1>0, <4>4 DEF Old, LockInv, TypeInv, Ids
            <4> QED BY <2>2, <4>5
        <3>3. CASE o = s /\ Ends(s)
            <4>1. PICK q : q = todo'[s] /\ q = <<>>  BY <1>0, <3>3, EndsClean
            <4>2. \A n \in 1 .. Len(q) : FALSE  BY <4>1
            <4> QED BY <2>3, <3>3, <4>1, <4>2 DEF Pending
        <3>4. CASE o = s /\ RunsOn(s)
            <4>1. TxChanges \in SUBSET {"updateTx", "deleteTx"}  BY DEF TxChanges
            <4>2. Pending(todo[o], i, TxChanges)  BY <2>3, <3>4, <4>1, PendingShrinks
            <4> QED BY <2>2, <4>2 DEF OldInv
        <3> QED BY <2>1, <3>1, <3>2, <3>3, <3>4
    <2> QED BY <2>3 DEF OldInv
<1> QED BY <1>1, <1>2

LEMMA OldInit == Init => OldInv
<1> SUFFICES ASSUME Init PROVE OldInv  OBVIOUS
<1>1. ASSUME NEW s \in Slots, NEW i, NEW ops PROVE ~Pending(todo[s], i, ops)
    <2>1. PICK q : q = todo[s] /\ q = <<>>  BY DEF Init
    <2>2. \A n \in 1 .. Len(q) : FALSE  BY <2>1
    <2> QED BY <2>1, <2>2 DEF Pending
<1> QED BY <1>1 DEF OldInv

-----------------------------------------------------------------------------
(* Sales are covered *)

IsSale(r)    == r.dir = "sell" /\ r.group = Null
SaleAt(q, n) == q[n].op = "insertTx" /\ IsSale(q[n].r)

\* After position n only locks, recalculations and sums are left.
QuietOps    == {"lock", "recalc", "updatePos", "sum"}
Quiet(q, n) == \A m \in 1 .. Len(q) : m > n => q[m].op \in QuietOps
Clean(s)    == (\A k \in Keys : wasset[s][k] = Same) /\ \A i \in Ids : wtx[s][i] = Same

\* A sale still to be inserted: the lock, the check and the insertion are the first writes of the
\* request, and once checked the balance covers the sale.
SoonAt(s, q, n, k) ==
    /\ n \in {1, 2, 3} /\ Quiet(q, n) /\ Clean(s) /\ asset[k] # Null
    /\ n = 3 => q[1].op = "lock" /\ q[1].k = k /\ q[2].op = "check" /\ q[2].k = k /\ q[2].amount = q[3].r.amount
    /\ n = 2 => q[1].op = "check" /\ q[1].k = k /\ q[1].amount = q[2].r.amount
    /\ n # 3 => assetLock[k] = s
    /\ n = 1 => q[1].r.amount <= asset[k].pos.balance
Soon(s, q) == \A n \in 1 .. Len(q) : SaleAt(q, n) => SoonAt(s, q, n, KeyOf(q[n].r))

\* A sale that is inserted and not committed: its holding is locked, and what its rows derive is not
\* negative.
Made(s, q) == \A i \in Ids :
    IsTx(wtx[s][i]) /\ txs[i] = Null /\ IsSale(wtx[s][i]) =>
        Quiet(q, 0) /\ \E pos : PosIs(s, KeyOf(wtx[s][i]), pos) /\ pos.balance >= 0
SaleInv == \A s \in Slots : Soon(s, todo[s]) /\ Made(s, todo[s])

\* A sale lowers the balance by its amount.
LEMMA SaleLowers ==
    ASSUME NEW a \in [Ids -> TxRows \cup {Null}], NEW b \in [Ids -> TxRows \cup {Null}], NEW lot \in LotSet,
           NEW k \in Keys, NEW i \in Ids, a[i] = Null, b[i] # Null, KeyOf(b[i]) = k, b[i].dir = "sell",
           \A j \in Ids : j # i => a[j] = b[j]
    PROVE  Derive(lot, b, k).balance = Derive(lot, a, k).balance - b[i].amount
<1>1. PICK e : e = [id |-> i, row |-> b[i]]  OBVIOUS
<1>2. b[i] \in TxRows /\ e.row = b[i] /\ e.id = i  BY <1>1
<1>3. b[i].pf = k[1] /\ b[i].tok = k[2]  BY <1>2, KeysAre
<1>4. PICK E \in SUBSET Events : E = EventsOf(b, k) /\ IsFiniteSet(E)  BY EventsAre
<1>5. E = {[id |-> j, row |-> b[j]] : j \in {l \in Ids : b[l] # Null /\ b[l].pf = k[1] /\ b[l].tok = k[2]}}
    BY <1>4 DEF EventsOf
<1>6. EventsOf(a, k) = {[id |-> j, row |-> a[j]] : j \in {l \in Ids : a[l] # Null /\ a[l].pf = k[1] /\ a[l].tok = k[2]}}
    BY DEF EventsOf
<1>7. e \in E  BY <1>1, <1>3, <1>5
<1>8. E \ {e} = EventsOf(a, k)
    <2>1. \A x \in EventsOf(a, k) : x \in E /\ x # e  BY <1>2, <1>5, <1>6
    <2>2. \A x \in E : x # e => x \in EventsOf(a, k)  BY <1>1, <1>5, <1>6
    <2> QED BY <2>1, <2>2
<1>9. Totals(lot, E).qty = Totals(lot, E \ {e}).qty + Signed(b[i])  BY <1>2, <1>4, <1>7, QuantityAdds
<1>10. Signed(b[i]) = -b[i].amount /\ b[i].amount \in Nat  BY <1>2 DEF Signed, TxRows
<1>11. /\ Derive(lot, b, k).balance = Totals(lot, E).qty
       /\ Derive(lot, a, k).balance = Totals(lot, E \ {e}).qty
       /\ Derive(lot, a, k) \in Positions
    <2>1. Derive(lot, b, k).balance = Totals(lot, EventsOf(b, k)).qty  BY DeriveType
    <2>2. /\ Derive(lot, a, k).balance = Totals(lot, EventsOf(a, k)).qty
          /\ Derive(lot, a, k) \in Positions
        BY DeriveType
    <2> QED BY <1>4, <1>8, <2>1, <2>2
<1>12. Derive(lot, a, k).balance \in Int  BY <1>11 DEF Positions
<1> QED BY <1>9, <1>10, <1>11, <1>12

\* Another slot's step.
LEMMA SaleOther ==
    ASSUME TypeInv, LockInv, TypeInv', NEW o \in Slots, Kept(o), Spares(o), Soon(o, todo[o]), Made(o, todo[o])
    PROVE  Soon(o, todo[o])' /\ Made(o, todo[o])'
<1>0. PICK q \in Seq(Statements) : q = todo[o]  BY DEF TypeInv
<1>1. /\ todo'[o] = q /\ wtx'[o] = wtx[o] /\ wasset'[o] = wasset[o]
      /\ \A k \in Keys : assetLock[k] = o => assetLock'[k] = o /\ asset'[k] = asset[k]
    BY <1>0 DEF Kept, Spares
<1>2. ASSUME NEW n \in 1 .. Len(q), SaleAt(q, n) PROVE SoonAt(o, q, n, KeyOf(q[n].r))'
    <2>1. PICK k \in Keys : k = KeyOf(q[n].r)
        <3>1. q[n] \in Statements  BY <1>0
        <3> QED BY <1>2, <3>1, StatementIs, KeysAre DEF SaleAt
    <2>2. SoonAt(o, q, n, k)  BY <1>0, <1>2, <2>1 DEF Soon
    <2>3. Clean(o)'  BY <1>1, <2>2 DEF SoonAt, Clean
    <2>4. asset'[k] # Null  BY <2>2 DEF SoonAt, Spares
    <2>5. SoonAt(o, q, n, k)'  BY <1>1, <2>2, <2>3, <2>4 DEF SoonAt
    <2> QED BY <2>1, <2>5
<1>3. Soon(o, todo[o])'  BY <1>1, <1>2 DEF Soon
<1>4. ASSUME NEW i \in Ids, IsTx(wtx'[o][i]), txs'[i] = Null, IsSale(wtx'[o][i])
      PROVE  Quiet(q, 0) /\ \E pos : PosIs(o, KeyOf(wtx[o][i]), pos)' /\ pos.balance >= 0
    <2>1. txs[i] = Null  BY <1>1, <1>4 DEF LockInv, Spares, IsTx
    <2>2. PICK k \in Keys : k = KeyOf(wtx[o][i])
        <3>1. wtx[o][i] \in TxRows  BY <1>1, <1>4 DEF TypeInv, IsTx
        <3> QED BY <3>1, KeysAre
    <2>3. PICK pos : Quiet(q, 0) /\ PosIs(o, k, pos) /\ pos.balance >= 0
        BY <1>0, <1>1, <1>4, <2>1, <2>2 DEF Made
    <2>4. assetLock[k] = o  BY <2>3 DEF PosIs
    <2>5. AssetAt(o, k)' = AssetAt(o, k)  BY <1>1, <2>4 DEF AssetAt
    <2>6. \A j \in Ids : TxAt(o, j)' = TxAt(o, j) \/ (~OfKey(TxAt(o, j), k) /\ ~OfKey(TxAt(o, j)', k))
        BY <1>1, <2>4 DEF TxAt, Spares
    <2>7. PosIs(o, k, pos)'  BY <1>1, <2>3, <2>4, <2>5, <2>6, PosStays
    <2>8. PosIs(o, KeyOf(wtx[o][i]), pos)'  BY <1>1, <2>2, <2>7 DEF PosIs
    <2> QED BY <2>3, <2>8
<1>5. Made(o, todo[o])'  BY <1>1, <1>4 DEF Made
<1> QED BY <1>3, <1>5

\* A request that begins: a sale comes after its lock and its check.
LEMMA SaleStart ==
    ASSUME Base, DerInv, "import" \notin Kinds, NEW s \in Slots, Starts(s)
    PROVE  Soon(s, todo[s])' /\ Made(s, todo[s])'
<1>1. PICK q : s \notin active /\ Fresh(q) /\ Begin(s, q)  BY DEF Starts
<1>2. TypeInv /\ LockInv  BY DEF Base
<1>3. todo'[s] = q /\ txs' = txs /\ asset' = asset /\ wtx' = wtx /\ wasset' = wasset
    BY <1>1, <1>2 DEF Begin, dbVars, TypeInv
<1>4. Clean(s)'  BY <1>1, <1>3, IdleClean DEF Clean
<1>5. ASSUME NEW n \in 1 .. Len(q), SaleAt(q, n) PROVE SoonAt(s, q, n, KeyOf(q[n].r))'
    <2>1. q[n] \in Statements /\ FreshAt(q, n)  BY <1>1 DEF Fresh
    <2>2. PICK k \in Keys : k = KeyOf(q[n].r)  BY <1>5, <2>1, StatementIs, KeysAre DEF SaleAt
    <2>3. Covered(q, n) /\ Backed(q, n, k)  BY <1>5, <2>1, <2>2 DEF FreshAt, SaleAt, IsSale
    <2>4. /\ n = 3 /\ q[1].op = "lock" /\ q[1].k = k /\ q[2].op = "check" /\ q[2].k = k
          /\ q[2].amount = q[3].r.amount
          /\ \A m \in 1 .. Len(q) : m > 3 => q[m].op \in {"lock", "recalc", "sum"}
        BY <2>2, <2>3 DEF Covered
    <2>5. Quiet(q, 3)  BY <2>4 DEF Quiet, QuietOps
    <2>6. ~HasMaker(q, 3, k)
        <3> SUFFICES ASSUME NEW m \in 1 .. Len(q), m < 3, q[m].op \in {"createAsset", "ensureAsset"} PROVE FALSE
            BY DEF HasMaker
        <3>1. m = 1 \/ m = 2  OBVIOUS
        <3> QED BY <2>4, <3>1
    <2>7. asset[k] # Null  BY <2>3, <2>4, <2>6 DEF Backed, DerInv
    <2> QED BY <1>3, <1>4, <2>2, <2>4, <2>5, <2>7 DEF SoonAt
<1>6. Soon(s, todo[s])'  BY <1>3, <1>5 DEF Soon
<1>7. Made(s, todo[s])'  BY <1>4 DEF Made, Clean, IsTx
<1> QED BY <1>6, <1>7

LEMMA SaleEnd ==
    ASSUME TypeInv, NEW s \in Slots, Ends(s)
    PROVE  Soon(s, todo[s])' /\ Made(s, todo[s])'
<1>1. PICK q : q = todo'[s] /\ q = <<>>  BY EndsClean
<1>2. \A n \in 1 .. Len(q) : FALSE  BY <1>1
<1>3. \A i \in Ids : wtx'[s][i] = Same  BY EndsClean
<1>4. Soon(s, todo[s])'  BY <1>1, <1>2 DEF Soon
<1> QED BY <1>3, <1>4 DEF Made, IsTx

\* A slot that runs: the lock, then the check, then the insertion.
LEMMA SoonRun ==
    ASSUME Base, NEW s \in Slots, RunsOn(s), Soon(s, todo[s])
    PROVE  Soon(s, todo[s])'
<1>1. PICK st : /\ Facing(s, st)
                /\ \/ Locks(s, st) \/ Passes(s, st) \/ Carries(s, st) \/ Sums(s, st)
                   \/ \E new : Turns(s, st, new)
                   \/ \E v : WritesAsset(s, st, v)
                   \/ \E i, v : WritesTx(s, st, i, v)
    BY DEF RunsOn
<1>2. TypeInv  BY DEF Base
<1>3. PICK q \in Seq(Statements) : q = todo[s] /\ q # <<>> /\ st = q[1] /\ st \in Statements  BY <1>1, TailProgram
<1>4. PICK r : r = todo'[s]  OBVIOUS
<1>5. /\ Tail(q) \in Seq(Statements) /\ Len(Tail(q)) = Len(q) - 1 /\ Len(q) \in Nat
      /\ \A n \in 1 .. Len(q) - 1 : Tail(q)[n] = q[n + 1]
    BY <1>3, TailIs
<1>6. ASSUME r = Tail(q), NEW n \in 1 .. Len(r), SaleAt(r, n) PROVE SoonAt(s, r, n, KeyOf(r[n].r))'
    <2>1. PICK m \in 1 .. Len(q) : m = n + 1 /\ r[n] = q[m]  BY <1>5, <1>6
    <2>2. PICK k \in Keys : k = KeyOf(r[n].r)
        <3>1. r[n] \in Statements  BY <2>1
        <3> QED BY <1>6, <3>1, StatementIs, KeysAre DEF SaleAt
    <2>3. SoonAt(s, q, m, k)  BY <1>3, <1>6, <2>1, <2>2 DEF Soon, SaleAt
    <2>4. (m = 2 /\ n = 1) \/ (m = 3 /\ n = 2)  BY <2>1, <2>3 DEF SoonAt
    <2>5. Clean(s) /\ asset[k] # Null /\ Quiet(q, m)  BY <2>3 DEF SoonAt
    <2>6. Quiet(r, n)
        <3> SUFFICES ASSUME NEW j \in 1 .. Len(r), j > n PROVE r[j].op \in QuietOps  BY DEF Quiet
        <3>1. j + 1 \in 1 .. Len(q) /\ j + 1 > m /\ r[j] = q[j + 1]  BY <1>5, <1>6, <2>1
        <3> QED BY <2>5, <3>1 DEF Quiet
    <2>7. AssetAt(s, k) = asset[k] /\ asset[k] \in AssetRows  BY <1>2, <2>5 DEF Clean, AssetAt, TypeInv
    <2>8. CASE m = 3 /\ n = 2
        <3>1. /\ st.op = "lock" /\ st.k = k /\ q[2].op = "check" /\ q[2].k = k /\ q[2].amount = q[3].r.amount
            BY <1>3, <2>3, <2>8 DEF SoonAt
        <3>2. Locks(s, st)  BY <1>1, <3>1 DEF Passes, Carries, Sums, Turns, WritesAsset, WritesTx
        <3>3. /\ asset' = asset /\ wtx' = wtx /\ wasset' = wasset /\ assetLock' = [assetLock EXCEPT ![k] = s]
            BY <2>5, <2>7, <3>1, <3>2 DEF Locks, Reads, dbVars, workVars
        <3>4. assetLock'[k] = s  BY <1>2, <3>3 DEF TypeInv
        <3>5. Clean(s)'  BY <2>5, <3>3 DEF Clean
        <3>6. r[1] = q[2]  BY <1>5, <1>6, <2>1, <2>8
        <3>7. r[2] = q[3]  BY <2>1, <2>8
        <3> QED BY <2>2, <2>5, <2>6, <2>8, <3>1, <3>3, <3>4, <3>5, <3>6, <3>7 DEF SoonAt
    <2>9. CASE m = 2 /\ n = 1
        <3>1. st.op = "check" /\ st.k = k /\ st.amount = q[2].r.amount /\ assetLock[k] = s
            BY <1>3, <2>3, <2>9 DEF SoonAt
        <3>2. Passes(s, st)  BY <1>1, <3>1 DEF Locks, Carries, Sums, Turns, WritesAsset, WritesTx
        <3>3. asset' = asset /\ wtx' = wtx /\ wasset' = wasset /\ assetLock' = assetLock
            BY <3>2 DEF Passes, Reads, dbVars, workVars
        <3>4. ~(st.amount > asset[k].pos.balance)  BY <2>7, <3>1, <3>2 DEF Passes
        <3>5. st.amount \in Nat /\ asset[k].pos.balance \in Int
            BY <1>3, <2>7, <3>1, StatementIs DEF AssetRows, Positions
        <3>6. r[1].r.amount <= asset[k].pos.balance  BY <2>1, <2>9, <3>1, <3>4, <3>5
        <3>7. Clean(s)'  BY <2>5, <3>3 DEF Clean
        <3> QED BY <2>2, <2>5, <2>6, <2>9, <3>1, <3>3, <3>6, <3>7 DEF SoonAt
    <2> QED BY <2>4, <2>8, <2>9
<1>7. ASSUME NEW new \in Statements, r = [q EXCEPT ![1] = new], new.op \in {"createAsset", "updatePos"},
             st.op \in {"ensureAsset", "recalc"}, NEW n \in 1 .. Len(r)
      PROVE  ~SaleAt(r, n)
    <2>1. Len(r) = Len(q) /\ r[1] = new /\ \A m \in 2 .. Len(q) : r[m] = q[m]  BY <1>3, <1>7, InsteadIs
    <2>2. SUFFICES ASSUME SaleAt(r, n) PROVE FALSE  OBVIOUS
    <2>3. n # 1  BY <1>7, <2>1, <2>2 DEF SaleAt
    <2>4. n \in 2 .. Len(q) /\ n \in 1 .. Len(q)  BY <1>5, <2>1, <2>3
    <2>5. SaleAt(q, n)  BY <2>1, <2>2, <2>4 DEF SaleAt
    <2>6. SoonAt(s, q, n, KeyOf(q[n].r))  BY <1>3, <2>4, <2>5 DEF Soon
    <2> QED BY <1>3, <1>7, <2>3, <2>6 DEF SoonAt
<1>8. ASSUME r = CarryProgram(s, st), st.op = "carry", NEW n \in 1 .. Len(r) PROVE ~SaleAt(r, n)
    <2>1. Carries(s, st)  BY <1>1, <1>8, TurnIs DEF Locks, Passes, Sums, Turns, WritesAsset, WritesTx
    <2>2. PICK d : d = <<st.d, st.k[2]>>  OBVIOUS
    <2>3. PICK x : x = Leg(s, st, st.k, "sell")  OBVIOUS
    <2>4. PICK y : y = Leg(s, st, d, "buy")  OBVIOUS
    <2>5. /\ Len(r) = 9 /\ x.group = no[s] /\ y.group = no[s]
          /\ r[1] = EnsureAsset(d) /\ r[2] = InsertTx(x) /\ r[3] = InsertTx(y)
          /\ r[4] = LockAsset(st.k) /\ r[5] = Recalc(st.k) /\ r[6] = SumPortfolio(st.k[1])
          /\ r[7] = LockAsset(d) /\ r[8] = Recalc(d) /\ r[9] = SumPortfolio(d[1])
        BY <1>1, <1>2, <1>8, <2>1, <2>2, <2>3, <2>4, CarryIs
    <2>6. /\ r[1].op = "ensureAsset" /\ r[2].r.group = no[s] /\ r[3].r.group = no[s] /\ r[4].op = "lock"
          /\ r[5].op = "recalc" /\ r[6].op = "sum" /\ r[7].op = "lock" /\ r[8].op = "recalc" /\ r[9].op = "sum"
        BY <2>5 DEF EnsureAsset, InsertTx, LockAsset, Recalc, SumPortfolio
    <2>7. no[s] # Null  BY <1>2, LedgerAssumption DEF TypeInv
    <2>8. n \in {1, 2, 3, 4, 5, 6, 7, 8, 9}  BY <2>5
    <2> QED BY <2>6, <2>7, <2>8 DEF SaleAt, IsSale
<1>9. \A n \in 1 .. Len(r) : SaleAt(r, n) => SoonAt(s, r, n, KeyOf(r[n].r))'
    BY <1>1, <1>3, <1>4, <1>6, <1>7, <1>8, ProgramIs
<1> QED BY <1>4, <1>9 DEF Soon

\* The insertion of a checked sale leaves a balance that is not negative, and so does all that follows.
LEMMA SoldRun ==
    ASSUME Base, TypeInv', DerInv, OldInv, NEW s \in Slots, RunsOn(s), Soon(s, todo[s]), Made(s, todo[s])
    PROVE  Made(s, todo[s])'
<1>0. TypeInv /\ LockInv  BY DEF Base
<1>1. PICK st : /\ Facing(s, st)
                /\ \/ Locks(s, st) \/ Passes(s, st) \/ Carries(s, st) \/ Sums(s, st)
                   \/ \E new : Turns(s, st, new)
                   \/ \E v : WritesAsset(s, st, v)
                   \/ \E i, v : WritesTx(s, st, i, v)
    BY DEF RunsOn
<1>2. PICK q \in Seq(Statements) : q = todo[s] /\ q # <<>> /\ st = q[1] /\ st \in Statements  BY <1>1, TailProgram
<1>3. PICK r : r = todo'[s]  OBVIOUS
<1>4. /\ Tail(q) \in Seq(Statements) /\ Len(Tail(q)) = Len(q) - 1 /\ Len(q) \in Nat /\ 1 \in 1 .. Len(q)
      /\ \A n \in 1 .. Len(q) - 1 : Tail(q)[n] = q[n + 1]
    BY <1>2, TailIs
<1>5. r = Tail(q) /\ Quiet(q, 1) => Quiet(r, 0)
    <2> SUFFICES ASSUME r = Tail(q), Quiet(q, 1), NEW j \in 1 .. Len(r) PROVE r[j].op \in QuietOps  BY DEF Quiet
    <2>1. j + 1 \in 1 .. Len(q) /\ j + 1 > 1 /\ r[j] = q[j + 1]  BY <1>4
    <2> QED BY <2>1 DEF Quiet
<1>6. Quiet(q, 0) => Quiet(q, 1) /\ st.op \in QuietOps  BY <1>2, <1>4 DEF Quiet
<1>7. Quiet(q, 0) => Quiet(r, 0)
    <2> SUFFICES ASSUME Quiet(q, 0) PROVE Quiet(r, 0)  OBVIOUS
    <2>1. st.op \notin {"carry", "ensureAsset"}  BY <1>6 DEF QuietOps
    <2>2. CASE r = Tail(q)  BY <1>5, <1>6, <2>2
    <2>3. ASSUME NEW new \in Statements, r = [q EXCEPT ![1] = new], new.op = "updatePos" PROVE Quiet(r, 0)
        <3>1. Len(r) = Len(q) /\ r[1] = new /\ \A m \in 2 .. Len(q) : r[m] = q[m]  BY <1>2, <2>3, InsteadIs
        <3> SUFFICES ASSUME NEW j \in 1 .. Len(r) PROVE r[j].op \in QuietOps  BY DEF Quiet
        <3>2. CASE j = 1  BY <2>3, <3>1, <3>2 DEF QuietOps
        <3>3. CASE j # 1
            <4>1. j \in 1 .. Len(q) /\ j \in 2 .. Len(q) /\ j > 0  BY <3>1, <3>3
            <4> QED BY <3>1, <4>1 DEF Quiet
        <3> QED BY <3>2, <3>3
    <2>4. ASSUME NEW new, Turns(s, st, new) PROVE new.op = "updatePos"  BY <1>1, <2>1, <2>4, TurnIs
    <2>5. (\E new : Turns(s, st, new)) \/ r = Tail(q)
        BY <1>0, <1>1, <1>2, <1>3, <2>1 DEF Locks, Passes, Carries, Sums, Reads, WritesAsset, WritesTx, TypeInv
    <2>6. ASSUME NEW new, Turns(s, st, new) PROVE new \in Statements /\ r = [q EXCEPT ![1] = new]
        BY <1>0, <1>1, <1>2, <1>3, <2>6, TurnIs DEF Turns, Reads, TypeInv
    <2> QED BY <2>2, <2>3, <2>4, <2>5, <2>6
<1>8. txs' = txs
    BY <1>1 DEF Locks, Passes, Carries, Sums, Turns, Reads, WritesAsset, WriteAsset, WritesTx, WriteTx, dbVars
<1>9. ASSUME NEW i \in Ids, IsTx(wtx'[s][i]), txs[i] = Null, IsSale(wtx'[s][i]), NEW k \in Keys, k = KeyOf(wtx'[s][i])
      PROVE  Quiet(r, 0) /\ \E pos : PosIs(s, k, pos)' /\ pos.balance >= 0
    <2>1. CASE \E j, v : WritesTx(s, st, j, v)
        <3>1. PICK j, v : WritesTx(s, st, j, v)  BY <2>1
        <3>2. /\ j \in Ids /\ wtx' = [wtx EXCEPT ![s][j] = v] /\ asset' = asset /\ wasset' = wasset
              /\ assetLock' = assetLock /\ r = Tail(q)
            BY <1>0, <1>2, <1>3, <3>1 DEF WritesTx, WriteTx, dbVars, TypeInv
        <3>3. wtx'[s][j] = v /\ \A l \in Ids : l # j => wtx'[s][l] = wtx[s][l]  BY <1>0, <3>2 DEF TypeInv
        <3>4. st.op \in {"insertTx", "updateTx", "deleteTx"}  BY <3>1 DEF WritesTx
        <3>5. j = i
            <4> SUFFICES ASSUME j # i PROVE FALSE  OBVIOUS
            <4>1. wtx'[s][i] = wtx[s][i]  BY <3>3
            <4>2. Quiet(q, 0)  BY <1>2, <1>9, <4>1 DEF Made
            <4> QED BY <1>6, <3>4, <4>2 DEF QuietOps
        <3>6. st.op = "insertTx"
            <4> SUFFICES ASSUME st.op \in {"updateTx", "deleteTx"} PROVE FALSE  BY <3>4
            <4>1. st.i = i /\ TxAt(s, i) # Null  BY <3>1, <3>5 DEF WritesTx
            <4>2. Pending(q, i, TxChanges)  BY <1>2, <1>4, <4>1 DEF Pending, TxChanges
            <4>3. Old(i)  BY <1>2, <4>2 DEF OldInv
            <4> QED BY <1>9, <4>1, <4>3 DEF TxAt, Old, IsTx
        <3>7. v = st.r /\ v \in TxRows /\ i = nextId  BY <1>0, <1>1, <3>1, <3>5, <3>6, TxWritten
        <3>8. v = wtx'[s][i] /\ KeyOf(v) = k /\ v.dir = "sell" /\ v.amount \in Nat
            BY <1>9, <3>3, <3>5, <3>7 DEF IsSale, TxRows
        <3>9. SaleAt(q, 1) /\ KeyOf(q[1].r) = k  BY <1>2, <1>9, <3>6, <3>7, <3>8 DEF SaleAt
        <3>10. SoonAt(s, q, 1, k)  BY <1>2, <1>4, <3>9 DEF Soon
        <3>11. /\ Quiet(q, 1) /\ Clean(s) /\ asset[k] # Null /\ assetLock[k] = s
               /\ v.amount <= asset[k].pos.balance
            BY <1>2, <3>7, <3>10 DEF SoonAt
        <3>12. PICK a \in [Ids -> TxRows \cup {Null}] : a = txs  BY <1>0 DEF TypeInv
        <3>13. PICK b \in [Ids -> TxRows \cup {Null}] : b = Txs(s)' /\ \A l \in Ids : b[l] = TxAt(s, l)'
            <4> DEFINE b == [l \in Ids |-> IF wtx'[s][l] = Same THEN txs'[l] ELSE wtx'[s][l]]
            <4>1. Txs(s)' = b  BY DEF Txs, TxAt
            <4>2. \A l \in Ids : b[l] = TxAt(s, l)'  BY DEF TxAt
            <4>3. \A l \in Ids : b[l] \in TxRows \cup {Null}  BY DEF TypeInv
            <4>4. b \in [Ids -> TxRows \cup {Null}]  BY <4>3
            <4> QED BY <4>1, <4>2, <4>4
        <3>14. b[i] = v /\ \A l \in Ids : l # i => a[l] = b[l]
            <4>1. \A l \in Ids : wtx[s][l] = Same  BY <3>11 DEF Clean
            <4>2. b[i] = v  BY <1>9, <3>8, <3>13 DEF TxAt, IsTx
            <4>3. \A l \in Ids : l # i => b[l] = txs[l]  BY <1>8, <3>3, <3>5, <3>13, <4>1 DEF TxAt
            <4> QED BY <3>12, <4>2, <4>3
        <3>15. asset[k] \in AssetRows /\ asset[k].lot \in LotSet  BY <1>0, <3>11 DEF TypeInv, AssetRows
        <3>16. asset[k].pos = Derive(asset[k].lot, a, k)  BY <3>11, <3>12 DEF DerInv, AssetIsDerived
        <3>17. a[i] = Null /\ b[i] # Null  BY <1>9, <3>7, <3>12, <3>14, RowsDiffer
        <3>18. Derive(asset[k].lot, b, k).balance = Derive(asset[k].lot, a, k).balance - v.amount
            BY <3>8, <3>14, <3>15, <3>17, SaleLowers
        <3>19. PICK pos : pos = Derive(asset[k].lot, b, k)  OBVIOUS
        <3>20. pos.balance >= 0
            <4>1. asset[k].pos.balance \in Int  BY <3>15 DEF AssetRows, Positions
            <4> QED BY <3>8, <3>11, <3>16, <3>18, <3>19, <4>1
        <3>21. AssetAt(s, k)' = asset[k]  BY <3>2, <3>11 DEF AssetAt, Clean
        <3>22. PosIs(s, k, pos)'  BY <3>2, <3>11, <3>13, <3>19, <3>21 DEF PosIs
        <3> QED BY <1>5, <3>2, <3>11, <3>20, <3>22
    <2>2. CASE ~\E j, v : WritesTx(s, st, j, v)
        <3>1. wtx' = wtx /\ asset' = asset
            BY <1>1, <2>2 DEF Locks, Passes, Carries, Sums, Turns, Reads, WritesAsset, WriteAsset, dbVars, workVars
        <3>2. PICK pos : Quiet(q, 0) /\ PosIs(s, k, pos) /\ pos.balance >= 0  BY <1>2, <1>9, <3>1 DEF Made
        <3>3. assetLock[k] = s /\ AssetAt(s, k) # Null /\ pos = Derive(AssetAt(s, k).lot, Txs(s), k)
            BY <3>2 DEF PosIs
        <3>4. Txs(s)' = Txs(s)  BY <1>8, <3>1 DEF Txs, TxAt
        <3>5. assetLock'[k] = s /\ AssetAt(s, k)' # Null /\ AssetAt(s, k)'.lot = AssetAt(s, k).lot
            <4>1. CASE \E v : WritesAsset(s, st, v)
                <5>1. PICK v : WritesAsset(s, st, v)  BY <4>1
                <5>2. st.op = "updatePos"  BY <1>6, <3>2, <5>1 DEF WritesAsset, QuietOps
                <5>3. PICK c \in Keys : c = st.k  BY <1>0, <1>1, <5>1, AssetWritten
                <5>4. v \in AssetRows /\ v # Null /\ v # Same /\ v.lot = AssetAt(s, c).lot
                    BY <1>0, <1>1, <5>1, <5>2, <5>3, AssetWritten, RowsDiffer
                <5>5. wasset' = [wasset EXCEPT ![s][c] = v] /\ assetLock' = [assetLock EXCEPT ![c] = s]
                    BY <5>1, <5>3 DEF WritesAsset, WriteAsset
                <5>6. /\ wasset'[s][c] = v /\ assetLock'[c] = s
                      /\ \A l \in Keys : l # c => wasset'[s][l] = wasset[s][l] /\ assetLock'[l] = assetLock[l]
                    BY <1>0, <5>5 DEF TypeInv
                <5>7. CASE k = c
                    <6>1. AssetAt(s, k)' = v  BY <5>4, <5>6, <5>7 DEF AssetAt
                    <6> QED BY <5>4, <5>6, <5>7, <6>1
                <5>8. CASE k # c
                    <6>1. AssetAt(s, k)' = AssetAt(s, k)  BY <3>1, <5>6, <5>8 DEF AssetAt
                    <6> QED BY <3>3, <5>6, <5>8, <6>1
                <5> QED BY <5>7, <5>8
            <4>2. CASE ~\E v : WritesAsset(s, st, v)
                <5>1. wasset' = wasset
                    BY <1>1, <2>2, <4>2 DEF Locks, Passes, Carries, Sums, Turns, Reads, workVars
                <5>2. AssetAt(s, k)' = AssetAt(s, k)  BY <3>1, <5>1 DEF AssetAt
                <5>3. assetLock'[k] = s
                    <6>1. CASE Locks(s, st)
                        <7>1. assetLock' = assetLock \/ assetLock' = [assetLock EXCEPT ![st.k] = s]
                            BY <6>1 DEF Locks
                        <7> QED BY <1>0, <3>3, <7>1 DEF TypeInv
                    <6>2. CASE ~Locks(s, st)
                        <7>1. assetLock' = assetLock
                            BY <1>1, <2>2, <4>2, <6>2 DEF Passes, Carries, Sums, Turns
                        <7> QED BY <3>3, <7>1
                    <6> QED BY <6>1, <6>2
                <5> QED BY <3>3, <5>2, <5>3
            <4> QED BY <4>1, <4>2
        <3>6. PosIs(s, k, pos)'  BY <3>3, <3>4, <3>5 DEF PosIs
        <3> QED BY <1>7, <3>2, <3>6
    <2> QED BY <2>1, <2>2
<1>10. ASSUME NEW i \in Ids, IsTx(wtx'[s][i]), txs'[i] = Null, IsSale(wtx'[s][i])
       PROVE  Quiet(r, 0) /\ \E pos : PosIs(s, KeyOf(wtx[s][i]), pos)' /\ pos.balance >= 0
    <2>1. PICK k \in Keys : k = KeyOf(wtx'[s][i])
        <3>1. wtx'[s][i] \in TxRows  BY <1>10 DEF TypeInv, IsTx
        <3> QED BY <3>1, KeysAre
    <2>2. PICK pos : Quiet(r, 0) /\ PosIs(s, k, pos)' /\ pos.balance >= 0  BY <1>8, <1>9, <1>10, <2>1
    <2>3. PosIs(s, KeyOf(wtx[s][i]), pos)'  BY <2>1, <2>2 DEF PosIs
    <2> QED BY <2>2, <2>3
<1> QED BY <1>3, <1>10 DEF Made

LEMMA SaleStep ==
    ASSUME Base, DerInv, Derivable, "import" \notin Kinds, OldInv, SaleInv, [Next]_vars
    PROVE  SaleInv'
<1>0. TypeInv /\ LockInv /\ TypeInv'  BY BaseStep DEF Base
<1>1. CASE UNCHANGED vars
    <2>1. /\ UNCHANGED <<txs, asset, net, nextId, active, todo, no, wtx, wasset, wnet>>
          /\ UNCHANGED <<txLock, assetLock, pfLock, pfShare>>
        BY <1>1 DEF vars, dbVars, workVars, lockVars
    <2>2. Shrinks  BY <1>0, <2>1 DEF Shrinks, BelongsTo, TypeInv
    <2>3. \A o \in Slots : Kept(o) /\ Spares(o)  BY <2>1, <2>2 DEF Kept, Spares
    <2>4. \A o \in Slots : Soon(o, todo[o])' /\ Made(o, todo[o])'  BY <1>0, <2>3, SaleOther DEF SaleInv
    <2> QED BY <2>4 DEF SaleInv
<1>2. CASE Next
    <2>1. PICK s \in Slots : Starts(s) \/ Ends(s) \/ RunsOn(s)  BY <1>0, <1>2, NextIs
    <2>2. \A o \in Slots : o # s => Kept(o) /\ Spares(o)  BY <1>0, <2>1, StepSpares
    <2>3. \A o \in Slots : o # s => Soon(o, todo[o])' /\ Made(o, todo[o])'
        BY <1>0, <2>2, SaleOther DEF SaleInv
    <2>4. Soon(s, todo[s])' /\ Made(s, todo[s])'
        <3>1. CASE Starts(s)  BY <3>1, SaleStart
        <3>2. CASE Ends(s)  BY <1>0, <3>2, SaleEnd
        <3>3. CASE RunsOn(s)  BY <1>0, <3>3, SoonRun, SoldRun DEF SaleInv
        <3> QED BY <2>1, <3>1, <3>2, <3>3
    <2> QED BY <2>3, <2>4 DEF SaleInv
<1> QED BY <1>1, <1>2

LEMMA SaleInit == Init => SaleInv
<1> SUFFICES ASSUME Init, NEW s \in Slots PROVE Soon(s, todo[s]) /\ Made(s, todo[s])  BY DEF SaleInv
<1>1. PICK q : q = todo[s] /\ q = <<>>  BY DEF Init
<1>2. \A n \in 1 .. Len(q) : FALSE  BY <1>1
<1>3. \A i \in Ids : wtx[s][i] = Same  BY DEF Init
<1>4. Soon(s, todo[s])  BY <1>1, <1>2 DEF Soon
<1> QED BY <1>3, <1>4 DEF Made, IsTx

\* What SalesAreCovered says of a step.
CoveredStep ==
    \A i \in Ids : \A k \in Keys :
        (/\ txs[i] = Null /\ txs'[i] # Null
         /\ txs'[i].dir = "sell" /\ txs'[i].group = Null
         /\ KeyOf(txs'[i]) = k /\ asset'[k] # Null)
        => asset'[k].pos.balance >= 0

LEMMA SaleCommits ==
    ASSUME Base, DerInv, SaleInv, [Next]_vars
    PROVE  CoveredStep
<1>0. TypeInv /\ LockInv  BY DEF Base
<1>1. CASE txs' = txs  BY <1>1 DEF CoveredStep
<1>2. ASSUME NEW s \in Slots, Commit(s) PROVE CoveredStep
    <2>1. /\ todo[s] = <<>> /\ \A i \in Ids : txs'[i] = TxAt(s, i)
          /\ \A k \in Keys : asset'[k] = AssetAt(s, k)
        BY <1>0, <1>2, CommitIs
    <2> SUFFICES ASSUME NEW i \in Ids, NEW k \in Keys, txs[i] = Null, txs'[i] # Null, txs'[i].dir = "sell",
                        txs'[i].group = Null, KeyOf(txs'[i]) = k, asset'[k] # Null
                 PROVE  asset'[k].pos.balance >= 0
        BY DEF CoveredStep
    <2>2. txs'[i] = wtx[s][i] /\ IsTx(wtx[s][i])  BY <2>1 DEF TxAt, IsTx
    <2>3. PICK pos : PosIs(s, k, pos) /\ pos.balance >= 0  BY <2>2 DEF SaleInv, Made, IsSale
    <2>4. Touched(s, k)  BY <2>2 DEF Touched, OfKey, IsTx
    <2>5. PosIs(s, k, AssetAt(s, k).pos)  BY <2>1, <2>4, EmptyHas DEF DerInv, Local, PosAhead, Heads
    <2> QED BY <2>1, <2>3, <2>5 DEF PosIs
<1>3. CASE UNCHANGED vars  BY <1>1, <1>3 DEF vars, dbVars
<1>4. CASE Next
    <2>1. PICK s \in Slots : Starts(s) \/ Ends(s) \/ RunsOn(s)  BY <1>0, <1>4, NextIs
    <2> QED BY <1>0, <1>1, <1>2, <2>1, RowsKeep
<1> QED BY <1>3, <1>4

\* A sale that commits leaves its holding with a balance that is not negative, whatever other requests
\* do meanwhile: createTransaction locks the asset, checks the balance and inserts the sale before
\* anybody else can write the holding. The import is left out, which checks balances it has read
\* before its transaction.
THEOREM SalesSafety ==
    ASSUME Kinds \cap {"retoken", "retime", "net", "remove", "import"} = {} PROVE Spec => SalesAreCovered
<1>1. Derivable /\ "import" \notin Kinds  BY DEF Derivable
<1>2. Init => Base /\ DerInv /\ OldInv /\ SaleInv  BY InitBase, DerInit, OldInit, SaleInit
<1>3. Base /\ DerInv /\ OldInv /\ SaleInv /\ [Next]_vars => (Base /\ DerInv /\ OldInv /\ SaleInv)'
    BY <1>1, BaseStep, DerStep, OldStep, SaleStep
<1>4. Base /\ DerInv /\ OldInv /\ SaleInv /\ [Next]_vars
      => [\A i \in Ids : \A k \in Keys :
             (/\ txs[i] = Null /\ txs'[i] # Null
              /\ txs'[i].dir = "sell" /\ txs'[i].group = Null
              /\ KeyOf(txs'[i]) = k /\ asset'[k] # Null)
             => asset'[k].pos.balance >= 0]_vars
    BY SaleCommits DEF CoveredStep
<1> QED BY <1>2, <1>3, <1>4, PTL DEF Spec, SalesAreCovered

-----------------------------------------------------------------------------
(* The legs of a transfer are paired *)

\* A leg still to be inserted, and one inserted and not committed.
LegAt(q, n)   == q[n].op = "insertTx" /\ q[n].r.group # Null
NoLegs(q, n)  == \A m \in 1 .. Len(q) : m > n => ~LegAt(q, m)
NewLeg(s, i)  == IsTx(wtx[s][i]) /\ txs[i] = Null /\ wtx[s][i].group # Null
Pair(x, y)    == /\ {x.dir, y.dir} = {"sell", "buy"} /\ x.pf # y.pf /\ x.tok = y.tok
                 /\ x.amount = y.amount /\ x.usd = y.usd /\ x.group = y.group

\* A request inserts no legs, or two legs with its own serial number: one statement is left before the
\* first of them, none, the second is left, or both are in.
NoneNew(s) == \A i \in Ids : ~NewLeg(s, i)
Leg0(s, q) == NoneNew(s) /\ NoLegs(q, 0)
Leg1(s, q) == /\ NoneNew(s) /\ Len(q) >= 3 /\ ~LegAt(q, 1) /\ LegAt(q, 2) /\ LegAt(q, 3) /\ NoLegs(q, 3)
              /\ Pair(q[2].r, q[3].r) /\ q[2].r.group = no[s]
Leg2(s, q) == /\ NoneNew(s) /\ Len(q) >= 2 /\ LegAt(q, 1) /\ LegAt(q, 2) /\ NoLegs(q, 2)
              /\ Pair(q[1].r, q[2].r) /\ q[1].r.group = no[s]
Leg3(s, q) == /\ Len(q) >= 1 /\ LegAt(q, 1) /\ NoLegs(q, 1)
              /\ \E i \in Ids : /\ \A l \in Ids : NewLeg(s, l) <=> l = i
                                /\ Pair(wtx[s][i], q[1].r) /\ wtx[s][i].group = no[s]
Leg4(s, q) == /\ NoLegs(q, 0) /\ \A m \in 1 .. Len(q) : q[m].op # "carry"
              /\ \E i, j \in Ids : /\ i # j /\ \A l \in Ids : NewLeg(s, l) <=> l \in {i, j}
                                   /\ Pair(wtx[s][i], wtx[s][j]) /\ wtx[s][i].group = no[s]
LegState(s, q) == Leg0(s, q) \/ Leg1(s, q) \/ Leg2(s, q) \/ Leg3(s, q) \/ Leg4(s, q)

\* An edited transaction is no leg, and no leg is edited.
Ungrouped(s) ==
    /\ \A i \in Ids : IsTx(wtx[s][i]) /\ txs[i] # Null => txs[i].group = Null /\ wtx[s][i].group = Null
    /\ \A i \in Ids : Pending(todo[s], i, {"updateTx"}) /\ txs[i] # Null => txs[i].group = Null

\* A request deletes all the legs of a transfer or none.
Dels(s, i)  == wtx[s][i] = Null \/ Pending(todo[s], i, {"deleteTx"})
Together(s) == \A i, j \in Ids : /\ Dels(s, i) /\ txs[i] # Null /\ txs[i].group # Null
                                 /\ txs[j] # Null /\ txs[j].group = txs[i].group
                                 => Dels(s, j)

\* A group is the serial number of the request that made it, and those in progress have others.
Numbers ==
    /\ \A i \in Ids : txs[i] # Null /\ txs[i].group # Null =>
           txs[i].group \in 1 .. nreq /\ \A s \in active : no[s] # txs[i].group
    /\ \A s \in active : no[s] \in 1 .. nreq /\ \A o \in active : o # s => no[o] # no[s]

LegInv ==
    /\ LegsArePaired /\ Numbers
    /\ \A s \in Slots : LegState(s, todo[s]) /\ Ungrouped(s) /\ Together(s)

LEMMA RunKeeps ==
    ASSUME NEW s \in Slots, RunsOn(s)
    PROVE  txs' = txs /\ no' = no /\ active' = active /\ nreq' = nreq
BY DEF RunsOn, Locks, Passes, Carries, Sums, Turns, Reads, WritesAsset, WriteAsset, WritesTx, WriteTx, dbVars, workVars

\* A transaction that o has locked stays.
LEMMA LockedStays ==
    ASSUME Base, NEW s \in Slots, Starts(s) \/ Ends(s) \/ RunsOn(s), NEW o \in Slots, o # s, NEW i \in Ids, txLock[i] = o
    PROVE  txs'[i] = txs[i]
<1>1. TypeInv /\ LockInv  BY DEF Base
<1>2. CASE Commit(s)
    <2>1. wtx[s][i] = Same  BY <1>1 DEF LockInv
    <2> QED BY <1>1, <1>2, <2>1, CommitIs DEF TxAt
<1> QED BY <1>1, <1>2, RowsKeep

\* The program moves on and the new legs stay.
LEMMA LegTail ==
    ASSUME NEW q \in Seq(Statements), q # <<>>
    PROVE  /\ NoLegs(q, 0) => NoLegs(Tail(q), 0) /\ ~LegAt(q, 1)
           /\ NoLegs(q, 1) => NoLegs(Tail(q), 0)
           /\ NoLegs(q, 2) => NoLegs(Tail(q), 1)
           /\ NoLegs(q, 3) => NoLegs(Tail(q), 2)
           /\ Len(q) >= 2 => Tail(q)[1] = q[2] /\ Len(Tail(q)) >= 1
           /\ Len(q) >= 3 => Tail(q)[2] = q[3] /\ Len(Tail(q)) >= 2
<1>1. PICK r : r = Tail(q)  OBVIOUS
<1>2. /\ Len(r) = Len(q) - 1 /\ Len(q) \in Nat /\ 1 \in 1 .. Len(q)
      /\ \A n \in 1 .. Len(q) - 1 : r[n] = q[n + 1]
    BY <1>1, TailIs
<1>3. ASSUME NEW n \in Nat, NoLegs(q, n + 1) PROVE NoLegs(r, n)
    <2> SUFFICES ASSUME NEW m \in 1 .. Len(r), m > n PROVE ~LegAt(r, m)  BY DEF NoLegs
    <2>1. m + 1 \in 1 .. Len(q) /\ m + 1 > n + 1 /\ r[m] = q[m + 1]  BY <1>2
    <2> QED BY <1>3, <2>1 DEF NoLegs, LegAt
<1>4. NoLegs(q, 0) => NoLegs(q, 1) /\ ~LegAt(q, 1)  BY <1>2 DEF NoLegs
<1>5. 0 \in Nat /\ 1 \in Nat /\ 2 \in Nat /\ 0 + 1 = 1 /\ 1 + 1 = 2 /\ 2 + 1 = 3  OBVIOUS
<1>6. Len(q) >= 2 => r[1] = q[2] /\ Len(r) >= 1
    <2>1. Len(q) >= 2 => 1 \in 1 .. Len(q) - 1  BY <1>2
    <2> QED BY <1>2, <1>5, <2>1
<1>7. Len(q) >= 3 => r[2] = q[3] /\ Len(r) >= 2
    <2>1. Len(q) >= 3 => 2 \in 1 .. Len(q) - 1  BY <1>2
    <2> QED BY <1>2, <1>5, <2>1
<1>8. NoLegs(q, 0 + 1) => NoLegs(r, 0)  BY <1>3
<1>9. NoLegs(q, 1 + 1) => NoLegs(r, 1)  BY <1>3
<1>10. NoLegs(q, 2 + 1) => NoLegs(r, 2)  BY <1>3
<1> QED BY <1>1, <1>4, <1>5, <1>6, <1>7, <1>8, <1>9, <1>10

\* The legs a slot has inserted stay as they are.
SameLegs(s) == /\ no'[s] = no[s]
               /\ \A i \in Ids : /\ NewLeg(s, i)' <=> NewLeg(s, i)
                                 /\ NewLeg(s, i) => wtx'[s][i] = wtx[s][i]

LEMMA LegKept ==
    ASSUME NEW s \in Slots, SameLegs(s), NEW q, LegState(s, q)
    PROVE  LegState(s, q)'
<1>1. NoneNew(s) => NoneNew(s)'  BY DEF SameLegs, NoneNew
<1>2. Leg0(s, q) => Leg0(s, q)'  BY <1>1 DEF Leg0
<1>3. Leg1(s, q) => Leg1(s, q)'  BY <1>1 DEF Leg1, SameLegs
<1>4. Leg2(s, q) => Leg2(s, q)'  BY <1>1 DEF Leg2, SameLegs
<1>5. Leg3(s, q) => Leg3(s, q)'
    <2> SUFFICES ASSUME Leg3(s, q) PROVE Leg3(s, q)'  OBVIOUS
    <2>1. PICK i \in Ids : /\ \A l \in Ids : NewLeg(s, l) <=> l = i
                           /\ Pair(wtx[s][i], q[1].r) /\ wtx[s][i].group = no[s]
        BY DEF Leg3
    <2>2. wtx'[s][i] = wtx[s][i] /\ no'[s] = no[s] /\ \A l \in Ids : NewLeg(s, l)' <=> l = i
        BY <2>1 DEF SameLegs
    <2> QED BY <2>1, <2>2 DEF Leg3
<1>6. Leg4(s, q) => Leg4(s, q)'
    <2> SUFFICES ASSUME Leg4(s, q) PROVE Leg4(s, q)'  OBVIOUS
    <2>1. PICK i, j \in Ids : /\ i # j /\ \A l \in Ids : NewLeg(s, l) <=> l \in {i, j}
                              /\ Pair(wtx[s][i], wtx[s][j]) /\ wtx[s][i].group = no[s]
        BY DEF Leg4
    <2>2. /\ wtx'[s][i] = wtx[s][i] /\ wtx'[s][j] = wtx[s][j] /\ no'[s] = no[s]
          /\ \A l \in Ids : NewLeg(s, l)' <=> l \in {i, j}
        BY <2>1 DEF SameLegs
    <2> QED BY <2>1, <2>2 DEF Leg4
<1> QED BY <1>2, <1>3, <1>4, <1>5, <1>6 DEF LegState

\* A statement that inserts no leg has run.
LEMMA LegPast ==
    ASSUME NEW s \in Slots, NEW q \in Seq(Statements), q # <<>>, LegState(s, q), ~LegAt(q, 1)
    PROVE  LegState(s, Tail(q))
<1>1. Leg0(s, q) \/ Leg1(s, q) \/ Leg4(s, q)  BY DEF LegState, Leg2, Leg3
<1>2. CASE Leg0(s, q)  BY <1>2, LegTail DEF Leg0, LegState
<1>3. CASE Leg1(s, q)
    <2>1. PICK r : r = Tail(q)  OBVIOUS
    <2>2. r[1] = q[2] /\ r[2] = q[3] /\ Len(r) >= 2 /\ NoLegs(r, 2)
        <3>1. Len(q) >= 3 /\ NoLegs(q, 3) /\ Len(q) \in Nat  BY <1>3, TailIs DEF Leg1
        <3>2. Len(q) >= 2  BY <3>1
        <3> QED BY <2>1, <3>1, <3>2, LegTail
    <2>3. Leg2(s, r)  BY <1>3, <2>2 DEF Leg1, Leg2, LegAt
    <2> QED BY <2>1, <2>3 DEF LegState
<1>4. CASE Leg4(s, q)
    <2>1. PICK r : r = Tail(q)  OBVIOUS
    <2>2. NoLegs(r, 0)  BY <1>4, <2>1, LegTail DEF Leg4
    <2>3. ASSUME NEW m \in 1 .. Len(r) PROVE r[m].op # "carry"
        <3>1. m + 1 \in 1 .. Len(q) /\ r[m] = q[m + 1]  BY <2>1, TailIs
        <3> QED BY <1>4, <3>1 DEF Leg4
    <2>4. Leg4(s, r)  BY <1>4, <2>2, <2>3 DEF Leg4
    <2> QED BY <2>1, <2>4 DEF LegState
<1> QED BY <1>1, <1>2, <1>3, <1>4

\* The head of the program is replaced: what it inserts is the same.
LEMMA LegTurn ==
    ASSUME NEW s \in Slots, NEW q \in Seq(Statements), q # <<>>, LegState(s, q), NEW new \in Statements,
           q[1].op \in {"ensureAsset", "recalc"}, new.op \in {"createAsset", "updatePos"}
    PROVE  LegState(s, [q EXCEPT ![1] = new])
<1>1. PICK r : r = [q EXCEPT ![1] = new]  OBVIOUS
<1>2. Len(r) = Len(q) /\ Len(q) \in Nat /\ r[1] = new /\ \A n \in 2 .. Len(q) : r[n] = q[n]
    BY <1>1, InsteadIs
<1>3. ~LegAt(q, 1) /\ ~LegAt(r, 1)  BY <1>2 DEF LegAt
<1>4. \A n \in 1 .. Len(q) : n = 1 \/ n \in 2 .. Len(q)  BY <1>2
<1>5. \A n \in 1 .. Len(q) : LegAt(r, n) <=> LegAt(q, n)  BY <1>2, <1>3, <1>4 DEF LegAt
<1>6. \A n \in Nat : NoLegs(q, n) => NoLegs(r, n)  BY <1>2, <1>5 DEF NoLegs
<1>7. CASE Leg0(s, q)  BY <1>1, <1>6, <1>7 DEF Leg0, LegState
<1>8. CASE Leg1(s, q)
    <2>1. Len(q) >= 3 /\ 2 \in 2 .. Len(q) /\ 3 \in 2 .. Len(q)  BY <1>2, <1>8 DEF Leg1
    <2>2. r[2] = q[2] /\ r[3] = q[3]  BY <1>2, <2>1
    <2>3. NoLegs(r, 3)  BY <1>6, <1>8 DEF Leg1
    <2>4. LegAt(r, 2) /\ LegAt(r, 3)  BY <1>8, <2>2 DEF Leg1, LegAt
    <2>5. Leg1(s, r)  BY <1>2, <1>3, <1>8, <2>1, <2>2, <2>3, <2>4 DEF Leg1
    <2> QED BY <1>1, <2>5 DEF LegState
<1>9. CASE Leg4(s, q)
    <2>1. \A m \in 1 .. Len(r) : r[m].op # "carry"
        <3>1. new.op # "carry"  OBVIOUS
        <3> QED BY <1>2, <1>4, <1>9, <3>1 DEF Leg4
    <2>2. NoLegs(r, 0)  BY <1>6, <1>9 DEF Leg4
    <2>3. Leg4(s, r)  BY <1>9, <2>1, <2>2 DEF Leg4
    <2> QED BY <1>1, <2>3 DEF LegState
<1> QED BY <1>3, <1>7, <1>8, <1>9 DEF LegState, Leg2, Leg3

LEMMA LegIs ==
    ASSUME NEW s \in Slots, NEW r, r = todo'[s], LegState(s, r)'
    PROVE  LegState(s, todo[s])'
BY DEF LegState, Leg0, Leg1, Leg2, Leg3, Leg4, NoLegs, LegAt, Pair

\* The guard of a transfer has passed: its two legs are planned.
LEMMA LegCarry ==
    ASSUME Base, NEW s \in Slots, NEW st, Facing(s, st), Carries(s, st), LegState(s, todo[s])
    PROVE  LegState(s, CarryProgram(s, st))
<1>1. TypeInv  BY DEF Base
<1>2. PICK q \in Seq(Statements) : q = todo[s] /\ q # <<>> /\ st = q[1] /\ st \in Statements /\ Good(q)
    BY TailProgram
<1>3. st.op = "carry"  BY DEF Carries
<1>4. Len(q) \in Nat /\ 1 \in 1 .. Len(q)  BY <1>2, TailIs
<1>5. (\A m \in 1 .. Len(q) : q[m].op \in {"lock", "carry"}) /\ st.d # st.k[1]
    BY <1>2, <1>3, <1>4 DEF Good, GoodAt
<1>6. NoneNew(s)
    <2>1. ~Leg4(s, q)  BY <1>2, <1>3, <1>4 DEF Leg4
    <2>2. ~Leg2(s, q) /\ ~Leg3(s, q)  BY <1>2, <1>3 DEF Leg2, Leg3, LegAt
    <2>3. ~Leg1(s, q)
        <3> SUFFICES ASSUME Leg1(s, q) PROVE FALSE  OBVIOUS
        <3>1. 2 \in 1 .. Len(q)  BY <1>4 DEF Leg1
        <3>2. q[2].op = "insertTx"  BY DEF Leg1, LegAt
        <3> QED BY <1>5, <3>1, <3>2
    <2> QED BY <1>2, <2>1, <2>2, <2>3 DEF LegState, Leg0
<1>7. PICK r : r = CarryProgram(s, st)  OBVIOUS
<1>8. PICK d : d = <<st.d, st.k[2]>>  OBVIOUS
<1>9. PICK x : x = Leg(s, st, st.k, "sell")  OBVIOUS
<1>10. PICK y : y = Leg(s, st, d, "buy")  OBVIOUS
<1>11. /\ Len(r) = 9 /\ x.group = no[s] /\ y.group = no[s]
       /\ x \in TxRows /\ y \in TxRows /\ KeyOf(x) = st.k /\ KeyOf(y) = d /\ d[1] = st.d /\ d[2] = st.k[2]
       /\ x.dir = "sell" /\ y.dir = "buy" /\ x.amount = y.amount /\ x.usd = y.usd
       /\ r[1] = EnsureAsset(d) /\ r[2] = InsertTx(x) /\ r[3] = InsertTx(y)
       /\ r[4] = LockAsset(st.k) /\ r[5] = Recalc(st.k) /\ r[6] = SumPortfolio(st.k[1])
       /\ r[7] = LockAsset(d) /\ r[8] = Recalc(d) /\ r[9] = SumPortfolio(d[1])
    BY <1>1, <1>7, <1>8, <1>9, <1>10, CarryIs
<1>12. /\ r[1].op = "ensureAsset" /\ r[2].op = "insertTx" /\ r[3].op = "insertTx"
       /\ r[2].r = x /\ r[3].r = y /\ r[4].op = "lock"
       /\ r[5].op = "recalc" /\ r[6].op = "sum" /\ r[7].op = "lock" /\ r[8].op = "recalc" /\ r[9].op = "sum"
    BY <1>11 DEF EnsureAsset, InsertTx, LockAsset, Recalc, SumPortfolio
<1>13. no[s] # Null  BY <1>1, LedgerAssumption DEF TypeInv
<1>14. x.pf = st.k[1] /\ y.pf = st.d /\ x.tok = st.k[2] /\ y.tok = st.k[2]
    <2>1. KeyOf(x)[1] = x.pf /\ KeyOf(x)[2] = x.tok /\ KeyOf(y)[1] = y.pf /\ KeyOf(y)[2] = y.tok
        BY <1>11, KeysAre
    <2> QED BY <1>11, <2>1
<1>15. Pair(x, y)  BY <1>5, <1>11, <1>14 DEF Pair
<1>16. NoLegs(r, 3)
    <2> SUFFICES ASSUME NEW m \in 1 .. Len(r), m > 3 PROVE ~LegAt(r, m)  BY DEF NoLegs
    <2>1. m \in {4, 5, 6, 7, 8, 9}  BY <1>11
    <2> QED BY <1>12, <2>1 DEF LegAt
<1>17. ~LegAt(r, 1) /\ LegAt(r, 2) /\ LegAt(r, 3)  BY <1>11, <1>12, <1>13 DEF LegAt
<1>18. Pair(r[2].r, r[3].r) /\ r[2].r.group = no[s]  BY <1>11, <1>12, <1>15
<1>19. Len(r) >= 3  BY <1>11
<1>20. Leg1(s, r)  BY <1>6, <1>16, <1>17, <1>18, <1>19 DEF Leg1
<1> QED BY <1>7, <1>20 DEF LegState

\* A transaction that is changed or deleted is no new leg.
LEMMA LegWrite ==
    ASSUME Base, OldInv, NEW s \in Slots, NEW st, Facing(s, st), NEW i, NEW v, WritesTx(s, st, i, v),
           st.op # "insertTx" \/ v.group = Null
    PROVE  SameLegs(s)
<1>1. TypeInv /\ LockInv  BY DEF Base
<1>2. txs' = txs /\ no' = no /\ wtx' = [wtx EXCEPT ![s][i] = v] /\ i \in Ids
    BY DEF WritesTx, WriteTx, dbVars
<1>3. \A l \in Ids : wtx'[s][l] = IF l = i THEN v ELSE wtx[s][l]  BY <1>1, <1>2 DEF TypeInv
<1>4. ~NewLeg(s, i) /\ ~NewLeg(s, i)'
    <2>1. CASE st.op = "insertTx"
        <3>1. i = nextId  BY <2>1, <1>1, TxWritten
        <3>2. wtx[s][i] = Same
            <4>1. txLock[i] = Free /\ s # Free
                <5>1. i \in Nat /\ nextId \in Nat /\ i >= nextId  BY <1>1, <1>2, <3>1 DEF TypeInv, Ids
                <5> QED BY <1>1, <1>2, <5>1, LedgerAssumption DEF LockInv
            <4> QED BY <1>1, <1>2, <4>1 DEF LockInv
        <3>3. wtx'[s][i] = v /\ v.group = Null  BY <1>2, <1>3, <2>1
        <3> QED BY <3>2, <3>3 DEF NewLeg, IsTx
    <2>2. CASE st.op # "insertTx"
        <3>1. PICK q \in Seq(Statements) : q = todo[s] /\ q # <<>> /\ st = q[1]  BY TailProgram
        <3>2. st.op \in TxChanges /\ st.i = i  BY <1>1, <2>2, TxWritten DEF TxChanges
        <3>3. Pending(todo[s], i, TxChanges)
            <4>1. 1 \in 1 .. Len(q)  BY <3>1, TailIs
            <4> QED BY <3>1, <3>2, <4>1 DEF Pending
        <3>4. Old(i)  BY <1>2, <3>3 DEF OldInv
        <3>5. TxAt(s, i) # Null  BY <1>1, <2>2, RowsDiffer, TxWritten
        <3>6. txs[i] # Null  BY <3>4, <3>5 DEF TxAt, Old, IsTx
        <3> QED BY <1>2, <3>6 DEF NewLeg
    <2> QED BY <2>1, <2>2
<1>5. \A l \in Ids : l # i => (NewLeg(s, l)' <=> NewLeg(s, l)) /\ wtx'[s][l] = wtx[s][l]
    BY <1>2, <1>3 DEF NewLeg
<1> QED BY <1>2, <1>4, <1>5 DEF SameLegs

\* A leg is inserted.
LEMMA LegInsert ==
    ASSUME Base, NEW s \in Slots, NEW st, Facing(s, st), NEW i, NEW v, WritesTx(s, st, i, v),
           st.op = "insertTx", v.group # Null, LegState(s, todo[s]), NEW r, r = Tail(todo[s])
    PROVE  LegState(s, r)'
<1>1. TypeInv /\ LockInv  BY DEF Base
<1>2. txs' = txs /\ no' = no /\ wtx' = [wtx EXCEPT ![s][i] = v] /\ i \in Ids
    BY DEF WritesTx, WriteTx, dbVars
<1>3. \A l \in Ids : wtx'[s][l] = IF l = i THEN v ELSE wtx[s][l]  BY <1>1, <1>2 DEF TypeInv
<1>4. PICK q \in Seq(Statements) : q = todo[s] /\ q # <<>> /\ st = q[1] /\ Good(q)  BY TailProgram
<1>5. v = q[1].r /\ v \in TxRows /\ i = nextId  BY <1>1, <1>4, TxWritten
<1>6. txs[i] = Null /\ wtx[s][i] = Same
    <2>1. i \in Nat /\ nextId \in Nat /\ i >= nextId  BY <1>1, <1>2, <1>5 DEF TypeInv, Ids
    <2>2. txs[i] = Null /\ txLock[i] = Free /\ s # Free  BY <1>1, <1>2, <2>1, LedgerAssumption DEF LockInv
    <2> QED BY <1>1, <1>2, <2>2 DEF LockInv
<1>7. IsTx(v)  BY <1>5, RowsDiffer DEF IsTx
<1>8. ~NewLeg(s, i) /\ NewLeg(s, i)'  BY <1>2, <1>3, <1>6, <1>7 DEF NewLeg, IsTx
<1>9. \A l \in Ids : l # i => (NewLeg(s, l)' <=> NewLeg(s, l))  BY <1>2, <1>3 DEF NewLeg
<1>10. LegAt(q, 1)  BY <1>4, <1>5 DEF LegAt
<1>11. r = Tail(q)  BY <1>4
<1>12. /\ r \in Seq(Statements) /\ Len(r) = Len(q) - 1 /\ Len(q) \in Nat
       /\ \A n \in 1 .. Len(q) - 1 : r[n] = q[n + 1]
    BY <1>4, <1>11, TailIs
<1>13. Leg2(s, q) \/ Leg3(s, q)
    <2>1. 1 \in 1 .. Len(q) /\ 1 > 0  BY <1>4, TailIs
    <2>2. ~NoLegs(q, 0)  BY <1>10, <2>1 DEF NoLegs
    <2> QED BY <1>4, <1>10, <2>2 DEF LegState, Leg0, Leg1, Leg4
<1>14. CASE Leg2(s, q)
    <2>1. NoneNew(s) /\ Len(q) >= 2 /\ NoLegs(q, 2) /\ LegAt(q, 2) /\ Pair(v, q[2].r) /\ v.group = no[s]
        BY <1>5, <1>14 DEF Leg2
    <2>2. r[1] = q[2] /\ Len(r) >= 1 /\ NoLegs(r, 1)  BY <1>4, <1>11, <2>1, LegTail
    <2>3. \A l \in Ids : NewLeg(s, l)' <=> l = i  BY <1>8, <1>9, <2>1 DEF NoneNew
    <2>4. Pair(wtx'[s][i], r[1].r) /\ wtx'[s][i].group = no'[s]  BY <1>2, <1>3, <2>1, <2>2
    <2>5. LegAt(r, 1)  BY <2>1, <2>2 DEF LegAt
    <2>6. Leg3(s, r)'  BY <1>2, <2>2, <2>3, <2>4, <2>5 DEF Leg3
    <2> QED BY <2>6 DEF LegState
<1>15. CASE Leg3(s, q)
    <2>1. PICK l \in Ids : (\A m \in Ids : NewLeg(s, m) <=> m = l) /\ Pair(wtx[s][l], v) /\ wtx[s][l].group = no[s]
        BY <1>5, <1>15 DEF Leg3
    <2>2. NoLegs(r, 0)  BY <1>4, <1>11, <1>15, LegTail DEF Leg3
    <2>3. l # i  BY <1>8, <2>1
    <2>4. \A m \in Ids : NewLeg(s, m)' <=> m \in {l, i}  BY <1>8, <1>9, <2>1
    <2>5. wtx'[s][l] = wtx[s][l] /\ wtx'[s][i] = v  BY <1>2, <1>3, <2>3
    <2>6. Pair(wtx'[s][l], wtx'[s][i]) /\ wtx'[s][l].group = no'[s]  BY <1>2, <2>1, <2>5
    <2>7. ASSUME NEW m \in 1 .. Len(r) PROVE r[m].op # "carry"
        <3>1. m + 1 \in 1 .. Len(q) /\ r[m] = q[m + 1]  BY <1>12
        <3>2. 1 \in 1 .. Len(q) /\ q[1].op = "insertTx"  BY <1>4, <1>10, TailIs DEF LegAt
        <3> QED BY <1>4, <3>1, <3>2 DEF Good, GoodAt
    <2>8. Leg4(s, r)'  BY <1>2, <2>2, <2>3, <2>4, <2>6, <2>7 DEF Leg4
    <2> QED BY <2>8 DEF LegState
<1> QED BY <1>13, <1>14, <1>15

LEMMA LegRun ==
    ASSUME Base, OldInv, NEW s \in Slots, RunsOn(s), LegState(s, todo[s])
    PROVE  LegState(s, todo[s])'
<1>1. PICK st : /\ Facing(s, st)
                /\ \/ Locks(s, st) \/ Passes(s, st) \/ Carries(s, st) \/ Sums(s, st)
                   \/ \E new : Turns(s, st, new)
                   \/ \E v : WritesAsset(s, st, v)
                   \/ \E i, v : WritesTx(s, st, i, v)
    BY DEF RunsOn
<1>2. TypeInv  BY DEF Base
<1>3. PICK q \in Seq(Statements) : q = todo[s] /\ q # <<>> /\ st = q[1] /\ st \in Statements  BY <1>1, TailProgram
<1>4. PICK r : r = todo'[s]  OBVIOUS
<1>5. txs' = txs /\ no' = no  BY RunKeeps
<1>6. CASE ~\E i, v : WritesTx(s, st, i, v)
    <2>1. st.op # "insertTx" /\ wtx' = wtx
        BY <1>1, <1>6 DEF Locks, Passes, Carries, Sums, Turns, Reads, WritesAsset, WriteAsset, dbVars, workVars
    <2>2. SameLegs(s)  BY <1>5, <2>1 DEF SameLegs, NewLeg
    <2>3. LegState(s, r)
        <3>1. CASE r = Tail(q)
            <4>1. ~LegAt(q, 1)  BY <1>3, <2>1 DEF LegAt
            <4> QED BY <1>3, <3>1, <4>1, LegPast
        <3>2. CASE \E new \in Statements : /\ r = [q EXCEPT ![1] = new] /\ new.op \in {"createAsset", "updatePos"}
                                           /\ st.op \in {"ensureAsset", "recalc"}
            BY <1>3, <3>2, LegTurn
        <3>3. CASE r = CarryProgram(s, st) /\ st.op = "carry"
            <4>1. Carries(s, st)
                BY <1>1, <3>3, TurnIs DEF Locks, Passes, Sums, Turns, WritesAsset, WritesTx
            <4> QED BY <1>1, <3>3, <4>1, LegCarry
        <3>4. \/ todo'[s] = Tail(todo[s]) /\ st.op # "carry"
              \/ \E new \in Statements : /\ todo'[s] = [todo[s] EXCEPT ![1] = new] /\ new.op \in {"createAsset", "updatePos"}
                                         /\ st.op \in {"ensureAsset", "recalc"}
              \/ todo'[s] = CarryProgram(s, st) /\ st.op = "carry"
            BY <1>1, ProgramIs
        <3> QED BY <1>3, <1>4, <3>1, <3>2, <3>3, <3>4
    <2>4. LegState(s, r)'  BY <2>2, <2>3, LegKept
    <2> QED BY <1>4, <2>4, LegIs
<1>7. CASE \E i, v : WritesTx(s, st, i, v)
    <2>1. PICK i, v : WritesTx(s, st, i, v)  BY <1>7
    <2>2. r = Tail(q)  BY <1>2, <1>3, <1>4, <2>1 DEF WritesTx, TypeInv
    <2>3. CASE st.op = "insertTx" /\ v.group # Null
        <3>1. LegState(s, r)'  BY <1>1, <1>3, <2>1, <2>2, <2>3, LegInsert
        <3> QED BY <1>4, <3>1, LegIs
    <2>4. CASE st.op # "insertTx" \/ v.group = Null
        <3>1. SameLegs(s)  BY <1>1, <2>1, <2>4, LegWrite
        <3>2. ~LegAt(q, 1)
            <4>1. st.op = "insertTx" => v = st.r  BY <2>1 DEF WritesTx
            <4> QED BY <1>3, <2>4, <4>1 DEF LegAt
        <3>3. LegState(s, r)  BY <1>3, <2>2, <3>2, LegPast
        <3>4. LegState(s, r)'  BY <3>1, <3>3, LegKept
        <3> QED BY <1>4, <3>4, LegIs
    <2> QED BY <2>3, <2>4
<1> QED BY <1>6, <1>7

\* A request that begins has inserted nothing and plans no leg; one that ends leaves nothing.
LEMMA LegStart ==
    ASSUME Base, NEW s \in Slots, Starts(s)
    PROVE  LegState(s, todo[s])'
<1>1. PICK q : s \notin active /\ Fresh(q) /\ Begin(s, q)  BY DEF Starts
<1>2. TypeInv /\ LockInv  BY DEF Base
<1>3. todo'[s] = q /\ wtx' = wtx  BY <1>1, <1>2 DEF Begin, TypeInv
<1>4. NoneNew(s)'  BY <1>1, <1>3, IdleClean DEF NoneNew, NewLeg, IsTx
<1>5. \A n \in 1 .. Len(q) : ~LegAt(q, n)  BY <1>1 DEF Fresh, FreshAt, LegAt
<1>6. Leg0(s, q)'  BY <1>4, <1>5 DEF Leg0, NoLegs
<1>7. LegState(s, q)'  BY <1>6 DEF LegState
<1> QED BY <1>3, <1>7, LegIs

LEMMA LegEnd ==
    ASSUME TypeInv, NEW s \in Slots, Ends(s)
    PROVE  LegState(s, todo[s])'
<1>1. PICK q : q = todo'[s] /\ q = <<>>  BY EndsClean
<1>2. \A n \in 1 .. Len(q) : FALSE  BY <1>1
<1>3. \A i \in Ids : wtx'[s][i] = Same  BY EndsClean
<1>4. NoneNew(s)'  BY <1>3 DEF NoneNew, NewLeg, IsTx
<1>5. Leg0(s, q)'  BY <1>2, <1>4 DEF Leg0, NoLegs
<1>6. LegState(s, q)'  BY <1>5 DEF LegState
<1> QED BY <1>1, <1>6, LegIs

\* Another slot's step.
LEMMA LegOther ==
    ASSUME Base, NEW s \in Slots, Starts(s) \/ Ends(s) \/ RunsOn(s), NEW o \in Slots, o # s, LegState(o, todo[o])
    PROVE  LegState(o, todo[o])'
<1>1. TypeInv /\ LockInv  BY DEF Base
<1>2. Kept(o)  BY <1>1, OthersKeep DEF LockInv
<1>3. \A i \in Ids : IsTx(wtx[o][i]) => txs'[i] = txs[i]
    <2> SUFFICES ASSUME NEW i \in Ids, IsTx(wtx[o][i]) PROVE txs'[i] = txs[i]  OBVIOUS
    <2>1. txLock[i] = o  BY <1>1 DEF LockInv, IsTx
    <2> QED BY <2>1, LockedStays
<1>4. SameLegs(o)  BY <1>2, <1>3 DEF SameLegs, NewLeg, Kept
<1>5. PICK q : q = todo[o]  OBVIOUS
<1>6. LegState(o, q)'  BY <1>4, <1>5, LegKept
<1>7. q = todo'[o]  BY <1>2, <1>5 DEF Kept
<1> QED BY <1>6, <1>7, LegIs

\* The legs a request has inserted carry its serial number.
LEMMA LegNumber ==
    ASSUME NEW s \in Slots, NEW q, LegState(s, q), NEW i \in Ids, NewLeg(s, i)
    PROVE  wtx[s][i].group = no[s] /\ (Leg3(s, q) \/ Leg4(s, q))
<1>1. Leg3(s, q) \/ Leg4(s, q)  BY DEF LegState, Leg0, Leg1, Leg2, NoneNew
<1>2. CASE Leg3(s, q)  BY <1>2 DEF Leg3
<1>3. CASE Leg4(s, q)
    <2>1. PICK a, b \in Ids : /\ \A l \in Ids : NewLeg(s, l) <=> l \in {a, b}
                              /\ Pair(wtx[s][a], wtx[s][b]) /\ wtx[s][a].group = no[s]
        BY <1>3 DEF Leg4
    <2>2. wtx[s][b].group = no[s]  BY <2>1 DEF Pair
    <2> QED BY <1>3, <2>1, <2>2
<1> QED BY <1>1, <1>2, <1>3

\* A row with a group after a commit was there before, or is a leg that the request has inserted.
LEMMA CommittedLeg ==
    ASSUME Base, LegInv, NEW s \in Slots, Commit(s), NEW i \in Ids, txs'[i] # Null, txs'[i].group # Null
    PROVE  \/ wtx[s][i] = Same /\ txs[i] = txs'[i] /\ txs[i].group # no[s]
           \/ NewLeg(s, i) /\ txs'[i] = wtx[s][i] /\ txs'[i].group = no[s]
<1>1. TypeInv /\ LockInv  BY DEF Base
<1>2. txs'[i] = TxAt(s, i) /\ s \in active  BY <1>1, CommitIs
<1>3. CASE wtx[s][i] = Same
    <2>1. txs'[i] = txs[i]  BY <1>2, <1>3 DEF TxAt
    <2>2. txs[i].group # no[s]  BY <1>2, <2>1 DEF LegInv, Numbers
    <2> QED BY <1>3, <2>1, <2>2
<1>4. CASE wtx[s][i] # Same
    <2>1. txs'[i] = wtx[s][i] /\ IsTx(wtx[s][i])  BY <1>2, <1>4 DEF TxAt, IsTx
    <2>2. txs[i] = Null  BY <2>1 DEF LegInv, Ungrouped
    <2>3. NewLeg(s, i)  BY <2>1, <2>2 DEF NewLeg
    <2>4. wtx[s][i].group = no[s]  BY <2>3, LegNumber DEF LegInv
    <2> QED BY <2>1, <2>3, <2>4
<1> QED BY <1>3, <1>4

LEMMA UngroupedStep ==
    ASSUME Base, OldInv, LegInv, NEW s \in Slots, Starts(s) \/ Ends(s) \/ RunsOn(s), NEW o \in Slots
    PROVE  Ungrouped(o)'
<1>1. TypeInv /\ LockInv /\ Ungrouped(s) /\ Ungrouped(o)  BY DEF Base, LegInv
<1>2. CASE o # s
    <2>1. todo'[o] = todo[o] /\ wtx'[o] = wtx[o]  BY <1>1, <1>2, OthersKeep DEF LockInv, Kept
    <2>2. ASSUME NEW i \in Ids, IsTx(wtx'[o][i]), txs'[i] # Null
          PROVE  txs'[i].group = Null /\ wtx'[o][i].group = Null
        <3>1. txLock[i] = o  BY <1>1, <2>1, <2>2 DEF LockInv, IsTx
        <3>2. txs'[i] = txs[i]  BY <1>2, <3>1, LockedStays
        <3> QED BY <1>1, <2>1, <2>2, <3>2 DEF Ungrouped
    <2>3. ASSUME NEW i \in Ids, Pending(todo[o], i, {"updateTx"})', txs'[i] # Null PROVE txs'[i].group = Null
        <3>1. Pending(todo[o], i, {"updateTx"}) /\ Pending(todo[o], i, TxChanges)
            BY <2>1, <2>3 DEF Pending, TxChanges
        <3>2. Old(i)  BY <3>1 DEF OldInv
        <3>3. CASE txs' = txs  BY <1>1, <2>3, <3>1, <3>3 DEF Ungrouped
        <3>4. CASE Commit(s)
            <4>1. txs'[i] = TxAt(s, i)  BY <1>1, <3>4, CommitIs
            <4>2. CASE wtx[s][i] = Same  BY <1>1, <2>3, <3>1, <4>1, <4>2 DEF TxAt, Ungrouped
            <4>3. CASE wtx[s][i] # Same
                <5>1. txs'[i] = wtx[s][i] /\ IsTx(wtx[s][i])  BY <2>3, <4>1, <4>3 DEF TxAt, IsTx
                <5>2. txs[i] # Null  BY <3>2, <5>1 DEF Old
                <5> QED BY <1>1, <5>1, <5>2 DEF Ungrouped
            <4> QED BY <4>2, <4>3
        <3> QED BY <1>1, <3>3, <3>4, RowsKeep
    <2> QED BY <2>2, <2>3 DEF Ungrouped
<1>3. CASE o = s /\ Starts(s)
    <2>1. PICK q : s \notin active /\ Fresh(q) /\ Begin(s, q)  BY <1>3 DEF Starts
    <2>2. todo'[s] = q /\ wtx' = wtx /\ txs' = txs  BY <1>1, <2>1 DEF Begin, dbVars, TypeInv
    <2>3. \A i \in Ids : ~IsTx(wtx'[s][i])  BY <2>1, <2>2, IdleClean DEF IsTx
    <2>4. ASSUME NEW i \in Ids, Pending(todo[s], i, {"updateTx"})' PROVE txs'[i].group = Null
        <3>1. PICK n \in 1 .. Len(q) : q[n].op = "updateTx" /\ q[n].i = i  BY <2>2, <2>4 DEF Pending
        <3> QED BY <2>1, <2>2, <3>1 DEF Fresh, FreshAt
    <2> QED BY <1>3, <2>3, <2>4 DEF Ungrouped
<1>4. CASE o = s /\ Ends(s)
    <2>1. PICK q : q = todo'[s] /\ q = <<>>  BY <1>1, <1>4, EndsClean
    <2>2. \A n \in 1 .. Len(q) : FALSE  BY <2>1
    <2>3. \A i \in Ids : wtx'[s][i] = Same  BY <1>1, <1>4, EndsClean
    <2> QED BY <1>4, <2>1, <2>2, <2>3 DEF Ungrouped, Pending, IsTx
<1>5. CASE o = s /\ RunsOn(s)
    <2>1. txs' = txs  BY <1>5, RunKeeps
    <2>2. \A i \in Ids : Pending(todo[s], i, {"updateTx"})' => Pending(todo[s], i, {"updateTx"})
        BY <1>5, PendingShrinks
    <2>3. PICK st : /\ Facing(s, st)
                    /\ \/ Locks(s, st) \/ Passes(s, st) \/ Carries(s, st) \/ Sums(s, st)
                       \/ \E new : Turns(s, st, new)
                       \/ \E v : WritesAsset(s, st, v)
                       \/ \E i, v : WritesTx(s, st, i, v)
        BY <1>5 DEF RunsOn
    <2>4. ASSUME NEW i \in Ids, IsTx(wtx'[s][i]), txs'[i] # Null
          PROVE  txs'[i].group = Null /\ wtx'[s][i].group = Null
        <3>1. CASE wtx'[s][i] = wtx[s][i]  BY <1>1, <2>1, <2>4, <3>1 DEF Ungrouped
        <3>2. CASE wtx'[s][i] # wtx[s][i]
            <4>1. PICK j, v : WritesTx(s, st, j, v)
                BY <2>3, <3>2 DEF Locks, Passes, Carries, Sums, Turns, Reads, WritesAsset, WriteAsset, workVars
            <4>2. wtx' = [wtx EXCEPT ![s][j] = v] /\ j \in Ids  BY <4>1 DEF WritesTx, WriteTx
            <4>3. j = i /\ wtx'[s][i] = v  BY <1>1, <3>2, <4>2 DEF TypeInv
            <4>4. st.op = "updateTx"
                <5>1. st.op # "deleteTx"  BY <1>1, <2>3, <2>4, <4>1, <4>3, TxWritten DEF IsTx
                <5>2. st.op # "insertTx"
                    <6>1. i \in Nat /\ nextId \in Nat  BY <1>1 DEF TypeInv, Ids
                    <6>2. i # nextId  BY <1>1, <2>1, <2>4, <6>1 DEF LockInv
                    <6> QED BY <4>1, <4>3, <6>2 DEF WritesTx
                <5> QED BY <4>1, <5>1, <5>2 DEF WritesTx
            <4>5. st.i = i /\ v.group = TxAt(s, i).group /\ TxAt(s, i) # Null
                BY <1>1, <2>3, <4>1, <4>3, <4>4, RowsDiffer, TxWritten
            <4>6. Pending(todo[s], i, {"updateTx"})
                <5>1. PICK q \in Seq(Statements) : q = todo[s] /\ q # <<>> /\ st = q[1]  BY <2>3, TailProgram
                <5>2. 1 \in 1 .. Len(q)  BY <5>1, TailIs
                <5> QED BY <4>4, <4>5, <5>1, <5>2 DEF Pending
            <4>7. txs[i].group = Null  BY <1>1, <2>1, <2>4, <4>6 DEF Ungrouped
            <4>8. TxAt(s, i).group = Null
                <5>1. CASE wtx[s][i] = Same  BY <4>7, <5>1 DEF TxAt
                <5>2. CASE wtx[s][i] # Same
                    <6>1. TxAt(s, i) = wtx[s][i] /\ IsTx(wtx[s][i])  BY <4>5, <5>2 DEF TxAt, IsTx
                    <6> QED BY <1>1, <2>1, <2>4, <6>1 DEF Ungrouped
                <5> QED BY <5>1, <5>2
            <4> QED BY <2>1, <4>3, <4>5, <4>7, <4>8
        <3> QED BY <3>1, <3>2
    <2>5. Ungrouped(s)'  BY <1>1, <2>1, <2>2, <2>4 DEF Ungrouped
    <2> QED BY <1>5, <2>5
<1> QED BY <1>2, <1>3, <1>4, <1>5

\* What a request deletes is the same before and after each of its statements.
LEMMA DelsStay ==
    ASSUME Base, NEW s \in Slots, RunsOn(s), NEW i \in Ids
    PROVE  Dels(s, i)' <=> Dels(s, i)
<1>1. TypeInv /\ LockInv  BY DEF Base
<1>2. PICK st : /\ Facing(s, st)
                /\ \/ Locks(s, st) \/ Passes(s, st) \/ Carries(s, st) \/ Sums(s, st)
                   \/ \E new : Turns(s, st, new)
                   \/ \E v : WritesAsset(s, st, v)
                   \/ \E j, v : WritesTx(s, st, j, v)
    BY DEF RunsOn
<1>3. PICK q \in Seq(Statements) : q = todo[s] /\ q # <<>> /\ st = q[1] /\ Good(q)  BY <1>2, TailProgram
<1>4. Len(q) \in Nat /\ 1 \in 1 .. Len(q)  BY <1>3, TailIs
<1>5. PICK r : r = todo'[s]  OBVIOUS
<1>6. ASSUME Pending(todo[s], i, {"deleteTx"})' PROVE Pending(todo[s], i, {"deleteTx"})
    BY <1>6, PendingShrinks
<1>7. ASSUME wtx'[s][i] # wtx[s][i]
      PROVE  /\ wtx[s][i] # Null
             /\ wtx'[s][i] = Null => Pending(todo[s], i, {"deleteTx"})
    <2>1. PICK j, v : WritesTx(s, st, j, v)
        BY <1>2, <1>7 DEF Locks, Passes, Carries, Sums, Turns, Reads, WritesAsset, WriteAsset, workVars
    <2>2. wtx' = [wtx EXCEPT ![s][j] = v] /\ j \in Ids  BY <2>1 DEF WritesTx, WriteTx
    <2>3. j = i /\ wtx'[s][i] = v  BY <1>1, <1>7, <2>2 DEF TypeInv
    <2>4. CASE st.op = "insertTx"
        <3>1. v \in TxRows /\ i = nextId  BY <1>1, <1>2, <2>1, <2>3, <2>4, TxWritten
        <3>2. i \in Nat /\ nextId \in Nat  BY <1>1 DEF TypeInv, Ids
        <3>3. wtx[s][i] = Same
            <4>1. txLock[i] = Free /\ s # Free  BY <1>1, <3>1, <3>2, LedgerAssumption DEF LockInv
            <4> QED BY <1>1, <4>1 DEF LockInv
        <3> QED BY <2>3, <3>1, <3>3, RowsDiffer
    <2>5. CASE st.op # "insertTx"
        <3>1. st.op \in {"updateTx", "deleteTx"} /\ st.i = i /\ TxAt(s, i) \in TxRows
            BY <1>1, <1>2, <2>1, <2>3, <2>5, TxWritten
        <3>2. wtx[s][i] # Null  BY <3>1, RowsDiffer DEF TxAt
        <3>3. wtx'[s][i] = Null => st.op = "deleteTx"
            <4>1. st.op = "updateTx" => v \in TxRows  BY <1>1, <1>2, <2>1, TxWritten
            <4> QED BY <2>3, <3>1, <4>1, RowsDiffer
        <3> QED BY <1>3, <1>4, <3>1, <3>2, <3>3 DEF Pending
    <2> QED BY <2>4, <2>5
<1>8. ASSUME Pending(todo[s], i, {"deleteTx"})
      PROVE  Pending(todo[s], i, {"deleteTx"})' \/ wtx'[s][i] = Null
    <2>1. PICK n \in 1 .. Len(q) : q[n].op = "deleteTx" /\ q[n].i = i  BY <1>3, <1>8 DEF Pending
    <2>2. CASE n = 1
        <3>1. st.op = "deleteTx" /\ st.i = i  BY <1>3, <2>1, <2>2
        <3>2. PICK j, v : WritesTx(s, st, j, v)
            BY <1>2, <3>1 DEF Locks, Passes, Carries, Sums, Turns, WritesAsset
        <3>3. j = i /\ v = Null /\ wtx' = [wtx EXCEPT ![s][j] = v]
            BY <1>1, <1>2, <3>1, <3>2, TxWritten DEF WritesTx, WriteTx
        <3> QED BY <1>1, <3>3 DEF TypeInv
    <2>3. CASE n # 1 /\ r = Tail(q)
        <3>1. /\ Len(Tail(q)) = Len(q) - 1 /\ \A m \in 1 .. Len(q) - 1 : Tail(q)[m] = q[m + 1]
            BY <1>3, TailIs
        <3>2. PICK m : m = n - 1  OBVIOUS
        <3>3. m \in 1 .. Len(q) - 1 /\ m + 1 = n  BY <1>4, <2>1, <2>3, <3>2
        <3>4. m \in 1 .. Len(r) /\ r[m] = q[n]  BY <2>3, <3>1, <3>3
        <3> QED BY <1>5, <2>1, <3>4 DEF Pending
    <2>4. CASE n # 1 /\ \E new \in Statements : r = [q EXCEPT ![1] = new]
        <3>1. PICK new \in Statements : r = [q EXCEPT ![1] = new]  BY <2>4
        <3>2. Len(r) = Len(q) /\ \A m \in 2 .. Len(q) : r[m] = q[m]  BY <1>3, <3>1, InsteadIs
        <3>3. n \in 2 .. Len(q)  BY <1>4, <2>1, <2>4
        <3> QED BY <1>5, <2>1, <3>2, <3>3 DEF Pending
    <2>5. CASE st.op = "carry"  BY <1>3, <1>4, <2>1, <2>5 DEF Good, GoodAt
    <2>6. \/ todo'[s] = Tail(todo[s]) /\ st.op # "carry"
          \/ \E new \in Statements : /\ todo'[s] = [todo[s] EXCEPT ![1] = new] /\ new.op \in {"createAsset", "updatePos"}
                                     /\ st.op \in {"ensureAsset", "recalc"}
          \/ todo'[s] = CarryProgram(s, st) /\ st.op = "carry"
        BY <1>2, ProgramIs
    <2> QED BY <1>3, <1>5, <2>2, <2>3, <2>4, <2>5, <2>6
<1> QED BY <1>6, <1>7, <1>8 DEF Dels

LEMMA TogetherStep ==
    ASSUME Base, OldInv, LegInv, NEW s \in Slots, Starts(s) \/ Ends(s) \/ RunsOn(s), NEW o \in Slots
    PROVE  Together(o)'
<1>1. TypeInv /\ LockInv /\ Ungrouped(s) /\ Together(s) /\ Together(o)  BY DEF Base, LegInv
<1>2. CASE o # s
    <2>1. todo'[o] = todo[o] /\ wtx'[o] = wtx[o]  BY <1>1, <1>2, OthersKeep DEF LockInv, Kept
    <2>2. \A i \in Ids : Dels(o, i)' <=> Dels(o, i)  BY <2>1 DEF Dels, Pending
    <2>3. CASE txs' = txs  BY <1>1, <2>2, <2>3 DEF Together
    <2>4. CASE Commit(s)
        <3> SUFFICES ASSUME NEW i \in Ids, NEW j \in Ids, Dels(o, i), txs'[i] # Null, txs'[i].group # Null,
                            txs'[j] # Null, txs'[j].group = txs'[i].group
                     PROVE  Dels(o, j)
            BY <2>2 DEF Together
        <3>1. \/ wtx[s][i] = Same /\ txs[i] = txs'[i] /\ txs[i].group # no[s]
              \/ NewLeg(s, i) /\ txs'[i] = wtx[s][i] /\ txs'[i].group = no[s]
            BY <2>4, CommittedLeg
        <3>2. \/ wtx[s][j] = Same /\ txs[j] = txs'[j] /\ txs[j].group # no[s]
              \/ NewLeg(s, j) /\ txs'[j] = wtx[s][j] /\ txs'[j].group = no[s]
            BY <2>4, CommittedLeg
        <3>3. ~NewLeg(s, i)
            <4>1. CASE wtx[o][i] = Null
                <5>1. txLock[i] = o /\ o # s  BY <1>1, <1>2, <4>1, LedgerAssumption DEF LockInv
                <5>2. wtx[s][i] = Same  BY <1>1, <5>1 DEF LockInv
                <5> QED BY <5>2 DEF NewLeg, IsTx
            <4>2. CASE Pending(todo[o], i, {"deleteTx"})
                <5>1. Pending(todo[o], i, TxChanges)  BY <4>2 DEF Pending, TxChanges
                <5>2. Old(i)  BY <5>1 DEF OldInv
                <5> QED BY <5>2 DEF Old, NewLeg
            <4> QED BY <4>1, <4>2 DEF Dels
        <3>4. txs[i] = txs'[i] /\ txs[j] = txs'[j]  BY <3>1, <3>2, <3>3
        <3> QED BY <1>1, <3>4 DEF Together
    <2> QED BY <1>1, <2>3, <2>4, RowsKeep
<1>3. CASE o = s /\ Starts(s)
    <2>1. PICK q : s \notin active /\ Fresh(q) /\ Begin(s, q)  BY <1>3 DEF Starts
    <2>2. todo'[s] = q /\ wtx' = wtx /\ txs' = txs  BY <1>1, <2>1 DEF Begin, dbVars, TypeInv
    <2>3. \A i \in Ids : wtx'[s][i] # Null  BY <2>1, <2>2, IdleClean, RowsDiffer
    <2>4. \A i \in Ids : Dels(s, i)' <=> \E n \in 1 .. Len(q) : q[n].op = "deleteTx" /\ q[n].i = i
        BY <2>2, <2>3 DEF Dels, Pending
    <2>5. ASSUME NEW i \in Ids, NEW j \in Ids, Dels(s, i)', txs[i] # Null, txs[i].group # Null,
                 txs[j] # Null, txs[j].group = txs[i].group
          PROVE  Dels(s, j)'
        <3>1. PICK n \in 1 .. Len(q) : q[n].op = "deleteTx" /\ q[n].i = i  BY <2>4, <2>5
        <3>2. FreshAt(q, n)  BY <2>1 DEF Fresh
        <3>3. \E m \in 1 .. Len(q) : q[m].op = "deleteTx" /\ q[m].i = j
            <4>1. \A l \in Ids : txs[l] # Null /\ txs[l].group # Null /\ txs[l].group = txs[q[n].i].group
                     => \E m \in 1 .. Len(q) : q[m].op = "deleteTx" /\ q[m].i = l
                BY <3>1, <3>2 DEF FreshAt
            <4> QED BY <2>5, <3>1, <4>1
        <3> QED BY <2>4, <3>3
    <2>6. Together(s)'  BY <2>2, <2>5 DEF Together
    <2> QED BY <1>3, <2>6
<1>4. CASE o = s /\ Ends(s)
    <2>1. PICK q : q = todo'[s] /\ q = <<>>  BY <1>1, <1>4, EndsClean
    <2>2. \A n \in 1 .. Len(q) : FALSE  BY <2>1
    <2>3. \A i \in Ids : wtx'[s][i] # Null  BY <1>1, <1>4, EndsClean, RowsDiffer
    <2>4. \A i \in Ids : ~Dels(s, i)'  BY <2>1, <2>2, <2>3 DEF Dels, Pending
    <2> QED BY <1>4, <2>4 DEF Together
<1>5. CASE o = s /\ RunsOn(s)
    <2>1. txs' = txs  BY <1>5, RunKeeps
    <2>2. \A i \in Ids : Dels(s, i)' <=> Dels(s, i)  BY <1>5, DelsStay
    <2>3. Together(s)'  BY <1>1, <2>1, <2>2 DEF Together
    <2> QED BY <1>5, <2>3
<1> QED BY <1>2, <1>3, <1>4, <1>5

LEMMA NumbersStep ==
    ASSUME Base, LegInv, NEW s \in Slots, Starts(s) \/ Ends(s) \/ RunsOn(s)
    PROVE  Numbers'
<1>1. TypeInv /\ LockInv /\ Numbers  BY DEF Base, LegInv
<1>2. \A o \in Slots : o # s => no'[o] = no[o] /\ (o \in active' <=> o \in active)
    BY <1>1, OthersKeep DEF LockInv, Kept
<1>3. CASE Starts(s)
    <2>1. PICK q : s \notin active /\ Begin(s, q)  BY <1>3 DEF Starts
    <2>2. nreq' = nreq + 1 /\ no'[s] = nreq + 1 /\ active' = active \cup {s} /\ txs' = txs
        BY <1>1, <2>1 DEF Begin, dbVars, TypeInv
    <2>3. nreq \in Nat /\ active \subseteq Slots  BY <1>1 DEF TypeInv
    <2>4. \A g \in 1 .. nreq : g \in 1 .. nreq' /\ g # nreq + 1  BY <2>2, <2>3
    <2>5. nreq + 1 \in 1 .. nreq'  BY <2>2, <2>3
    <2>6. \A o \in active : o # s /\ no'[o] = no[o]  BY <1>2, <2>1, <2>3
    <2>7. ASSUME NEW i \in Ids, txs[i] # Null, txs[i].group # Null
          PROVE  txs[i].group \in 1 .. nreq' /\ \A o \in active' : no'[o] # txs[i].group
        <3>1. txs[i].group \in 1 .. nreq /\ \A o \in active : no[o] # txs[i].group
            BY <1>1, <2>7 DEF Numbers
        <3> QED BY <2>2, <2>4, <2>6, <3>1
    <2>8. ASSUME NEW o \in active' PROVE no'[o] \in 1 .. nreq' /\ \A u \in active' : u # o => no'[u] # no'[o]
        <3>1. \A u \in active : no[u] \in 1 .. nreq /\ \A w \in active : w # u => no[w] # no[u]
            BY <1>1 DEF Numbers
        <3>2. \A u \in active : no'[u] = no[u] /\ no'[u] \in 1 .. nreq' /\ no'[u] # nreq + 1  BY <2>4, <2>6, <3>1
        <3>3. CASE o = s  BY <2>2, <2>5, <3>2, <3>3
        <3>4. CASE o \in active  BY <2>2, <3>1, <3>2, <3>4
        <3> QED BY <2>2, <3>3, <3>4
    <2> QED BY <2>2, <2>7, <2>8 DEF Numbers
<1>4. CASE Ends(s)
    <2>1. nreq' = nreq /\ active' = active \ {s}  BY <1>1, <1>4, EndsClean
    <2>2. active \subseteq Slots /\ s \in active  BY <1>1, <1>4 DEF TypeInv, Ends
    <2>3. \A o \in active' : o \in active /\ o # s /\ no'[o] = no[o]  BY <1>2, <2>1, <2>2
    <2>4. ASSUME NEW i \in Ids, txs'[i] # Null, txs'[i].group # Null
          PROVE  txs'[i].group \in 1 .. nreq' /\ \A o \in active' : no'[o] # txs'[i].group
        <3>1. CASE txs' = txs  BY <1>1, <2>1, <2>3, <2>4, <3>1 DEF Numbers
        <3>2. CASE Commit(s)
            <4>1. \/ txs[i] = txs'[i]
                  \/ txs'[i].group = no[s]
                BY <2>4, <3>2, CommittedLeg
            <4>2. no[s] \in 1 .. nreq /\ \A o \in active : o # s => no[o] # no[s]  BY <1>1, <2>2 DEF Numbers
            <4>3. CASE txs[i] = txs'[i]  BY <1>1, <2>1, <2>3, <2>4, <4>3 DEF Numbers
            <4>4. CASE txs'[i].group = no[s]  BY <2>1, <2>3, <4>2, <4>4
            <4> QED BY <4>1, <4>3, <4>4
        <3> QED BY <1>1, <1>4, <3>1, <3>2, RowsKeep
    <2>5. \A o \in active' : no'[o] \in 1 .. nreq' /\ \A u \in active' : u # o => no'[u] # no'[o]
        BY <1>1, <2>1, <2>3 DEF Numbers
    <2> QED BY <2>4, <2>5 DEF Numbers
<1>5. CASE RunsOn(s)
    <2>1. txs' = txs /\ no' = no /\ active' = active /\ nreq' = nreq  BY <1>5, RunKeeps
    <2> QED BY <1>1, <2>1 DEF Numbers
<1> QED BY <1>3, <1>4, <1>5

\* A commit puts both legs of a transfer in, takes both out, or leaves both.
LEMMA PairedCommit ==
    ASSUME Base, LegInv, NEW s \in Slots, Commit(s)
    PROVE  LegsArePaired'
<1>1. TypeInv /\ LockInv /\ Together(s) /\ LegState(s, todo[s])  BY DEF Base, LegInv
<1>2. (\A i \in Ids : txs'[i] = TxAt(s, i)) /\ todo[s] = <<>>  BY <1>1, CommitIs
<1>3. \A i \in Ids : txs'[i] # Null /\ txs'[i].group # Null =>
          \/ wtx[s][i] = Same /\ txs[i] = txs'[i] /\ txs[i].group # no[s]
          \/ NewLeg(s, i) /\ txs'[i] = wtx[s][i] /\ txs'[i].group = no[s]
    BY CommittedLeg
<1>4. ASSUME NEW i \in Ids, txs'[i] # Null, txs'[i].group # Null
      PROVE  \E j \in Ids \ {i} :
                /\ {l \in Ids : txs'[l] # Null /\ txs'[l].group = txs'[i].group} = {i, j}
                /\ {txs'[i].dir, txs'[j].dir} = {"sell", "buy"}
                /\ txs'[i].pf # txs'[j].pf
                /\ txs'[i].tok = txs'[j].tok /\ txs'[i].amount = txs'[j].amount /\ txs'[i].usd = txs'[j].usd
    <2>1. CASE wtx[s][i] = Same /\ txs[i] = txs'[i] /\ txs[i].group # no[s]
        <3>1. PICK j \in Ids \ {i} :
                 /\ {l \in Ids : txs[l] # Null /\ txs[l].group = txs[i].group} = {i, j}
                 /\ {txs[i].dir, txs[j].dir} = {"sell", "buy"}
                 /\ txs[i].pf # txs[j].pf
                 /\ txs[i].tok = txs[j].tok /\ txs[i].amount = txs[j].amount /\ txs[i].usd = txs[j].usd
            BY <1>4, <2>1 DEF LegInv, LegsArePaired
        <3>2. txs[j] # Null /\ txs[j].group = txs[i].group  BY <3>1
        <3>3. ~Dels(s, j)
            <4>1. ~Dels(s, i)
                <5>1. PICK q : q = todo[s] /\ q = <<>>  BY <1>2
                <5>2. \A n \in 1 .. Len(q) : FALSE  BY <5>1
                <5> QED BY <2>1, <5>1, <5>2, RowsDiffer DEF Dels, Pending
            <4> QED BY <1>1, <1>4, <2>1, <3>2, <4>1 DEF Together
        <3>4. txs'[j] = txs[j]
            <4>1. wtx[s][j] = Same
                <5>1. wtx[s][j] # Null  BY <3>3 DEF Dels
                <5>2. ~IsTx(wtx[s][j])  BY <1>4, <2>1, <3>2 DEF LegInv, Ungrouped
                <5> QED BY <5>1, <5>2 DEF IsTx
            <4> QED BY <1>2, <4>1 DEF TxAt
        <3>5. \A l \in Ids : txs'[l] # Null /\ txs'[l].group = txs'[i].group => txs[l] = txs'[l]
            BY <1>3, <1>4, <2>1
        <3>6. {l \in Ids : txs'[l] # Null /\ txs'[l].group = txs'[i].group} = {i, j}
            BY <1>4, <2>1, <3>1, <3>2, <3>4, <3>5
        <3> QED BY <2>1, <3>1, <3>4, <3>6
    <2>2. CASE NewLeg(s, i) /\ txs'[i] = wtx[s][i] /\ txs'[i].group = no[s]
        <3>1. PICK q : q = todo[s] /\ q = <<>>  BY <1>2
        <3>2. Leg4(s, q)
            <4>1. ~Leg3(s, q)
                <5>1. Len(q) = 0  BY <3>1
                <5> QED BY <5>1 DEF Leg3
            <4> QED BY <1>1, <2>2, <3>1, <4>1, LegNumber
        <3>3. PICK a, b \in Ids : /\ a # b /\ \A l \in Ids : NewLeg(s, l) <=> l \in {a, b}
                                  /\ Pair(wtx[s][a], wtx[s][b]) /\ wtx[s][a].group = no[s]
            BY <3>2 DEF Leg4
        <3>4. \A l \in {a, b} : txs'[l] = wtx[s][l] /\ txs'[l] # Null
            <4> SUFFICES ASSUME NEW l \in {a, b} PROVE txs'[l] = wtx[s][l] /\ txs'[l] # Null  OBVIOUS
            <4>1. NewLeg(s, l) /\ l \in Ids  BY <3>3
            <4> QED BY <1>2, <4>1 DEF NewLeg, IsTx, TxAt
        <3>5. /\ {txs'[a].dir, txs'[b].dir} = {"sell", "buy"} /\ txs'[a].pf # txs'[b].pf
              /\ txs'[a].tok = txs'[b].tok /\ txs'[a].amount = txs'[b].amount /\ txs'[a].usd = txs'[b].usd
              /\ txs'[a].group = no[s] /\ txs'[b].group = no[s]
            BY <3>3, <3>4 DEF Pair
        <3>6. \A l \in Ids : txs'[l] # Null /\ txs'[l].group = no[s] => l \in {a, b}
            BY <1>3, <1>4, <2>2, <3>3
        <3>7. {l \in Ids : txs'[l] # Null /\ txs'[l].group = txs'[i].group} = {a, b}
            BY <2>2, <3>3, <3>4, <3>5, <3>6
        <3>8. CASE i = a
            <4>1. b \in Ids \ {i} /\ {a, b} = {i, b}  BY <3>3, <3>8
            <4> QED BY <3>5, <3>7, <3>8, <4>1
        <3>9. CASE i = b
            <4>1. a \in Ids \ {i} /\ {a, b} = {i, a}  BY <3>3, <3>9
            <4>2. {txs'[b].dir, txs'[a].dir} = {"sell", "buy"}  BY <3>5
            <4> QED BY <3>5, <3>7, <3>9, <4>1, <4>2
        <3> QED BY <2>2, <3>3, <3>8, <3>9
    <2> QED BY <1>3, <1>4, <2>1, <2>2
<1> QED BY <1>4 DEF LegsArePaired

LEMMA LegStep ==
    ASSUME Base, OldInv, LegInv, [Next]_vars
    PROVE  LegInv'
<1>0. TypeInv /\ LockInv /\ LegsArePaired  BY DEF Base, LegInv
<1>1. CASE UNCHANGED vars
    <2>1. /\ txs' = txs /\ wtx' = wtx /\ todo' = todo /\ no' = no /\ active' = active /\ nreq' = nreq
        BY <1>1 DEF vars, dbVars, workVars
    <2>2. LegsArePaired' /\ Numbers'  BY <2>1 DEF LegInv, LegsArePaired, Numbers
    <2>3. ASSUME NEW s \in Slots PROVE LegState(s, todo[s])' /\ Ungrouped(s)' /\ Together(s)'
        <3>1. LegState(s, todo[s]) /\ Ungrouped(s) /\ Together(s)  BY DEF LegInv
        <3>2. Ungrouped(s)' /\ Together(s)'  BY <2>1, <3>1 DEF Ungrouped, Together, Dels, Pending
        <3>3. SameLegs(s)  BY <2>1 DEF SameLegs, NewLeg
        <3>4. PICK q : q = todo[s]  OBVIOUS
        <3>5. LegState(s, q)'  BY <3>1, <3>3, <3>4, LegKept
        <3>6. LegState(s, todo[s])'  BY <2>1, <3>4, <3>5, LegIs
        <3> QED BY <3>2, <3>6
    <2> QED BY <2>2, <2>3 DEF LegInv
<1>2. CASE Next
    <2>1. PICK s \in Slots : Starts(s) \/ Ends(s) \/ RunsOn(s)  BY <1>0, <1>2, NextIs
    <2> DEFINE Legs(o) == LegState(o, todo[o])
    <2>2. ASSUME NEW o \in Slots, o # s PROVE Legs(o)'
        <3>1. LegState(o, todo[o])  BY DEF LegInv
        <3>2. LegState(o, todo[o])'  BY <2>1, <2>2, <3>1, LegOther
        <3> QED BY <3>2
    <2>3. Legs(s)'
        <3>1. LegState(s, todo[s])  BY DEF LegInv
        <3>2. CASE Starts(s)
            <4>1. LegState(s, todo[s])'  BY <3>2, LegStart
            <4> QED BY <4>1
        <3>3. CASE Ends(s)
            <4>1. LegState(s, todo[s])'  BY <1>0, <3>3, LegEnd
            <4> QED BY <4>1
        <3>4. CASE RunsOn(s)
            <4>1. LegState(s, todo[s])'  BY <3>1, <3>4, LegRun
            <4> QED BY <4>1
        <3> HIDE DEF Legs
        <3> QED BY <2>1, <3>2, <3>3, <3>4
    <2>4. \A o \in Slots : Legs(o)'
        <3> HIDE DEF Legs
        <3> QED BY <2>2, <2>3
    <2>5. \A o \in Slots : Ungrouped(o)' /\ Together(o)'  BY <2>1, UngroupedStep, TogetherStep
    <2>6. Numbers'  BY <2>1, NumbersStep
    <2>7. LegsArePaired'
        <3>1. CASE txs' = txs  BY <1>0, <3>1 DEF LegsArePaired
        <3> QED BY <1>0, <2>1, <3>1, RowsKeep, PairedCommit
    <2> QED BY <2>4, <2>5, <2>6, <2>7 DEF LegInv
<1> QED BY <1>1, <1>2

\* At the start no transaction is a leg.
LEMMA LegInit == Init => LegInv
<1> SUFFICES ASSUME Init PROVE LegInv  OBVIOUS
<1>1. /\ active = {} /\ \A s \in Slots : todo[s] = <<>> /\ \A i \in Ids : wtx[s][i] = Same
    BY DEF Init
<1>2. \A i \in Ids : txs[i] # Null => txs[i].group = Null
    <2> SUFFICES ASSUME NEW i \in Ids, txs[i] # Null PROVE txs[i].group = Null  OBVIOUS
    <2>1. i <= Len(Logged) /\ txs[i] = Logged[i]  BY DEF Init
    <2>2. i \in 1 .. Len(Logged)  BY <2>1, LedgerAssumption DEF Ids
    <2> QED BY <2>1, <2>2, LedgerAssumption
<1>3. LegsArePaired /\ Numbers  BY <1>1, <1>2 DEF LegsArePaired, Numbers
<1>4. ASSUME NEW s \in Slots PROVE LegState(s, todo[s]) /\ Ungrouped(s) /\ Together(s)
    <2>1. PICK q : q = todo[s] /\ q = <<>>  BY <1>1
    <2>2. \A n \in 1 .. Len(q) : FALSE  BY <2>1
    <2>3. NoneNew(s)  BY <1>1 DEF NoneNew, NewLeg, IsTx
    <2>4. Leg0(s, q)  BY <2>2, <2>3 DEF Leg0, NoLegs
    <2>5. Ungrouped(s) /\ Together(s)  BY <1>1, <1>2 DEF Ungrouped, Together, IsTx
    <2> QED BY <2>1, <2>4, <2>5 DEF LegState
<1> QED BY <1>3, <1>4 DEF LegInv

\* Whatever requests interleave, fail or are chosen as deadlock victims: the two legs of a transfer are
\* committed together and deleted together, and they carry the same token, amount and basis in opposite
\* directions between two portfolios (createCrossPortfolioTransfer inserts both in one transaction,
\* deleteTransaction takes the rows of the whole group, updateTransaction refuses a leg).
THEOREM LegsSafety == Spec => []LegsArePaired
<1>1. Init => Base /\ OldInv /\ LegInv  BY InitBase, OldInit, LegInit
<1>2. Base /\ OldInv /\ LegInv /\ [Next]_vars => (Base /\ OldInv /\ LegInv)'
    BY BaseStep, OldStep, LegStep
<1>3. LegInv => LegsArePaired  BY DEF LegInv
<1> QED BY <1>1, <1>2, <1>3, PTL DEF Spec
=============================================================================
