--------------------------- MODULE IndexerProofs ---------------------------
(***************************************************************************)
(* For any number of passes, transactions and faults, and any cap: every   *)
(* transaction counts once, none is lost behind the cursor, and no         *)
(* position is without its series.                                         *)
(***************************************************************************)
EXTENDS Indexer, FiniteSetTheorems, TLAPS

-----------------------------------------------------------------------------
(* The inductive invariant: what the locals of a pass promise. *)

\* A pass in its list has dealt with everything up to its next transaction,
\* whatever the other passes have done to the cursor meanwhile.
InGap(state, n, done) ==
    /\ state.next \in Nat \ {0} /\ state.last \in 1 .. n
    /\ state.next <= state.last + 1
    /\ 1 .. state.next - 1 \subseteq done

\* A pass that can apply a transaction has one of the history in hand.
Sane(state, n, done) ==
    /\ state.step = "list" => state.from \in Nat /\ 1 .. state.from \subseteq done
    /\ state.step = "apply" => InGap(state, n, done)
    /\ state.step = "handle" => state.next \in 1 .. n

KeepsUp(state, n, done) ==
    /\ Sane(state, n, done)
    /\ state.step = "insert" => state.for.step \in {"apply", "handle"} /\ Sane(state.for, n, done)

PassesKeepUp == \A p \in Passes : KeepsUp(pass[p], Len(chain), processed \cup skipped)

Rows ==
    /\ chain \in Seq(Kinds)
    /\ processed \subseteq Known
    /\ position \in [principal : Nat, claimed : BOOLEAN]
    /\ cursor \in Nat
    /\ DOMAIN pass = Passes

IInv == Rows /\ PassesKeepUp /\ CursorCovers /\ AppliedExactlyOnce

-----------------------------------------------------------------------------
(* Counting. *)

LEMMA CountNone == ASSUME NEW kind PROVE Count({}, kind) = 0
<1>1. {i \in {} : chain[i] = kind} = {}
  OBVIOUS
<1> QED
  BY <1>1, FS_EmptySet DEF Count

\* One more transaction of the history.
LEMMA CountOneMore ==
    ASSUME NEW txs \in SUBSET Known, chain \in Seq(Kinds), NEW i \in Known, i \notin txs
    PROVE  Count(txs \cup {i}, "deposit") =
               IF chain[i] = "deposit" THEN Count(txs, "deposit") + 1 ELSE Count(txs, "deposit")
<1> DEFINE D(s) == {k \in s : chain[k] = "deposit"}
<1>1. IsFiniteSet(D(txs))
  <2>1. Len(chain) \in Int
    OBVIOUS
  <2>2. IsFiniteSet(1 .. Len(chain))
    BY <2>1, FS_Interval
  <2> QED
    BY <2>2, FS_Subset DEF Known
<1>2. D(txs \cup {i}) = IF chain[i] = "deposit" THEN D(txs) \cup {i} ELSE D(txs)
  OBVIOUS
<1>3. Cardinality(D(txs) \cup {i}) = Cardinality(D(txs)) + 1
  BY <1>1, FS_AddElement
<1> QED
  BY <1>2, <1>3 DEF Count

-----------------------------------------------------------------------------
(* What the shared helpers do to the invariant. *)

LEMMA InitIInv == Init => IInv
<1> SUFFICES ASSUME Init PROVE IInv
  OBVIOUS
<1>1. Rows
  BY DEF Init, Rows, NoRow
<1>2. PassesKeepUp
  BY DEF Init, PassesKeepUp, KeepsUp, Sane, Idle
<1>3. CursorCovers
  BY DEF Init, CursorCovers
<1>4. AppliedExactlyOnce
  BY CountNone DEF Init, AppliedExactlyOnce, NoRow
<1> QED
  BY <1>1, <1>2, <1>3, <1>4 DEF IInv

\* Applying a transaction of the history counts it once.
LEMMA ApplyCounts ==
    ASSUME Rows, AppliedExactlyOnce, NEW i \in Known, ApplyEvents(i), UNCHANGED <<chain, cursor>>
    PROVE  /\ processed' = processed \cup {i} /\ processed' \subseteq Known
           /\ position' \in [principal : Nat, claimed : BOOLEAN]
           /\ AppliedExactlyOnce'
<1> USE DEF Rows
<1>1. CASE i \in processed
  BY <1>1 DEF ApplyEvents, AppliedExactlyOnce, Count
<1>2. CASE i \notin processed
  <2>1. processed' = processed \cup {i} /\ position' = ApplyTo(position, chain[i])
    BY <1>2 DEF ApplyEvents
  <2>2. /\ position' \in [principal : Nat, claimed : BOOLEAN]
        /\ position'.principal = IF chain[i] = "deposit" THEN position.principal + 1
                                 ELSE position.principal
    <3>1. CASE chain[i] = "deposit"
      BY <2>1, <3>1 DEF ApplyTo, Exits
    <3>2. CASE chain[i] \in Exits
      BY <2>1, <3>2 DEF ApplyTo, Exits
    <3>3. CASE chain[i] \notin {"deposit"} \cup Exits
      BY <2>1, <3>3 DEF ApplyTo
    <3> QED
      BY <3>1, <3>2, <3>3
  <2>3. Count(processed \cup {i}, "deposit") =
            IF chain[i] = "deposit" THEN Count(processed, "deposit") + 1
            ELSE Count(processed, "deposit")
    BY <1>2, CountOneMore
  <2>4. AppliedExactlyOnce'
    BY <2>1, <2>2, <2>3 DEF AppliedExactlyOnce, Count
  <2> QED
    BY <2>1, <2>2, <2>4
<1> QED
  BY <1>1, <1>2

\* What is done stays done while the tables and the history grow.
LEMMA KeepsUpStays ==
    ASSUME NEW state, NEW n \in Nat, NEW m \in Nat, n <= m, NEW done, NEW more, done \subseteq more,
           KeepsUp(state, n, done)
    PROVE  KeepsUp(state, m, more)
<1>1. ASSUME NEW st, Sane(st, n, done) PROVE Sane(st, m, more)
  BY <1>1 DEF Sane, InGap
<1> QED
  BY <1>1 DEF KeepsUp

\* So a step has only to answer for the pass that takes it.
LEMMA OthersKeepUp ==
    ASSUME Rows, PassesKeepUp, NEW p \in Passes, Goto(p, pass'[p]), UNCHANGED chain,
           processed \cup skipped \subseteq processed' \cup skipped',
           KeepsUp(pass'[p], Len(chain), processed' \cup skipped')
    PROVE  PassesKeepUp'
<1> SUFFICES ASSUME NEW q \in Passes
             PROVE  KeepsUp(pass'[q], Len(chain), processed' \cup skipped')
  BY DEF PassesKeepUp
<1>1. CASE q = p
  BY <1>1
<1>2. CASE q # p
  <2>1. pass'[q] = pass[q] /\ Len(chain) \in Nat
    BY <1>2 DEF Goto, Rows
  <2>2. KeepsUp(pass[q], Len(chain), processed \cup skipped)
    BY DEF PassesKeepUp
  <2> QED
    BY <2>1, <2>2, KeepsUpStays
<1> QED
  BY <1>1, <1>2

\* A step of a pass that applies nothing.
LEMMA PassStep ==
    ASSUME IInv, NEW p \in Passes, Goto(p, pass'[p]), UNCHANGED <<chain, processed, position>>,
           skipped \subseteq skipped', cursor' \in Nat, 1 .. cursor' \subseteq processed \cup skipped,
           KeepsUp(pass'[p], Len(chain), processed \cup skipped')
    PROVE  IInv'
<1>1. Rows'
  BY DEF IInv, Rows, Goto, Known
<1>2. PassesKeepUp'
  BY OthersKeepUp DEF IInv
<1>3. CursorCovers'
  BY DEF CursorCovers
<1>4. AppliedExactlyOnce'
  BY DEF IInv, AppliedExactlyOnce, Count
<1> QED
  BY <1>1, <1>2, <1>3, <1>4 DEF IInv

\* A step of a pass that applies a transaction.
LEMMA ApplyStep ==
    ASSUME IInv, NEW p \in Passes, NEW i \in Known, ApplyEvents(i), Goto(p, pass'[p]),
           UNCHANGED <<chain, cursor, skipped>>,
           KeepsUp(pass'[p], Len(chain), processed \cup {i} \cup skipped)
    PROVE  IInv'
<1>1. /\ processed' = processed \cup {i} /\ processed' \subseteq Known
      /\ position' \in [principal : Nat, claimed : BOOLEAN]
      /\ AppliedExactlyOnce'
  BY ApplyCounts DEF IInv
<1>2. Rows'
  BY <1>1 DEF IInv, Rows, Goto, Known
<1>3. PassesKeepUp'
  BY <1>1, OthersKeepUp DEF IInv
<1>4. CursorCovers'
  BY <1>1 DEF IInv, CursorCovers
<1> QED
  BY <1>1, <1>2, <1>3, <1>4 DEF IInv

\* The history grows: what was counted still counts the same.
LEMMA TransactStep ==
    ASSUME IInv, NEW kind \in Kinds, Transact(kind)
    PROVE  IInv'
<1>1. /\ chain \in Seq(Kinds) /\ chain' = Append(chain, kind)
      /\ UNCHANGED <<tables, pass, skipped>>
  BY DEF Transact, IInv, Rows
<1>2. /\ chain' \in Seq(Kinds) /\ Len(chain') = Len(chain) + 1 /\ Len(chain) \in Nat
      /\ \A i \in Known : chain'[i] = chain[i]
  BY <1>1 DEF Known
<1>3. Rows'
  BY <1>1, <1>2 DEF IInv, Rows, Known, tables
<1>4. PassesKeepUp'
  <2> SUFFICES ASSUME NEW p \in Passes
               PROVE  KeepsUp(pass'[p], Len(chain'), processed' \cup skipped')
    BY DEF PassesKeepUp
  <2>1. KeepsUp(pass[p], Len(chain), processed \cup skipped)
    BY DEF IInv, PassesKeepUp
  <2> QED
    BY <1>1, <1>2, <2>1, KeepsUpStays DEF tables
<1>5. CursorCovers'
  BY <1>1 DEF IInv, CursorCovers, tables
<1>6. AppliedExactlyOnce'
  <2>1. {i \in processed : chain'[i] = "deposit"} = {i \in processed : chain[i] = "deposit"}
    BY <1>2 DEF IInv, Rows
  <2> QED
    BY <1>1, <2>1 DEF IInv, AppliedExactlyOnce, Count, tables
<1> QED
  BY <1>3, <1>4, <1>5, <1>6 DEF IInv

-----------------------------------------------------------------------------

LEMMA NextIInv == IInv /\ [Next]_vars => IInv'
<1> SUFFICES ASSUME IInv, [Next]_vars PROVE IInv'
  OBVIOUS
<1>1. /\ DOMAIN pass = Passes /\ cursor \in Nat /\ 1 .. cursor \subseteq processed \cup skipped
      /\ \A p \in Passes : KeepsUp(pass[p], Len(chain), processed \cup skipped)
      /\ Len(chain) \in Nat
  <2>1. chain \in Seq(Kinds) /\ DOMAIN pass = Passes /\ cursor \in Nat
    BY DEF IInv, Rows
  <2>2. 1 .. cursor \subseteq processed \cup skipped
    BY DEF IInv, CursorCovers
  <2>3. \A p \in Passes : KeepsUp(pass[p], Len(chain), processed \cup skipped)
    BY DEF IInv, PassesKeepUp
  <2>4. Len(chain) \in Nat
    BY <2>1
  <2> QED
    BY <2>1, <2>2, <2>3, <2>4
<1> USE DEF At, Goto, tables
<1>2. ASSUME NEW kind \in Kinds, Transact(kind) PROVE IInv'
  BY <1>2, TransactStep
<1>3. ASSUME NEW p \in Passes, Tick(p) PROVE IInv'
  <2>1. KeepsUp(pass'[p], Len(chain), processed \cup skipped)
    BY <1>1, <1>3 DEF Tick, Listing, KeepsUp, Sane
  <2> QED
    BY <1>1, <1>3, <2>1, PassStep DEF Tick
<1>4. ASSUME NEW p \in Passes, List(p) PROVE IInv'
  <2>1. pass[p].from \in Nat /\ 1 .. pass[p].from \subseteq processed \cup skipped
    BY <1>1, <1>4 DEF List, KeepsUp, Sane
  <2>2. skipped' = skipped \cup BeyondCap(pass[p].from)
    BY <1>4 DEF List
  <2>3. 1 .. FirstListed(pass[p].from) - 1 \subseteq processed \cup skipped'
    BY <1>1, <2>1, <2>2, IndexerAssumption DEF FirstListed, BeyondCap, Known
  <2>4. FirstListed(pass[p].from) \in Nat \ {0}
    BY <1>1, <2>1, IndexerAssumption DEF FirstListed
  <2>5. KeepsUp(pass'[p], Len(chain), processed \cup skipped')
    <3>1. CASE FirstListed(pass[p].from) > Len(chain)
      BY <1>1, <1>4, <3>1 DEF List, Fetching, KeepsUp, Sane
    <3>2. CASE FirstListed(pass[p].from) <= Len(chain)
      BY <1>1, <1>4, <2>3, <2>4, <3>2 DEF List, Applying, KeepsUp, Sane, InGap
    <3> QED
      BY <1>1, <2>4, <3>1, <3>2
  <2> QED
    BY <1>1, <1>4, <2>5, PassStep DEF List
<1>5. ASSUME NEW p \in Passes, Apply(p) PROVE IInv'
  <2>1. InGap(pass[p], Len(chain), processed \cup skipped) /\ pass[p].next <= pass[p].last
    BY <1>1, <1>5 DEF Apply, KeepsUp, Sane
  <2>2. pass[p].next \in Known
    BY <1>1, <2>1 DEF InGap, Known
  <2>3. pass'[p] = Applying(pass[p].next + 1, pass[p].last)
    BY <1>1, <1>5 DEF Apply, Skip
  <2>4. KeepsUp(pass'[p], Len(chain), processed \cup {pass[p].next} \cup skipped)
    BY <1>1, <2>1, <2>2, <2>3 DEF Applying, KeepsUp, Sane, InGap, Known
  <2> QED
    BY <1>1, <1>5, <2>2, <2>4, ApplyStep DEF Apply, Skip
<1>6. ASSUME NEW p \in Passes, SkipUnavailable(p) PROVE IInv'
  <2>1. InGap(pass[p], Len(chain), processed \cup skipped) /\ pass[p].next <= pass[p].last
    BY <1>1, <1>6 DEF SkipUnavailable, KeepsUp, Sane
  <2>2. pass[p].next \in Known
    BY <1>1, <2>1 DEF InGap, Known
  <2>3. /\ pass'[p] = Applying(pass[p].next + 1, pass[p].last)
        /\ skipped' = skipped \cup {pass[p].next}
    BY <1>1, <1>6 DEF SkipUnavailable, Skip
  <2>4. KeepsUp(pass'[p], Len(chain), processed \cup skipped')
    BY <1>1, <2>1, <2>2, <2>3 DEF Applying, KeepsUp, Sane, InGap, Known
  <2> QED
    BY <1>1, <1>6, <2>3, <2>4, PassStep DEF SkipUnavailable, Skip
<1>7. ASSUME NEW p \in Passes, Advance(p) PROVE IInv'
  <2>1. InGap(pass[p], Len(chain), processed \cup skipped) /\ pass[p].next > pass[p].last
    BY <1>1, <1>7 DEF Advance, KeepsUp, Sane
  <2>2. cursor' = pass[p].last /\ cursor' \in Nat /\ 1 .. cursor' \subseteq processed \cup skipped
    BY <1>1, <1>7, <2>1 DEF Advance, InGap
  <2>3. KeepsUp(pass'[p], Len(chain), processed \cup skipped)
    BY <1>1, <1>7 DEF Advance, Fetching, KeepsUp, Sane
  <2> QED
    BY <1>1, <1>7, <2>2, <2>3, PassStep DEF Advance
<1>8. ASSUME NEW p \in Passes, FetchSeries(p) \/ UpsertSeries(p) \/ Abandon(p) PROVE IInv'
  <2>1. KeepsUp(pass'[p], Len(chain), processed \cup skipped)
    BY <1>1, <1>8 DEF FetchSeries, UpsertSeries, Abandon, Writing, Idle, KeepsUp, Sane
  <2> QED
    BY <1>1, <1>8, <2>1, PassStep DEF FetchSeries, UpsertSeries, Abandon
<1>9. ASSUME NEW p \in Passes, FetchMissing(p) PROVE IInv'
  <2>1. KeepsUp(pass'[p], Len(chain), processed \cup skipped)
    BY <1>1, <1>9 DEF FetchMissing, Inserting, KeepsUp, Sane
  <2> QED
    BY <1>1, <1>9, <2>1, PassStep DEF FetchMissing
<1>10. ASSUME NEW p \in Passes, InsertMissing(p) PROVE IInv'
  <2>1. KeepsUp(pass'[p], Len(chain), processed \cup skipped)
    BY <1>1, <1>10 DEF InsertMissing, KeepsUp
  <2> QED
    BY <1>1, <1>10, <2>1, PassStep DEF InsertMissing
<1>11. ASSUME NEW p \in Passes, Handle(p) PROVE IInv'
  <2>1. pass[p].next \in Known
    BY <1>1, <1>11 DEF Handle, KeepsUp, Sane, Known
  <2>2. KeepsUp(pass'[p], Len(chain), processed \cup {pass[p].next} \cup skipped)
    BY <1>1, <1>11 DEF Handle, Fetching, KeepsUp, Sane
  <2> QED
    BY <1>1, <1>11, <2>1, <2>2, ApplyStep DEF Handle
<1>12. ASSUME NEW p \in Passes, NEW i \in Txs, Notified(p, i) PROVE IInv'
  <2>1. CASE SeriesRowExists
    <3>1. KeepsUp(pass'[p], Len(chain), processed \cup {i} \cup skipped)
      BY <1>1, <1>12, <2>1 DEF Notified, Fetching, KeepsUp, Sane
    <3> QED
      BY <1>1, <1>12, <2>1, <3>1, ApplyStep DEF Notified
  <2>2. CASE ~SeriesRowExists
    <3>1. KeepsUp(pass'[p], Len(chain), processed \cup skipped)
      BY <1>1, <1>12, <2>2 DEF Notified, Inserting, Handling, KeepsUp, Sane, Known
    <3> QED
      BY <1>1, <1>12, <2>2, <3>1, PassStep DEF Notified
  <2> QED
    BY <2>1, <2>2
<1>13. CASE UNCHANGED vars
  BY <1>13 DEF vars, IInv, Rows, PassesKeepUp, CursorCovers, AppliedExactlyOnce, Known, Count
<1> QED
  BY <1>2, <1>3, <1>4, <1>5, <1>6, <1>7, <1>8, <1>9, <1>10, <1>11, <1>12, <1>13 DEF Next, Step

-----------------------------------------------------------------------------

(* Every pass accounts for what lies behind it, in whatever order passes   *)
(* run, fail and overtake each other.                                      *)
THEOREM PassesAccountForTheirs == Spec => []IInv
  BY InitIInv, NextIInv, PTL DEF Spec

(* Ticks, callbacks and their failures overlap as they may: the position   *)
(* holds each processed deposit once (applyEvents).                        *)
THEOREM EachTransactionCountsOnce == Spec => []AppliedExactlyOnce
  BY PassesAccountForTheirs, PTL DEF IInv

(* Nothing is lost behind the cursor although passes move it over each     *)
(* other, backwards too: only the cap and null answers lose transactions.  *)
THEOREM NothingBehindTheCursor == Spec => []CursorCovers
  BY PassesAccountForTheirs, PTL DEF IInv

-----------------------------------------------------------------------------
(* Type correctness, and with it the wallet's join: a position has its     *)
(* series row.  A callback that applies events after writing the row is    *)
(* the step at which this could go wrong.                                  *)

HandlersHaveTheRow == \A p \in Passes : pass[p].step = "handle" => mirror # NoSeries

LEMMA StateOfStep ==
    ASSUME NEW st \in PassStates
    PROVE  /\ st.step = "apply" => \E i \in 1 .. MaxTxs + 1, j \in Txs : st = Applying(i, j)
           /\ st.step = "insert" => st.for \in Resolving /\ st.account \in Accounts
           /\ st.step = "write" => st.account \in Accounts
<1>1. CASE st \in {Idle, Fetching} \/ \E from \in 0 .. MaxTxs : st = Listing(from)
  BY <1>1 DEF Idle, Fetching, Listing
<1>2. CASE \E i \in 1 .. MaxTxs + 1, j \in Txs : st = Applying(i, j)
  BY <1>2 DEF Applying
<1>3. CASE \E i \in Txs : st = Handling(i)
  BY <1>3 DEF Handling
<1>4. CASE \E state \in Resolving, account \in Accounts : st = Inserting(state, account)
  BY <1>4 DEF Inserting
<1>5. CASE \E account \in Accounts : st = Writing(account)
  BY <1>5 DEF Writing
<1>6. Txs \subseteq 1 .. MaxTxs + 1
  BY IndexerAssumption DEF Txs
<1>7. \/ st \in {Idle, Fetching} \/ \E from \in 0 .. MaxTxs : st = Listing(from)
      \/ \E i \in 1 .. MaxTxs + 1, j \in Txs : st = Applying(i, j)
      \/ \E i \in Txs : st = Handling(i)
      \/ \E state \in Resolving, account \in Accounts : st = Inserting(state, account)
      \/ \E account \in Accounts : st = Writing(account)
  BY <1>6 DEF PassStates, Resolving
<1> QED
  BY <1>1, <1>2, <1>3, <1>4, <1>5, <1>7

LEMMA ResolvingIsAState == Resolving \subseteq PassStates
  BY DEF PassStates

LEMMA NoSeriesIsNoAccount == NoSeries \notin Accounts
  BY IndexerAssumption DEF NoSeries, Accounts

LEMMA CountBounded ==
    ASSUME NEW txs \in SUBSET Known, chain \in Seq(Kinds), NEW kind
    PROVE  Count(txs, kind) \in 0 .. Len(chain)
<1> DEFINE counted == {i \in txs : chain[i] = kind}
<1>1. Len(chain) \in Nat
  OBVIOUS
<1>2. IsFiniteSet(Known) /\ Cardinality(Known) = Len(chain)
  <2>1. Known = 1 .. Len(chain)
    BY DEF Known
  <2> HIDE DEF Known
  <2>2. IsFiniteSet(1 .. Len(chain)) /\ Cardinality(1 .. Len(chain)) = Len(chain)
    BY <1>1, FS_Interval
  <2> QED
    BY <2>1, <2>2
<1>3. counted \in SUBSET Known
  OBVIOUS
<1> HIDE DEF counted
<1>4. IsFiniteSet(counted) /\ Cardinality(counted) <= Cardinality(Known)
  BY <1>2, <1>3, FS_Subset
<1>5. Cardinality(counted) \in Nat
  BY <1>4, FS_CardinalityType
<1> QED
  BY <1>1, <1>2, <1>4, <1>5 DEF Count, counted

LEMMA AccountTyped == TypeOK => Account \in Accounts
<1> SUFFICES ASSUME TypeOK PROVE Account \in Accounts
  OBVIOUS
<1>1. Len(chain) \in Nat /\ Len(chain) <= MaxTxs /\ MaxTxs \in Nat
  BY IndexerAssumption DEF TypeOK
<1>2. Count(Known, "deposit") \in 0 .. Len(chain)
  BY CountBounded DEF TypeOK
<1> QED
  BY <1>1, <1>2 DEF Account, Accounts, Status

\* What IInv says of the rows bounds them.
LEMMA RowsBounded ==
    IInv /\ Len(chain) <= MaxTxs
      => /\ chain \in Seq(Kinds) /\ processed \subseteq Known
         /\ position \in [principal : 0 .. MaxTxs, claimed : BOOLEAN]
<1> SUFFICES ASSUME IInv, Len(chain) <= MaxTxs
             PROVE  /\ chain \in Seq(Kinds) /\ processed \subseteq Known
                    /\ position \in [principal : 0 .. MaxTxs, claimed : BOOLEAN]
  OBVIOUS
<1>1. /\ chain \in Seq(Kinds) /\ processed \subseteq Known
      /\ position \in [principal : Nat, claimed : BOOLEAN]
      /\ position.principal = Count(processed, "deposit")
  BY DEF IInv, Rows, AppliedExactlyOnce
<1>2. Len(chain) \in Nat /\ MaxTxs \in Nat
  BY <1>1, IndexerAssumption
<1>3. position.principal \in 0 .. Len(chain)
  BY <1>1, CountBounded
<1> QED
  BY <1>1, <1>2, <1>3

TInv == TypeOK /\ HandlersHaveTheRow

LEMMA InitTInv == Init => TInv
<1> SUFFICES ASSUME Init PROVE TInv
  OBVIOUS
<1>1. TypeOK
  BY IndexerAssumption DEF Init, TypeOK, Known, NoRow, PassStates
<1> QED
  BY <1>1 DEF Init, TInv, HandlersHaveTheRow, Idle

LEMMA NextTInv == IInv /\ TInv /\ IInv' /\ [Next]_vars => TInv'
<1> SUFFICES ASSUME IInv, TInv, IInv', [Next]_vars PROVE TInv'
  OBVIOUS
<1>1. /\ chain \in Seq(Kinds) /\ Len(chain) \in Nat /\ Len(chain) <= MaxTxs /\ MaxTxs \in Nat \ {0}
      /\ position \in [principal : 0 .. MaxTxs, claimed : BOOLEAN]
      /\ cursor \in 0 .. Len(chain)
      /\ mirror \in Accounts \cup {NoSeries} /\ (position # NoRow => mirror # NoSeries)
      /\ pass \in [Passes -> PassStates] /\ skipped \subseteq Known
      /\ faults \in 0 .. MaxFaults /\ nulls \in 0 .. MaxNulls
      /\ MaxFaults \in Nat /\ MaxNulls \in Nat
  BY IndexerAssumption DEF TInv, TypeOK
<1>2. Account \in Accounts /\ NoSeries \notin Accounts
  BY AccountTyped, NoSeriesIsNoAccount DEF TInv
<1>3. \A p \in Passes : KeepsUp(pass[p], Len(chain), processed \cup skipped)
  BY DEF IInv, PassesKeepUp
<1>4. \A p \in Passes : pass[p].step = "handle" => mirror # NoSeries
  BY DEF TInv, HandlersHaveTheRow
\* What a step of a pass has to show.
<1>5. ASSUME NEW p \in Passes, NEW st \in PassStates, Goto(p, st), UNCHANGED chain,
             mirror' \in Accounts \cup {NoSeries},
             mirror' = NoSeries => mirror = NoSeries,
             position' # NoRow => mirror' # NoSeries,
             st.step = "handle" => mirror' # NoSeries,
             cursor' \in 0 .. Len(chain), skipped' \subseteq Known,
             faults' \in 0 .. MaxFaults, nulls' \in 0 .. MaxNulls
      PROVE  TInv'
  <2>1. pass' \in [Passes -> PassStates]
    BY <1>1, <1>5 DEF Goto
  <2>2. Len(chain') <= MaxTxs
    BY <1>1, <1>5
  <2>3. chain' \in Seq(Kinds) /\ processed' \subseteq Known' /\ position' \in [principal : 0 .. MaxTxs, claimed : BOOLEAN]
    <3>1. (IInv /\ Len(chain) <= MaxTxs => chain \in Seq(Kinds) /\ processed \subseteq Known
              /\ position \in [principal : 0 .. MaxTxs, claimed : BOOLEAN])'
      BY RowsBounded, PTL
    <3> QED
      BY <2>2, <3>1
  <2>4. Known' = Known
    BY <1>5 DEF Known
  <2>5. TypeOK'
    BY <1>5, <2>1, <2>2, <2>3, <2>4 DEF TypeOK
  <2>6. HandlersHaveTheRow'
    <3> SUFFICES ASSUME NEW q \in Passes, pass'[q].step = "handle" PROVE mirror' # NoSeries
      BY DEF HandlersHaveTheRow
    <3>1. CASE q = p
      BY <1>1, <1>5, <3>1 DEF Goto
    <3>2. CASE q # p
      BY <1>1, <1>4, <1>5, <3>2 DEF Goto
    <3> QED
      BY <3>1, <3>2
  <2> QED
    BY <2>5, <2>6 DEF TInv
<1> USE DEF At, tables
<1>6. ASSUME NEW kind \in Kinds, Transact(kind) PROVE TInv'
  <2>1. /\ chain' = Append(chain, kind) /\ Len(chain) < MaxTxs
        /\ UNCHANGED <<tables, pass, skipped, faults, nulls>>
    BY <1>6 DEF Transact
  <2>2. chain' \in Seq(Kinds) /\ Len(chain') = Len(chain) + 1 /\ Known \subseteq Known'
    BY <1>1, <2>1 DEF Known
  <2>3. processed' \subseteq Known'
    BY DEF IInv, Rows
  <2>4. TypeOK'
    BY <1>1, <2>1, <2>2, <2>3 DEF TypeOK
  <2> QED
    BY <1>4, <2>1, <2>4 DEF TInv, HandlersHaveTheRow
<1>7. ASSUME NEW p \in Passes, Tick(p) PROVE TInv'
  <2>1. Listing(cursor) \in PassStates
    BY <1>1 DEF PassStates
  <2> QED
    BY <1>1, <1>5, <1>7, <2>1 DEF Tick, Listing
<1>8. ASSUME NEW p \in Passes, List(p) PROVE TInv'
  <2> DEFINE from == pass[p].from
             st == IF FirstListed(from) > Len(chain) THEN Fetching ELSE Applying(FirstListed(from), Len(chain))
  <2>1. from \in Nat
    BY <1>3, <1>8 DEF List, KeepsUp, Sane
  <2>2. FirstListed(from) \in Nat \ {0}
    BY <1>1, <2>1, IndexerAssumption DEF FirstListed
  <2>3. Goto(p, st) /\ skipped' = skipped \cup BeyondCap(from) /\ UNCHANGED <<chain, tables, faults, nulls>>
    BY <1>8 DEF List
  <2> HIDE DEF from
  <2>4. st \in PassStates
    BY <1>1, <2>2 DEF PassStates, Txs
  <2>5. st.step # "handle"
    BY DEF Fetching, Applying
  <2>6. skipped' \subseteq Known
    BY <1>1, <2>3 DEF BeyondCap
  <2> HIDE DEF st
  <2> QED
    BY <1>1, <1>5, <2>3, <2>4, <2>5, <2>6
<1>9. ASSUME NEW p \in Passes, Apply(p) \/ SkipUnavailable(p) PROVE TInv'
  <2>1. PICK i \in 1 .. MaxTxs + 1, j \in Txs : pass[p] = Applying(i, j)
    BY <1>1, <1>9, StateOfStep DEF Apply, SkipUnavailable
  <2>2. pass[p].next = i /\ pass[p].last = j
    BY <2>1 DEF Applying
  <2>3. i <= j /\ Goto(p, Applying(i + 1, j)) /\ UNCHANGED <<chain, cursor, mirror, faults>>
    BY <1>9, <2>2 DEF Apply, SkipUnavailable, Skip
  <2>4. Applying(i + 1, j) \in PassStates /\ Applying(i + 1, j).step # "handle"
    BY <1>1, <2>3 DEF PassStates, Applying, Txs
  <2>5. position' # NoRow => mirror' # NoSeries
    BY <1>1, <1>9 DEF Apply, SkipUnavailable, SeriesRowExists
  <2>6. nulls' \in 0 .. MaxNulls
    BY <1>1, <1>9 DEF Apply, SkipUnavailable
  <2>7. skipped' \subseteq Known
    <3>1. InGap(pass[p], Len(chain), processed \cup skipped)
      BY <1>3, <1>9 DEF Apply, SkipUnavailable, KeepsUp, Sane
    <3>2. i \in Known
      BY <1>1, <2>2, <2>3, <3>1 DEF InGap, Known
    <3> QED
      BY <1>1, <1>9, <2>2, <3>2 DEF Apply, SkipUnavailable
  <2> QED
    BY <1>1, <1>5, <2>3, <2>4, <2>5, <2>6, <2>7
<1>10. ASSUME NEW p \in Passes, Advance(p) PROVE TInv'
  <2>1. InGap(pass[p], Len(chain), processed \cup skipped)
    BY <1>3, <1>10 DEF Advance, KeepsUp, Sane
  <2>2. cursor' \in 0 .. Len(chain)
    BY <1>1, <1>10, <2>1 DEF Advance, InGap
  <2>3. Fetching \in PassStates /\ Fetching.step # "handle"
    BY DEF PassStates, Fetching
  <2> QED
    BY <1>1, <1>5, <1>10, <2>2, <2>3 DEF Advance
<1>11. ASSUME NEW p \in Passes, FetchSeries(p) PROVE TInv'
  <2>1. Writing(Account) \in PassStates /\ Writing(Account).step # "handle"
    BY <1>2 DEF PassStates, Writing
  <2> QED
    BY <1>1, <1>5, <1>11, <2>1 DEF FetchSeries
<1>12. ASSUME NEW p \in Passes, UpsertSeries(p) PROVE TInv'
  <2>1. pass[p].account \in Accounts
    BY <1>1, <1>12, StateOfStep DEF UpsertSeries
  <2>2. Idle \in PassStates /\ Idle.step # "handle"
    BY DEF PassStates, Idle
  <2>3. mirror' \in Accounts /\ mirror' # NoSeries
    BY <1>2, <1>12, <2>1 DEF UpsertSeries
  <2> QED
    BY <1>1, <1>5, <1>12, <2>2, <2>3 DEF UpsertSeries
<1>13. ASSUME NEW p \in Passes, Abandon(p) PROVE TInv'
  <2>1. Idle \in PassStates /\ Idle.step # "handle"
    BY DEF PassStates, Idle
  <2>2. faults' \in 0 .. MaxFaults
    BY <1>1, <1>13 DEF Abandon
  <2> QED
    BY <1>1, <1>5, <1>13, <2>1, <2>2 DEF Abandon
<1>14. ASSUME NEW p \in Passes, FetchMissing(p) PROVE TInv'
  <2>1. PICK i \in 1 .. MaxTxs + 1, j \in Txs : pass[p] = Applying(i, j)
    BY <1>1, <1>14, StateOfStep DEF FetchMissing
  <2>2. i <= j
    BY <1>14, <2>1 DEF FetchMissing, Applying
  <2>3. pass[p] \in Resolving
    BY <1>1, <2>1, <2>2 DEF Resolving, Txs
  <2>4. Inserting(pass[p], Account) \in PassStates /\ Inserting(pass[p], Account).step # "handle"
    BY <1>2, <2>3 DEF PassStates, Inserting
  <2> QED
    BY <1>1, <1>5, <1>14, <2>4 DEF FetchMissing
<1>15. ASSUME NEW p \in Passes, InsertMissing(p) PROVE TInv'
  <2>1. pass[p].for \in Resolving /\ pass[p].account \in Accounts
    BY <1>1, <1>15, StateOfStep DEF InsertMissing
  <2>2. mirror' \in Accounts /\ mirror' # NoSeries /\ pass[p].for \in PassStates
    BY <1>2, <1>15, <2>1, ResolvingIsAState DEF InsertMissing
  <2> QED
    BY <1>1, <1>5, <1>15, <2>2 DEF InsertMissing
<1>16. ASSUME NEW p \in Passes, Handle(p) PROVE TInv'
  <2>1. mirror # NoSeries
    BY <1>4, <1>16 DEF Handle
  <2>2. Fetching \in PassStates /\ Fetching.step # "handle"
    BY DEF PassStates, Fetching
  <2> QED
    BY <1>1, <1>5, <1>16, <2>1, <2>2 DEF Handle
<1>17. ASSUME NEW p \in Passes, NEW i \in Txs, Notified(p, i) PROVE TInv'
  <2>1. CASE SeriesRowExists
    <3>1. Fetching \in PassStates /\ Fetching.step # "handle"
      BY DEF PassStates, Fetching
    <3> QED
      BY <1>1, <1>5, <1>17, <2>1, <3>1 DEF Notified, SeriesRowExists
  <2>2. CASE ~SeriesRowExists
    <3>1. Inserting(Handling(i), Account) \in PassStates /\ Inserting(Handling(i), Account).step # "handle"
      BY <1>2 DEF PassStates, Resolving, Inserting
    <3> QED
      BY <1>1, <1>5, <1>17, <2>2, <3>1 DEF Notified
  <2> QED
    BY <2>1, <2>2
<1>18. CASE UNCHANGED vars
  BY <1>18 DEF vars, TInv, TypeOK, HandlersHaveTheRow, Known
<1> QED
  BY <1>6, <1>7, <1>8, <1>9, <1>10, <1>11, <1>12, <1>13, <1>14, <1>15, <1>16, <1>17, <1>18 DEF Next, Step

(* Every state of the indexer is well typed, whatever overlaps and fails:  *)
(* the cursor is a transaction of the history, and no position is without  *)
(* the series row that the wallet's join needs (seriesIdFor).              *)
THEOREM TypeCorrect == Spec => []TypeOK
  BY PassesAccountForTheirs, InitTInv, NextTInv, PTL DEF Spec, TInv

=============================================================================
