------------------------------ MODULE Indexer ------------------------------
(***************************************************************************)
(* The indexer (services/indexer): it mirrors one series and one position  *)
(* of it from the chain into Postgres.  Two sources feed it.  A websocket  *)
(* callback applies the events of one transaction and then mirrors the     *)
(* series account (subscribe); a tick every 10 seconds lists the           *)
(* transactions after the stored cursor, applies them oldest first, moves  *)
(* the cursor and then mirrors the account (runOnce).  Nothing makes one   *)
(* tick wait for the one before, so ticks and callbacks interleave at      *)
(* every await; notifications may be lost, late or out of order, and any   *)
(* statement or RPC call may fail and abandon its pass.                    *)
(*                                                                         *)
(* The chain's history is a sequence of transactions of one depositor: any *)
(* number of deposits of one unit, then a settlement and a claim or a      *)
(* cancellation and a refund.  A transaction is named by its place in it.  *)
(* The series row is missing at first: whichever pass first mirrors the    *)
(* account or needs its id writes it.  What a wallet is shown of it all is *)
(* Claimable (wallet.controller.ts).                                       *)
(*                                                                         *)
(* MaxTxs bounds the history, MaxFaults the failed passes, MaxNulls the    *)
(* transactions an RPC node lists but does not find when asked for them;   *)
(* Cap is MAX_BACKFILL.                                                    *)
(***************************************************************************)
EXTENDS Naturals, Sequences, FiniteSets

CONSTANTS Passes, MaxTxs, MaxFaults, MaxNulls, Cap

ASSUME IndexerAssumption ==
    /\ MaxTxs \in Nat \ {0} /\ Cap \in Nat \ {0}
    /\ MaxFaults \in Nat /\ MaxNulls \in Nat

VARIABLES
    chain,      \* history of the program's successful transactions
    processed,  \* processed_signatures
    position,   \* the depositor's row in positions
    cursor,     \* indexer_state.last_signature, 0 if there is none
    mirror,     \* the account data in the series row
    pass,       \* what each pass does next, with what it holds in its locals
    skipped,    \* transactions a pass left out for the cap or a null answer (history)
    faults, nulls

tables == <<processed, position, cursor, mirror>>
vars == <<chain, tables, pass, skipped, faults, nulls>>

\* The depositor leaves a settled series with a claim, a cancelled one with a
\* refund.
Exits == {"claim", "refund"}
Kinds == {"deposit", "settle", "cancel"} \cup Exits
Txs == 1 .. MaxTxs
Known == 1 .. Len(chain)
Count(txs, kind) == Cardinality({i \in txs : chain[i] = kind})

Landed(kinds) == \E i \in Known : chain[i] \in kinds

Status ==
    CASE Landed({"settle"}) -> "settled"
      [] Landed({"cancel"}) -> "cancelled"
      [] OTHER -> "open"

\* The account after the history so far: a claim or a refund leaves it alone.
Account == [principal |-> Count(Known, "deposit"), status |-> Status]

Accounts == [principal : 0 .. MaxTxs, status : {"open", "settled", "cancelled"}]

\* The series settles with a gain that does not divide by its shares.
Payout(account) == IF account.status = "settled" THEN 2 * account.principal + 1 ELSE 0

\* No series row.
NoSeries == [principal |-> MaxTxs + 1, status |-> "open"]

\* The states of a pass between its awaits.
Idle == [step |-> "idle"]
Listing(from) == [step |-> "list", from |-> from]
Applying(i, j) == [step |-> "apply", next |-> i, last |-> j]
Handling(i) == [step |-> "handle", next |-> i]
Inserting(state, account) == [step |-> "insert", for |-> state, account |-> account]
Fetching == [step |-> "fetch"]
Writing(account) == [step |-> "write", account |-> account]
Resolving == {Applying(i, j) : i \in Txs, j \in Txs} \cup {Handling(i) : i \in Txs}
PassStates ==
    {Idle, Fetching} \cup {Listing(from) : from \in 0 .. MaxTxs}
        \cup {Applying(i, j) : i \in 1 .. MaxTxs + 1, j \in Txs} \cup Resolving
        \cup {Inserting(state, account) : state \in Resolving, account \in Accounts}
        \cup {Writing(account) : account \in Accounts}

NoRow == [principal |-> 0, claimed |-> FALSE]

\* A position without its series row would be hidden by the wallet's join: no
\* foreign key demands the row, applyEvents has to see to it.
TypeOK ==
    /\ chain \in Seq(Kinds) /\ Len(chain) <= MaxTxs
    /\ processed \subseteq Known
    /\ position \in [principal : 0 .. MaxTxs, claimed : BOOLEAN]
    /\ cursor \in 0 .. Len(chain)
    /\ mirror \in Accounts \cup {NoSeries} /\ (position # NoRow => mirror # NoSeries)
    /\ pass \in [Passes -> PassStates] /\ skipped \subseteq Known
    /\ faults \in 0 .. MaxFaults /\ nulls \in 0 .. MaxNulls

Init ==
    /\ chain = <<>>
    /\ processed = {} /\ position = NoRow /\ cursor = 0
    /\ mirror = NoSeries
    /\ pass = [p \in Passes |-> Idle] /\ skipped = {}
    /\ faults = 0 /\ nulls = 0

At(p, step) == pass[p].step = step

Goto(p, state) == pass' = [pass EXCEPT ![p] = state]

-----------------------------------------------------------------------------
(* The program: what YcVault lets one depositor do. *)

Transact(kind) ==
    /\ Len(chain) < MaxTxs
    /\ kind \in {"deposit", "settle", "cancel"} => Status = "open"
    /\ kind = "claim" => Status = "settled"
    /\ kind = "refund" => Status = "cancelled"
    /\ kind \in {"settle"} \cup Exits => Landed({"deposit"}) /\ ~Landed(Exits)
    /\ chain' = Append(chain, kind)
    /\ UNCHANGED <<tables, pass, skipped, faults, nulls>>

-----------------------------------------------------------------------------
(* applyEvents: the series' id first, then one database transaction.       *)

\* A slip the properties must catch: the id is not looked up.
AlwaysThere == TRUE

SeriesRowExists == mirror # NoSeries

\* seriesIdFor finds no row and fetches the account.
FetchMissing(p) ==
    /\ At(p, "apply") /\ pass[p].next <= pass[p].last
    /\ ~SeriesRowExists
    /\ Goto(p, Inserting(pass[p], Account))
    /\ UNCHANGED <<chain, tables, skipped, faults, nulls>>

\* Another pass may have written a newer account meanwhile.
InsertMissing(p) ==
    /\ At(p, "insert")
    /\ mirror' = pass[p].account
    /\ Goto(p, pass[p].for)
    /\ UNCHANGED <<chain, processed, position, cursor, skipped, faults, nulls>>

\* The position after one more event.  A deposit inserts the row or adds to
\* it; for an exit there is an UPDATE, which finds no row before a deposit.
ApplyTo(row, kind) ==
    CASE kind = "deposit" -> [row EXCEPT !.principal = @ + 1]
      [] kind \in Exits -> [row EXCEPT !.claimed = row # NoRow]
      [] OTHER -> row

\* A slip the properties must catch: the signature's row is not looked at.
ApplyRegardless(i) ==
    /\ processed' = processed \cup {i}
    /\ position' = ApplyTo(position, chain[i])

\* INSERT ... ON CONFLICT DO NOTHING decides whether the events count.
ApplyEvents(i) ==
    IF i \in processed THEN UNCHANGED <<processed, position>>
    ELSE /\ processed' = processed \cup {i}
         /\ position' = ApplyTo(position, chain[i])

-----------------------------------------------------------------------------
(* The websocket callback: any transaction, at any time after it landed. *)

Notified(p, i) ==
    /\ At(p, "idle")
    /\ i \in Known
    /\ IF SeriesRowExists THEN ApplyEvents(i) /\ Goto(p, Fetching)
       ELSE Goto(p, Inserting(Handling(i), Account)) /\ UNCHANGED <<processed, position>>
    /\ UNCHANGED <<chain, cursor, mirror, skipped, faults, nulls>>

\* It goes on once it has written the missing row.
Handle(p) ==
    /\ At(p, "handle")
    /\ ApplyEvents(pass[p].next)
    /\ Goto(p, Fetching)
    /\ UNCHANGED <<chain, cursor, mirror, skipped, faults, nulls>>

-----------------------------------------------------------------------------
(* The tick: backfill, then syncSeries. *)

Tick(p) ==
    /\ At(p, "idle")
    /\ Goto(p, Listing(cursor))
    /\ UNCHANGED <<chain, tables, skipped, faults, nulls>>

\* A slip the properties must catch: the oldest of the gap is left out.
FirstButOne(from) == IF Len(chain) > from + Cap THEN Len(chain) - Cap + 1 ELSE from + 2

\* Newest first down to the cursor, at most Cap of them, then reversed: of a
\* longer gap the newest Cap transactions.
FirstListed(from) == IF Len(chain) > from + Cap THEN Len(chain) - Cap + 1 ELSE from + 1

\* The older end of a gap that is too long.
BeyondCap(from) == {i \in Known : from < i /\ i + Cap <= Len(chain)}

\* If there are none, the cursor is left alone.
List(p) ==
    LET first == FirstListed(pass[p].from)
    IN  /\ At(p, "list")
        /\ Goto(p, IF first > Len(chain) THEN Fetching ELSE Applying(first, Len(chain)))
        /\ skipped' = skipped \cup BeyondCap(pass[p].from)
        /\ UNCHANGED <<chain, tables, faults, nulls>>

Skip(p) == Goto(p, Applying(pass[p].next + 1, pass[p].last))

Apply(p) ==
    /\ At(p, "apply")
    /\ pass[p].next <= pass[p].last /\ SeriesRowExists
    /\ ApplyEvents(pass[p].next)
    /\ Skip(p)
    /\ UNCHANGED <<chain, cursor, mirror, skipped, faults, nulls>>

\* getTransaction answers null: processSignature returns false.
SkipUnavailable(p) ==
    /\ At(p, "apply")
    /\ pass[p].next <= pass[p].last
    /\ nulls < MaxNulls
    /\ nulls' = nulls + 1
    /\ skipped' = skipped \cup {pass[p].next}
    /\ Skip(p)
    /\ UNCHANGED <<chain, tables, faults>>

\* The cursor moves to the newest listed transaction, forwards or, if another
\* pass went further meanwhile, backwards.
Advance(p) ==
    /\ At(p, "apply")
    /\ pass[p].next > pass[p].last
    /\ cursor' = pass[p].last
    /\ Goto(p, Fetching)
    /\ UNCHANGED <<chain, processed, position, mirror, skipped, faults, nulls>>

FetchSeries(p) ==
    /\ At(p, "fetch")
    /\ Goto(p, Writing(Account))
    /\ UNCHANGED <<chain, tables, skipped, faults, nulls>>

\* A slip the properties must catch: an INSERT that leaves a row as it is.
InsertSeries(p) ==
    /\ At(p, "write")
    /\ Goto(p, Idle)
    /\ UNCHANGED <<chain, tables, skipped, faults, nulls>>

UpsertSeries(p) ==
    /\ At(p, "write")
    /\ mirror' = pass[p].account
    /\ Goto(p, Idle)
    /\ UNCHANGED <<chain, processed, position, cursor, skipped, faults, nulls>>

\* A call fails, or the process dies: what is committed stays.
Abandon(p) ==
    /\ ~At(p, "idle")
    /\ faults < MaxFaults
    /\ faults' = faults + 1
    /\ Goto(p, Idle)
    /\ UNCHANGED <<chain, tables, skipped, nulls>>

-----------------------------------------------------------------------------

Step(p) ==
    \/ List(p) \/ Apply(p) \/ Advance(p) \/ FetchSeries(p) \/ UpsertSeries(p)
    \/ FetchMissing(p) \/ InsertMissing(p) \/ Handle(p)

-----------------------------------------------------------------------------
(* What the API shows a wallet. *)

ClaimAmount(payout, principal, total) == IF total = 0 THEN 0 ELSE (payout * principal) \div total

\* What an unclaimed position is worth: its share of a settled payout, or a
\* refund one to one.
Worth ==
    CASE mirror.status = "settled" ->
             ClaimAmount(Payout(mirror), position.principal, mirror.principal)
      [] mirror.status = "cancelled" -> position.principal
      [] OTHER -> 0

\* A slip the properties must catch: the claimed flag is not looked at.
ClaimableAnyway == Worth

Claimable == IF position.claimed THEN 0 ELSE Worth

-----------------------------------------------------------------------------

Next ==
    \/ \E kind \in Kinds : Transact(kind)
    \/ \E p \in Passes : Tick(p) \/ Step(p) \/ SkipUnavailable(p) \/ Abandon(p)
    \/ \E p \in Passes, i \in Txs : Notified(p, i)

Spec == Init /\ [][Next]_vars

\* Ticks keep coming and calls that do not fail return; notifications and
\* transactions need not come.
Fairness == \A p \in Passes : WF_vars(Step(p)) /\ SF_vars(Tick(p))

FairSpec == Spec /\ Fairness

-----------------------------------------------------------------------------
(* Properties. *)

(* "Each tx applied exactly once": however ticks, callbacks and abandoned  *)
(* passes overlap, the position holds the principal of exactly the         *)
(* transactions marked as processed.                                       *)
AppliedExactlyOnce == position.principal = Count(processed, "deposit")

(* Whatever passes overlap or are abandoned, and however they move the     *)
(* cursor over each other, a transaction behind the cursor is processed,   *)
(* unless one of them left it out for the cap or a null answer: backfill   *)
(* never looks there again, so it would be lost for ever.                  *)
CursorCovers == 1 .. cursor \subseteq processed \cup skipped

(* With all transactions processed, the position is what the chain says.   *)
PositionFollowsChain ==
    processed = Known =>
        /\ position.principal = Count(Known, "deposit")
        /\ position.claimed <=> Landed(Exits)

(* Without any notification, every transaction is processed in the end, or *)
(* left out for the cap or a null answer.                                  *)
EventuallyIndexed == <>[](Known \subseteq processed \cup skipped)

(* The series row may go back to an older account while passes overlap,    *)
(* but ends up with the account's data and keeps it.                       *)
EventuallyMirrors == <>[](mirror = Account)

\* What the program would still pay the depositor.
Owed ==
    CASE Landed(Exits) \/ Status = "open" -> 0
      [] Status = "settled" -> Payout(Account)
      [] OTHER -> Account.principal

\* No claim or refund was applied before the deposit it belongs to.
ExitKept == position.claimed <=> \E i \in processed : chain[i] \in Exits

(* What a wallet is shown as claimable ends up as what the program would   *)
(* pay, although the position is built from events and the payout comes    *)
(* from a mirrored account that passes overwrite in any order; unless a    *)
(* transaction was left out, or an exit was applied before its deposit.    *)
EventuallyClaimable == <>[](skipped = {} /\ ExitKept => Claimable = Owed)

=============================================================================
