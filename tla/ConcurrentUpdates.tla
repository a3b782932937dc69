--------------------------- MODULE ConcurrentUpdates ---------------------------
(***************************************************************************)
(* Three ways in which callers read, compute and write back:               *)
(* InMemoryUnitOfWork (04_persistence/unit_of_work.go), where a            *)
(* transaction works on staged copies that its commit writes over the      *)
(* stored ones; OptimisticInventoryStore (optimistic_locking.go), where an *)
(* update names the version it has read; and Checkout of                   *)
(* 13_database/transaction_boundary.go, whose transaction is run by        *)
(* ExecuteWithDeadlockRetry (deadlock_retry.go) on a serializable          *)
(* database, which is external, as is the gateway.                         *)
(***************************************************************************)
EXTENDS Integers, FiniteSets, Functions

CONSTANTS Client,    \* goroutines
          Wallet,    \* wallets that were seeded
          Initial,   \* each balance, the stock of the item and of the product
          MaxTx,     \* bound: transactions that commit
          MaxSales,  \* bound: stock updates that succeed
          MaxRetries \* of ExecuteWithDeadlockRetry, after its default

UpdateParameters ==
  /\ {Initial, MaxTx, MaxSales} \subseteq Nat /\ MaxRetries \in Nat \ {0}
  /\ IsFiniteSet(Client) /\ IsFiniteSet(Wallet)

VARIABLES wallets,        \* u.wallets: the balances
          ledger,         \* u.ledgers: the sum of the entries of each wallet
          open,           \* clients inside ExecuteTx
          stagedWallets,  \* of each session: the wallets it has staged
          stagedLedger,   \* of each session: the sum of its entries per wallet
          commits,        \* history: transactions committed
          seen,           \* history: of each session, the balances it has read
          erased,         \* history: per wallet, what commits have overwritten unread
          item,           \* the item's stock and version
          copy,           \* the item as each client has read it, version 0 if it has not
          sold,           \* history: units that successful updates took out
          stage,          \* where each client's Checkout is
          attempt,        \* of its transaction
          qty,            \* that it asks for
          snapshot,       \* what its transaction has read: commits and inventory
          inventory,      \* of the product, in the database
          orders,         \* clients whose order the database has, PAID
          committed,      \* history: transactions that the database has committed
          charges,        \* history: charges by the gateway
          unsure          \* history: clients whose commit was answered by a lost connection

txVars == <<wallets, ledger, open, stagedWallets, stagedLedger, commits, seen, erased>>
stockVars == <<item, copy, sold>>
checkoutVars == <<stage, attempt, qty, snapshot, inventory, orders, committed, charges,
                  unsure>>
vars == <<txVars, stockVars, checkoutVars>>

Zero == [w \in Wallet |-> 0]
Nothing == [w \in {} |-> 0]

Init ==
  /\ wallets = [w \in Wallet |-> Initial] /\ ledger = Zero
  /\ open = {} /\ commits = 0 /\ erased = Zero
  /\ stagedWallets = [c \in Client |-> Nothing]
  /\ stagedLedger = [c \in Client |-> Zero]
  /\ seen = [c \in Client |-> Zero]
  /\ item = [stock |-> Initial, version |-> 1]
  /\ copy = [c \in Client |-> [stock |-> 0, version |-> 0]]
  /\ sold = 0
  /\ stage = [c \in Client |-> "idle"] /\ attempt = [c \in Client |-> 0]
  /\ qty = [c \in Client |-> 0] /\ snapshot = [c \in Client |-> <<0, 0>>]
  /\ inventory = Initial /\ orders = {} /\ committed = 0
  /\ charges = [c \in Client |-> 0] /\ unsure = {}

-----------------------------------------------------------------------------
\* ExecuteTx makes a session with nothing staged, and forgets it when it returns.
Begin(c) ==
  /\ c \notin open /\ commits < MaxTx
  /\ open' = open \cup {c}
  /\ UNCHANGED <<wallets, ledger, stagedWallets, stagedLedger, commits, seen, erased,
                 stockVars>>

Forget(c) ==
  /\ open' = open \ {c}
  /\ stagedWallets' = [stagedWallets EXCEPT ![c] = Nothing]
  /\ stagedLedger' = [stagedLedger EXCEPT ![c] = Zero]
  /\ seen' = [seen EXCEPT ![c] = Zero]

Staged(c) == DOMAIN stagedWallets[c]

\* GetWallet stages a copy of the stored wallet; a staged one is returned as it is.
GetWallet(c, w) ==
  /\ c \in open /\ w \notin Staged(c)
  /\ stagedWallets' =
       [stagedWallets EXCEPT ![c] = [v \in Staged(c) \cup {w} |->
          IF v = w THEN wallets[w] ELSE stagedWallets[c][v]]]
  /\ seen' = [seen EXCEPT ![c][w] = wallets[w]]
  /\ UNCHANGED <<wallets, ledger, open, stagedLedger, commits, erased, stockVars>>

\* fn moves one unit from a wallet it has read to another: two UpdateWallets and a
\* ledger entry for each.
Transfer(c, from, to) ==
  /\ c \in open /\ from # to /\ {from, to} \subseteq Staged(c)
  /\ stagedWallets[c][from] > 0 /\ stagedLedger[c] = Zero
  /\ stagedWallets' = [stagedWallets EXCEPT ![c][from] = @ - 1, ![c][to] = @ + 1]
  /\ stagedLedger' = [stagedLedger EXCEPT ![c][from] = @ - 1, ![c][to] = @ + 1]
  /\ UNCHANGED <<wallets, ledger, open, commits, seen, erased, stockVars>>

\* The commit under u.mu: every staged wallet is stored, also one that was only read,
\* and the entries are added to the ledger.
Commit(c) ==
  /\ c \in open /\ commits < MaxTx
  /\ wallets' = [w \in Wallet |-> IF w \in Staged(c) THEN stagedWallets[c][w] ELSE wallets[w]]
  /\ ledger' = [w \in Wallet |-> ledger[w] + stagedLedger[c][w]]
  /\ commits' = commits + 1 /\ Forget(c)
  /\ erased' = [w \in Wallet |->
       IF w \in Staged(c) THEN erased[w] + wallets[w] - seen[c][w] ELSE erased[w]]
  /\ UNCHANGED stockVars

\* fn returns an error or panics: the session is all that is lost.
Rollback(c) ==
  /\ c \in open /\ Forget(c)
  /\ UNCHANGED <<wallets, ledger, commits, erased, stockVars>>

-----------------------------------------------------------------------------
\* Get returns a copy of the item.
Get(c) ==
  /\ copy' = [copy EXCEPT ![c] = item]
  /\ UNCHANGED <<item, sold, txVars>>

\* UpdateStock of a client that sells n of the units it has seen: refused unless the
\* version is the one it has read. A refused client reads again.
AnyVersion(c) == TRUE
VersionMatches(c) == item.version = copy[c].version

UpdateStock(c, n) ==
  /\ copy[c].version > 0 /\ n <= copy[c].stock /\ item.version <= MaxSales
  /\ IF VersionMatches(c)
       THEN /\ item' = [stock |-> copy[c].stock - n, version |-> item.version + 1]
            /\ sold' = sold + n
       ELSE UNCHANGED <<item, sold>>
  /\ copy' = [copy EXCEPT ![c].version = 0]
  /\ UNCHANGED txVars

-----------------------------------------------------------------------------
Goes(c, s) == stage' = [stage EXCEPT ![c] = s]
database == <<inventory, orders, committed>>

\* Checkout calls the gateway before any transaction: declined, or charged.
Checkout(c, n) ==
  /\ stage[c] = "idle" /\ qty' = [qty EXCEPT ![c] = n]
  /\ \/ Goes(c, "failed") /\ UNCHANGED <<attempt, charges>>
     \/ /\ Goes(c, "try") /\ attempt' = [attempt EXCEPT ![c] = 1]
        /\ charges' = [charges EXCEPT ![c] = @ + 1]
  /\ UNCHANGED <<snapshot, database, unsure>>

\* A turn of the retries: the context is looked at, then the transaction begins and
\* saves the order, which takes effect with the commit.
Try(c) ==
  /\ stage[c] = "try" /\ (Goes(c, "failed") \/ Goes(c, "deduct"))
  /\ UNCHANGED <<attempt, qty, snapshot, database, charges, unsure>>

\* DeductInventory reads what there is.
DeductInventory(c) ==
  /\ stage[c] = "deduct" /\ inventory >= qty[c] /\ Goes(c, "commit")
  /\ snapshot' = [snapshot EXCEPT ![c] = <<committed, inventory>>]
  /\ UNCHANGED <<attempt, qty, database, charges, unsure>>

\* The database commits order and deduction if no other transaction has since;
Serial(c) == snapshot[c][1] = committed

CommitTx(c) ==
  /\ stage[c] = "commit" /\ Serial(c)
  /\ inventory' = snapshot[c][2] - qty[c] /\ orders' = orders \cup {c}
  /\ committed' = committed + 1 /\ Goes(c, "answered")
  /\ UNCHANGED <<attempt, qty, snapshot, charges, unsure>>

Confirmed(c) ==
  /\ stage[c] = "answered" /\ Goes(c, "ok")
  /\ UNCHANGED <<attempt, qty, snapshot, database, charges, unsure>>

\* What ExecuteWithDeadlockRetry tries again: deadlocks and serialization failures.
AnyError(err) == TRUE
IsDeadlockError(err) == err = "deadlock"

\* A statement or the commit fails, and the transaction is rolled back; or the commit
\* was made and its answer is lost.
TxFails(c, err) ==
  /\ stage[c] \in {"deduct", "commit", "answered"}
  /\ stage[c] = "answered" => err = "lost"
  /\ unsure' = IF stage[c] = "answered" THEN unsure \cup {c} ELSE unsure
  /\ Goes(c, IF IsDeadlockError(err) /\ attempt[c] < MaxRetries THEN "backoff" ELSE "failed")
  /\ UNCHANGED <<attempt, qty, snapshot, database, charges>>

\* The wait passes, or the context is done.
Backoff(c) ==
  /\ stage[c] = "backoff"
  /\ \/ Goes(c, "try") /\ attempt' = [attempt EXCEPT ![c] = @ + 1]
     \/ Goes(c, "failed") /\ UNCHANGED attempt
  /\ UNCHANGED <<qty, snapshot, database, charges, unsure>>

CheckoutNext ==
  \E c \in Client :
    \/ \E n \in 1..Initial : Checkout(c, n)
    \/ Try(c) \/ DeductInventory(c) \/ CommitTx(c) \/ Confirmed(c) \/ Backoff(c)
    \/ \E err \in {"deadlock", "lost", "permanent"} : TxFails(c, err)

-----------------------------------------------------------------------------
TxNext ==
  \E c \in Client :
    \/ Begin(c) \/ Commit(c) \/ Rollback(c)
    \/ \E w \in Wallet : GetWallet(c, w) \/ \E v \in Wallet : Transfer(c, w, v)

StockNext == \E c \in Client : Get(c) \/ \E n \in 1..Initial : UpdateStock(c, n)

Next ==
  \/ (TxNext \/ StockNext) /\ UNCHANGED checkoutVars
  \/ CheckoutNext /\ UNCHANGED <<txVars, stockVars>>

Spec == Init /\ [][Next]_vars

-----------------------------------------------------------------------------
\* Every variable keeps its type.
TypeOK ==
  /\ {wallets, ledger, erased} \subseteq [Wallet -> Int]
  /\ open \subseteq Client /\ commits \in 0..MaxTx
  /\ \A c \in Client :
       /\ Staged(c) \subseteq Wallet
       /\ stagedLedger[c] \in [Wallet -> Int] /\ seen[c] \in [Wallet -> Int]
       /\ copy[c].version \in 0..item.version
  /\ item \in [stock : 0..Initial, version : 1..(MaxSales + 1)] /\ sold \in 0..Initial
  /\ stage \in [Client -> {"idle", "try", "deduct", "commit", "answered", "backoff", "ok",
                            "failed"}]
  /\ attempt \in [Client -> 0..MaxRetries] /\ inventory \in 0..Initial

\* Whatever is rolled back and whenever it is, a balance differs from its entries by
\* what commits wrote over without having read it, and by nothing else: a commit undoes
\* what others have stored since its session read the wallet.
LedgersAgree == \A w \in Wallet : wallets[w] = Initial + ledger[w] - erased[w]

\* The unit of work "coordinates the writing out of changes and the resolution of
\* concurrency problems" (unit_of_work.md:4): every balance is the sum of its entries.
NoLostUpdate == \A w \in Wallet : wallets[w] = Initial + ledger[w]

\* With versions no update is lost at all.
UnitsAccounted == item.stock + sold = Initial

\* Both of these, and entries come in pairs.
UpdatesKept ==
  LedgersAgree /\ UnitsAccounted /\ FoldFunction(LAMBDA x, y : x + y, 0, ledger) = 0

\* Through conflicts, retries and lost answers each order was charged once, and a failed
\* Checkout has no order, unless the answer of its commit was lost: that error is not
\* tried again.
OrdersCharged ==
  \A c \in Client :
    /\ charges[c] <= 1 /\ (c \in orders => charges[c] = 1)
    /\ stage[c] = "ok" => c \in orders
    /\ stage[c] = "failed" /\ c \in orders => c \in unsure

\* "Ultra-short DB transaction boundary for atomicity": the units of the orders, and
\* of no others, were taken out once.
CheckoutAtomic ==
  /\ OrdersCharged
  /\ inventory + FoldFunctionOnSet(LAMBDA x, y : x + y, 0, qty, orders) = Initial

=============================================================================
