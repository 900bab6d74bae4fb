# b2-indexer in TLA+

A verification project for the b2-indexer: a daemon that watches bitcoin for
payments to one listen address and credits each of them on the B2 network.
The modules are translated from the Go source; TLC checks them on small
instances and TLAPS proves the safety results for every instance.

## The system

| part | state it keeps | operations | talks to |
|---|---|---|---|
| `Indexer` (`indexer.go`) | none | `ParseBlock`, `LatestBlock` | the bitcoin node |
| `IndexerService` (`indexer_service.go`) | rows of `deposit_history`, the one row of `btc_index`; locals of `OnStart` | the block loop, `SaveParsedResult` | `Indexer`, the database |
| `BridgeDepositService` (`bridge_deposit_service.go`) | status, retry and hash columns of `deposit_history` | the batch loop, `HandleDeposit` | `Bridge`, the database |
| `Bridge` (`bridge.go`) | none | `Deposit`, `Transfer`, `WaitMined`, gas prices | the B2 node, the explorer |
| `EpsService` (`eps_service.go`) | rows of `eps_history` | a goroutine that fills the table, a loop that reports its rows | the database, the B2 node, the EPS server |
| configuration (`config.go`) | none | reads a file or the environment | the command |
| server (`start.go`, `util.go`, `cmd.go`) | none | reads the configuration, starts the services one after the other | all of them |

The services share nothing but the tables: the indexer inserts a deposit row as
*pending*; the bridge reads pending rows and writes their outcome; the EPS
service reads rows whose eoa transfer succeeded. Each runs in a goroutine of
its own and survives a restart only through the tables; a panic of one of them,
a signal or a crash ends all of them at once, wherever they are.

What is hard about it:

* crashes between a row and the position that goes with it, or between a
  transaction sent to the B2 chain and the row that should say so;
* failures that are logged and walked past (saves, updates, chain heights);
* cursor arithmetic: index 0 stands for a whole block, an error rewinds by one
  index or by one block;
* calls to a chain that may be executed although the call failed, and receipts
  that arrive after a timeout;
* counters and batches at their limits.

`PROJECT.json` lists these hazards at their lines with the properties that
cover them.

## Modules

| module | what it is |
|---|---|
| `BlockParser` | `ParseBlock` as a function of a block and a start index |
| `IndexerService` | the block loop with its database and the growing chain |
| `PaymentLog` | abstract: a durable position that moves over payments together with their records |
| `BridgeDeposit` | the batch loop, `HandleDeposit`, and the B2 chain around them |
| `DepositPayout` | abstract: what may be sent for a deposit, and when |
| `EpsService` | its two goroutines over one table, and the EPS server |
| `ReportOutbox` | abstract: when a message may be sent, sent again and closed |
| `Pipeline` | the three services in one process over one database, composed of the modules above |
| `Config` | `LoadBitcoinConfig` for the settings that decide which services run |
| `Server` | the command: configuration, `Start` with its windows, and what each `OnStart` does before its loop |
| `BlockParserProofs`, `IndexerServiceProofs`, `IndexerServiceRefinement`, `BridgeDepositProofs`, `BridgeDepositRefinement`, `EpsServiceProofs`, `PipelineProofs`, `ServerProofs` | TLAPS proofs |
| `MC*` | instances for TLC |

### IndexerService

`chain` is the bitcoin chain (external; it only grows). `btcIndex` and
`deposits` are the two tables; `latestBlock`, `currentBlock`, `currentTxIndex`,
`height` (the loop variable `i`) and `pending` (the results of the block still
to be handled) are the locals of `OnStart`, lost when the process stops.
`pc` is the place in `OnStart`: `load` reads or creates the position, `poll`
is the head of the outer loop, `parse` the call of `ParseBlock`, `save` the
loop over its results. `SaveParsedResult` is one database transaction, hence
one action (`Insert` inside `Save` and `SaveErr`): the row and the position are
written together, or neither is, and the answer to the commit may be lost.
`Panic` is the index out of range of `parseResult.From[0]`; the transaction may
fail to begin before it, and then the payment is only logged (`SaveErr`).

An unsuccessful `LatestBlock` in `Start` leaves the process down and is not an
action. `LoadErr` is the error of reading or creating the position; the row may
have been created all the same. A parse error is possible at every `parse` step
(the node) and the only step possible when the block itself cannot be parsed.

Definitions with the comment *mutant* are deliberate errors; the specification
does not use them. `PROJECT.json` names, for every property, the definition to
replace by such an error so that TLC refutes the property.

### BridgeDeposit

`rows` holds what the service reads and writes of `deposit_history`; `txs` the
transactions of the bridge account in nonce order, mined in that order. `row`
is the copy `HandleDeposit` works on, written back by `Update` in one
statement, with all columns. A query that fails (`QueryErr`) is logged, and the
rows it had read are handled. Errors of a call are grouped by what the code does
with them: `SendRefused` (the three errors recognised from `estimateGas`),
`SendErr` (all others, those after which the transaction is in the pool all the
same included). Assumed of the external chain: the contract reverts a deposit
it has already processed, `estimateGas` runs on the latest block, transactions
are not dropped or replaced. Amounts, addresses and gas prices are left out: of
gas price, ABI packing and address derivation only the failure matters here.

`lost` is a history variable: how many deposit transactions of a deposit its row
never came to know of, because the process ended, an answer was lost or the
update failed. `Crash` is a fault of this module's own instances followed by
`Die`, what the end of a process means to the bridge; `Pipeline` uses `Die`.
A row is inserted by `AddDeposit` with the statuses `NewRow`: gorm leaves fields
that are zero to the defaults of their columns, which matters because *success*
is the zero status.

`DepositPayout` knows of none of this. For each deposit it has the orders sent
to the contract, the transfers, which of these were reverted, how many orders
were hidden from the service, and whether the deposit is closed. An order may
be sent only if all earlier ones are hidden, a transfer only if there are more
reverted orders than transfers, nothing at all for a closed deposit.

### EpsService

`paid` is what the service reads of `deposit_history`: the two B2 transactions
of every deposit whose eoa transfer succeeded. `eps` is `eps_history`; the
other variables are the locals of the two goroutines. `Lookup` and `Save` are
two steps because node and database are asked in between; `Put` and `Mark` are
two because a crash, or a failed update, can come between them. `accepted`
belongs to the EPS server; `unmarked` is a history variable that counts the
acceptances the row was never told of. The chain places every hash (`PositionOf`)
so that what a row says of its transaction can be compared with the chain.

`ReportOutbox` knows of no tables and passes: messages fall due, are delivered as
long as they are not closed and every acceptance so far is hidden from the
sender, and are closed on an acceptance the sender knows of. The refinement
mapping takes for closed the deposits with a row marked reported (`Marked`).

### Pipeline

The module instantiates the three services and gives them one state. The rows of
`deposit_history` are keyed by what the indexer writes: `DOMAIN rows` is the
indexer's `deposits`, the statuses are the bridge's, and `paid` of `EpsService`
is the query over the eoa status. Every action of a service is the action of its
own module with everything else unchanged; what is new is where they meet:

* `Insert` of the indexer (in `Save` and `SaveErr`) adds the row the bridge finds;
* `launched` says which goroutines the process has: the indexer first, the
  bridge five seconds after it, then EPS (`Launch`);
* the panic of the indexer, an error of it in those five seconds, and `Crash`
  (a signal, the machine) end the process: the locals of all services are gone,
  and what the bridge had sent but not recorded is lost;
* an error of the indexer's `OnStart` that comes later leaves the others running.

Here the indexer's deposits are the payments of the chain that the parser can
return, so that what is paid on one chain can be compared with the other.

### Config and Server

`Config` says what a setting comes to be from the file, the variable viper
derives from the key and the variable of the env tag. With a `bitcoin.toml` the
last is not read, and of the keys only those in the file count (`ServicesHaveKeys`
of `Server`); without one the second is not.

`main` is where the command stands, `conf` what it found, `enabled` what it made
of it, `status` how the last process ended, `svc` the place of each goroutine in
its `OnStart`, `schema` how much of each table exists and `indexing` who is
between the two statements of `AutoMigrate`. A five-second window is the choice
between `ReturnErr` and `GoOn`: how long calls take is not modelled, so both are
possible whenever an error is there. Each start may find another configuration.
`SkipTable` and `CreateTable` are the answers of `HasTable`; `MissTable` is a
query of it that failed, which it answers with no as well, so that `AutoMigrate`
finds the table and adds the indexes that are missing.
`IndexerService` and `EpsService` start where this module says `loop`.

## Runs

| run | question | bounds |
|---|---|---|
| `indexer_safety` | is a payment ever lost without a trace, recorded out of step with the position, or the position moved back; does the loop implement `PaymentLog`; is `IInv` an invariant | three blocks of five shapes (several payments, two outputs in one transaction, self payment, no sender, unparsable payment, coinbase payment), one crash, errors without bound |
| `indexer_liveness` | is every payment below the top block settled | three blocks of two shapes, one crash |
| `indexer_full_value` | does a row hold all a transaction paid (it does not) | two blocks, no crash |
| `bridge_safety` | do rows tell the truth about the chain; is a second payment always the consequence of a fault and of a lost transaction; does the bridge implement `DepositPayout`; is `IInv` an invariant | two deposits, retry limit 2, column limit 3, one fault |
| `bridge_liveness` | does every deposit leave the queue | two deposits, retry limit 1, column limit 2, no faults |
| `bridge_double_pay` | is a bitcoin transaction paid at most once (it is not) | one deposit, one fault |
| `eps_reports` | one row per deposit, reported in the end, and twice only after a hidden acceptance; do both goroutines implement `ReportOutbox`; is `IInv` an invariant | two deposits, two faults, refusals without bound |
| `eps_hash` | does a row name the transaction it describes (it does not) | two deposits |
| `server_start` | does starting end, with what the configuration asks for and with the tables; does the documented variable decide without a file, and the file's keys with one | none needed |
| `server_late_error` | does a process that serves run all its services (it need not) | none needed |
| `server_indexes` | is the unique index there before rows are inserted (it need not be) | none needed |
| `pipeline` | is all that is paid and reported owed, whichever service or process stops where; does each service see of the others only what its own module assumes, and keep what it promises by itself | one block of two shapes, retry and column limits 1, batches of 1, one fault in all, one payment logged as failed |

Three blocks are what it takes to resume inside a block, finish it, and go on
to a later one in the same pass of the loop; four transactions per block allow a
position before, between and after payments. Two deposits allow a transaction of one to
sit before that of the other in the nonce order.

For the EPS service one fault can hide an acceptance and a second the retry.
`Server` is finite by itself: tables are three, and a configuration is one of
the few combinations `Config` tells apart.

`Pipeline` has one block above the coinbase-only start. Its two shapes hold what
makes services meet: two outputs of one transaction (one row, the other refused)
with a payment behind them that makes the indexer panic, and a payment of the
bridge to itself. One fault (a crash of the process, an answer or an update lost
to the bridge or to EPS) is enough for a second payment, or a second report.
One payment of the block may be logged as failed (`MaxFailed`): the two outputs
or the one that makes the indexer panic. Panics, refusals and the other errors of
the indexer are not bounded. Longer chains and
batches are the business of the modules' own runs, and of the proofs.

Deadlock is checked in every run.

**Fairness.** The loops have no exit and the process is restarted by its
supervisor, so every service step is weakly fair. Calls to the node and the
database are strongly fair, the query of the bridge's batch among them: each
fails as often as it likes but not for ever.
The deadline of `WaitMined` makes fairness of the B2 chain unnecessary. In
`EpsService` the lookup, the insert, the report and the update of one deposit
are strongly fair, both loops weakly. `Server` assumes of its timers only that
they fire: `GoOn` is weakly fair while the command waits for a service, nothing
else is. `Pipeline` states no fairness: its run asks for safety only.

The supervisor must restart the process whatever its exit status: `Run` in
`cmd.go` logs the error of `Start` and returns, so the status is 0 although
nothing runs; it is 1 for a configuration or a logger that cannot be set up and
2 for a panic. And it does not see a service that failed late
(`server_late_error`): the liveness of `IndexerService` holds for processes
whose indexer got into its loop.

## What the runs found

* `indexer_full_value`: two outputs to the listen address in one transaction
  give two results with the same hash; the unique index refuses the second, the
  error is logged and the position passes it. `btc_value` ("bitcoin transfer
  value") holds one output only.
* `bridge_double_pay`: a deposit whose transaction was sent but not recorded is
  sent again. When the first attempt ended in an eoa transfer, or when its
  transaction is mined between estimate and execution of the second, the
  deposit is paid twice, although the code means it to be "non-repeatable
  processing".
* `eps_hash`: a row of `eps_history` has sender, receiver, block and index of
  the eoa transfer but the hash of the deposit transaction that was reverted;
  the report made of it has all of these but the index, which it sends as 0.
* `server_late_error`: an error of `OnStart` later than five seconds blocks its
  goroutine on a channel nobody reads; the process serves without the service.
* `server_indexes`: a process that dies between the creation of a table and of
  its indexes leaves a table `HasTable` takes for complete, as long as its query
  succeeds. Without the unique
  index the indexer inserts a row per output; `IndexerService` assumes it.

## Proofs

`IndexerServiceProofs` proves, for all blocks, heights and numbers of crashes,
`TypeOK`, `NoSilentLoss`, `RecordedIsCovered`, `OnlyOwedRecorded` and
`CursorNeverRewinds`. The assumptions are those declared in `IndexerService`:
blocks start with a coinbase whose input no lookup finds, and the bounds are
naturals.

None of these is inductive by itself. `IInv` adds where the loop is: at `poll`
everything behind the local position is settled and the durable position is not
ahead of it (`PollInv`); inside a block everything before the start index is
settled, the durable position is before it, and the start index is never 1
(`BlockInv`: a step back from 1 would give 0, which means the whole block);
among the results those handled are settled and the durable position has not
passed a pending one (`SaveInv`). That a stored index is never 0 rests on
`NoCoinbaseResult` of `BlockParserProofs`: the coinbase is never a result.

`IndexerServiceRefinement` proves that the loop implements `PaymentLog`. A step
of `FinishBlock` is `Close`, a committed `Save` is `Record`, an uncommitted one
`Report`; everything else leaves the log alone. Beyond `IInv` it needs one fact
(`MarkInv`): a position inside a block points at a transaction that is on
record, so that the next result lies strictly behind it.

`SingleOutputsInFull` shows that `indexer_full_value` has one cause: as long as no
transaction has two outputs to the listen address, rows hold all that was paid.
It follows from `IInv` and one row per transaction (`OneRowPerTx`, which the
unique index enforces).

`BridgeDepositProofs` proves every invariant and action property of
`bridge_safety` for any finite set of deposits, any limits and any number of
faults. What makes `IInv` inductive is that it describes the copy at hand:
`BatchInv` says the rows of a batch are still as the query found them, `CopyInv`
what `HandleDeposit` knows of the chain at each of its places, `RowInv` that a
queued row knows of no transaction. `SentInv` counts: the deposit transactions
of a deposit are those lost, plus one if its row or the copy at hand knows one.
`TransferInv` counts transfers against reverted transactions, except the one a
transfer is still due for. `CreditsBounded` follows from the two counts: what is
paid is at most the transactions that were not reverted plus the transfers, which
are at most the reverted ones. `RetryableIsUnsent` is `SentInv` for a row without
a transaction.

`CreditsNeedFaults` goes one step further back: transactions are lost by a crash,
a lost answer or a failed update, and by nothing else. The danger is the update
which the column of the retry counter refuses without any fault. `FaultInv`
excludes it: a row at hand that has a transaction has not counted another try,
so that its update fits. `OncePaidWithoutFaults` is the other side of
`bridge_double_pay`: a service that meets no fault pays at most once.

`BridgeDepositRefinement` proves that the bridge implements `DepositPayout`: a
`Send` is an `Order`, a crash, a failed update or a lost answer `Hide`s, mining
is `Revert` or a stutter, `Update` may `Close`.

`EpsServiceProofs` proves `TypeOK`, `OneRowPerDeposit`, `ReportedWasAccepted` and
`AcceptedBounded` for any deposits and any number of faults. The invariant says
what the copies of the goroutines still know about the table: the deposit being
filled has no row (`FillInv`), rows still to be reported are not marked
(`ReportInv`), and of the acceptances of a deposit all but one are accounted as
hidden, that one being in its row or in the hands of the second goroutine
(`AccountInv`); rows and reports are of deposits that were paid (`PaidInv`). The
bound alone is not inductive: it does not say which rows may still be reported.
Its theorem `Refinement` shows that the goroutines implement `ReportOutbox`: a
deposit that comes to be paid is `FallDue`, an accepted `Put` is `Deliver`, an
update that fails or a crash between the two is `Hide`, `Mark` is `Close`, and
what the first goroutine does is a stutter. That an acceptance in hand is not
hidden is `AccountInv`, an equation for this purpose.

`PipelineProofs` proves all properties of the `pipeline` run, for any blocks,
heights, limits and numbers of faults, from the proofs of the parts. The theorems of
a part are about its own `Spec`, and the part is not alone here; what carries over
are its steps. The lemmas `IndexerStep`, `BridgeStep` and `EpsStep` say that a
step of the part's `Next` preserves its `IInv`, and the `Same...` lemmas that a
step which leaves its variables alone does. `PInv` joins the three invariants
with what relates them: one row for each transaction (`OneRowPerTx`), a transaction
on the B2 chain only for a row (`OnRecord`). `BridgeSees` and `EpsSeesStep` then
show that every step of the whole is a step of the part, its `Die`, or no step of
it: `BridgeInPlace` and `EpsInPlace`, the assumptions the modules of the parts
make about their surroundings.
`CreditsAreOwed` combines `OnRecord`, `RowsAreOwed` (a row stands for an owed
payment), `OneRowPerTx` and the bridge's count; `ReportsAreTrue` goes back from the
acceptance to the row, and from its eoa status through `RowMatchesChain` to the
two transactions.

`ServicesKeepPromises` carries the three refinements over to the whole: every step
of the process is a step of `PaymentLog`, of `DepositPayout` and of `ReportOutbox`
or leaves them alone. The lemmas of the parts do most of it; what the whole adds
is the end of the process, which hides an order or an acceptance from its row
without counting as one of the faults of a part (`DyingStep`, `DieMaps`), and a
deposit that falls due by the bridge's update. Because the end of the process is
not counted, `CreditsNeedFaults` is a property of the bridge alone.

`ServerProofs` proves the invariants of `server_start`.
The state space is finite, and TLC exhausts it; the proof says why they hold.
What makes them inductive is how far `Start` and each `OnStart` have come: while
`Start` waits for a service that one is launched and none behind it
(`StageInv`), the process goes by the configuration it read, which beside a file
enables only what the file has a key for, although the next one may be another
(`ConfInv`), and a place of `OnStart` lies behind the tables
before it, `HasTable` being true of a table without its indexes as well
(`TablesInv`).

The assumptions of the theorems are the ASSUMEs of the modules: blocks start
with a coinbase whose input no lookup finds, deposits and payments are finite
in number and there are some, bounds and limits are naturals. TLC evaluates
them in the runs. `PaymentsAssumption` would fail for a set of blocks without a
payment, about which there is nothing to say.

Model-checked only: liveness (`EveryPaymentSettled`, `EveryDepositHandled`,
`EveryTransferReported`, `StartEnds`), which is out of the prover's reach. Every
invariant and action property of the passing runs, and the three refinements,
are proved. The five claims that do not hold have their counterexamples from TLC.

## Limits and what could come next

* Liveness of `Pipeline` is not checked. A payment at which the indexer panics
  may end every process before the bridge gets to run, if it lies below the top
  block, so that nothing can be promised for such chains. Without panics and
  crashes the services do not wait for each other, and their liveness is that of
  the modules' own runs. The composed state graph is too large for TLC's
  liveness check at these bounds.
* `BridgeDeposit` with more queued rows than one batch: the query has no order,
  so whether a deposit can starve behind rows marked failed is up to the
  database. `EveryDepositHandled` is for queues that fit into a batch.
* `ParseBlock` in single steps, with the calls to the node in between. It keeps
  no state and its result is used only as a whole, so that a step by step model
  would show nothing about the services that the function does not.

## Not modelled

* Reorganisations of the bitcoin chain: the code keeps no block hashes and has
  no notion of them. The chain only grows.
* The other settings, `LoadConfig` and `ChainParams` included: they make a later
  call fail or not, and every call may fail here.
* The contract ABI (`abi.go`), a constant; that packing may fail is in `Deposit`.
* `internal/logic/bitcoin/utils.go`, decoders of logs that nothing in the program
  calls.
* Logging (`pkg/log`), output only; the panic of its set-up is `SetupPanic`.
* Contents of transactions, deposits and reports beyond what tells them apart:
  amounts, addresses, gas prices and the transaction encoding.
