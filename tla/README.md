# A TLA+ model of btclib_node

btclib_node is a Bitcoin node in Python. This directory models, checks and proves what the node does
with what it hears: the index of headers, the set of unspent coins, the block files and
`update_chain`, which ties them together; the synchronisation of headers, the download of blocks and
the relay of transactions; and the connections all of it comes over. Paths below are relative to
`src/btclib_node/`.

## 1. The system

### Threads and stores

One thread, the *main thread* (`Node.run`), owns the chainstate, the block database and the
mempool. In each round it empties the queue of handshake messages, handles some RPC requests and
some peer messages, takes a step of the download manager and calls `update_chain` once. The
*network threads* (an asyncio loop for P2P, one for RPC) only fill the queues and send. Two LevelDB
databases (`chainstate` and `blocks`) and a set of append-only files hold what survives.

So the hard part of the core is not threads but **puts**: a block travels through about ten of them
in two databases and a file, the process may be killed between any two, and after a restart
everything that is not on disk is rebuilt from what is. The hard part of the networking is who may
be asked for what: blocks come late, twice or never over connections that come and go, and two
threads share those connections.

### Inventory

| component | state | operations | what makes it correct |
|---|---|---|---|
| Block index (`chainstate/block_index.py`) | a `BlockInfo` per header (on disk too), the active chain, the candidates, the best header chain | `add_headers`, `get_first_candidate`, `insert_block_info`, add to / remove from the active chain, `init_from_db`, queries | the chain is a branch and can be rebuilt; the header chain is the heaviest known; no heavier header is forgotten |
| Utxo index (`chainstate/utxo_index.py`) | coins on disk, two staged sets | `add_block`, `apply_rev_block`, `finalize`, `rollback` | acts as one set with a tentative copy |
| Chain update (`main.py`) | none of its own, but a dozen steps over the others | `update_chain`, `finish_sync`, `verify_mempool_acceptance` | chain and coins change together, only for more work, only to valid branches; it ends at the heaviest |
| Block database (`block_db/__init__.py`) | file number, sizes, locations, files | `add_block`, `add_rev_block`, `get_block`, `get_rev_block`, `init_from_db` | reads back what was stored; after a kill no more is wrong than `RecordStore` says |
| Callbacks (`p2p/callbacks.py`) | status of the node | one per message | flags and status follow what was stored |
| Mempool (`mempool.py`) | transactions, sizes | `add_tx`, `remove_tx`, queries | holds nothing confirmed |
| Download manager (`download.py`) | window, a queue per connection, three lists of transactions | `block_download`, `tx_download` | every missing block is asked for until it comes |
| Connections (`p2p/connection.py`, `manager.py`, `main.py`) | status, buffers, nonces, ping, two queues | run, stop, handshake, ping, removal | dead connections leave; the pong waited for is not lost; handshake first |
| Peer addresses (`p2p/address.py`) | two collections of addresses | add, choose | bounded |
| RPC (`rpc/`) | connections, a queue | queries, `sendrawtransaction`, `stop` | a stop request stops the node |
| Main loop (`__init__.py`) | the termination flag | `run`, `stop` | shuts down in order |
| Interpreter, messages, chains, config, log | none that matters here | | |

`PROJECT.json` lists the components with what is modelled of each, and the hazards at their lines.

## 2. The modules

| module | models | rests on |
|---|---|---|
| `BlockTree` | the tree of headers, `get_fork_details`, the Python slice `[:-n]` | |
| `BlockIndex` | `chainstate/block_index.py` | `BlockTree` |
| `Ledger` | transactions of blocks, what a branch leaves unspent, what is a valid branch | `BlockTree` |
| `UtxoSet` | abstract: a set of coins and a tentative copy | `Ledger` |
| `UtxoIndex` | `chainstate/utxo_index.py`; implements `UtxoSet` | `Ledger` |
| `BestChain` | abstract: a chain and its coins, changed together | `Ledger` |
| `RecordStore` | abstract: what is read of each record stored, with the three steps of an insertion and the kills between them | |
| `ChainUpdate` | `main.py`, the callbacks `headers`, `block`, `tx`, kill and restart; composes `BlockIndex`, `UtxoIndex` and `RecordStore`; implements `BestChain` | `UtxoIndex` |
| `BlockDB` | `block_db/__init__.py`; implements `RecordStore` | |
| `HeaderSync` | block locators and the answer to them, the callbacks `getheaders` and `headers`, on two nodes | `BlockTree` |
| `Mempool` | `mempool.py`, as operators on a record | |
| `TxRelay` | `tx_download`, the callbacks `tx`, `inv`, `getdata`, `sendrawtransaction`, blocks as they change the mempool, on several nodes | `Mempool` |
| `Connections` | `p2p/connection.py`, `p2p/manager.py`, `p2p/main.py`, the handshake and ping callbacks, `Node.run`, `handle_rpc`, the shutdown: two threads and what they share | |
| `Download` | `block_download`, `get_download_candidates`, the connections as far as the download sees them, and what the rest of the main thread does to both; composes `BlockIndex` | `BlockTree` |
| `MC*` | instances for TLC | |
| `BlockTreeLemmas` | facts about branches, forks and finite sets of numbers that several proofs use | `BlockTree` |
| `BlockIndexProofs`, `BlockDBProofs`, `ChainUpdateProofs`, `HeaderSyncProofs`, `DownloadProofs`, `ConnectionsProofs`, `TxRelayProofs` | the theorems about the module of that name (section 4); those about `UtxoIndex` are in `ChainUpdateProofs`, as `ChainUpdate` extends it | that module |

Operators named as *mutants* in their comments are faulty variants of the operator that follows
them. No specification uses them; each shows a property that notices the fault.

### How state and actions correspond to the code

* **Blocks.** A block is its hash. `Path[b]` stands for the chain of `previous_block_hash` links,
  `Work[b]` for `BlockInfo.chainwork`, `Rank[b]` for the order of keys in the database. The tree is
  a constant; what the node knows of it is `header_dict`.
* **The index on disk.** Every change of a `BlockInfo` is put at once, except those of a switch,
  which are put by one transactional write batch. Outside a switch the records in memory and on disk
  are equal, so one variable stands for both and `Restart` keeps it. The rebuilding of candidates
  and header chain is an action per record (`LoadNext`), so a restart can interrupt a restart.
* **Coins.** A coin is an outpoint, a transaction the sets of coins it spends and creates. The
  transactions of a block are taken in order, each input looked up in the staged sets as the
  transactions before it left them. A failed `add_block` is always followed by `rollback`, so what
  it staged before the exception is not modelled.
* **update_chain.** `pc` says where the main thread is. One action per put: `RevertBlock` (staging
  only), `ConnectBlock` (staging and the put of the status `valid`), `RecordRevBlock` and two `PutRecord` (the
  patch), `FinalizeUpdate` (the write batch, then the mempool), or `RollbackUpdate` and
  `FinalizeRaises` for the two ways of failing. `ReadRaises` and `TakeBackRaises` are the reads outside the inner
  `try` (`main.py:53-54`, and those for the mempool after the batch), which end the main loop if what they find does not parse
  or is not there. `FinishSync`, `WaitForBlocks` and `Recheck` are the
  early returns and the last look at the candidates. `get_first_candidate` pops stale entries
  whenever it is called, hence `PopStale` in each of them.
* **Messages.** A headers message is any run of up to `MaxHeaders` consecutive headers of a branch, from any height,
  taken header by header (a put each). A block message stores the block (`ReceiveBlock` and two `PutRecord`), then the
  flag (`FlagBlock`).
* **Stored blocks and patches.** `ChainUpdate` sees the block database as `RecordStore` describes it, and `BlockDB` is shown to
  implement that. An insertion is the data, the size of the file, the location, and a kill may fall between any two. `stored[k]` is the
  record that is *read* at the location of `k`, and `update_chain` works with the hash in that record, as the code
  does: it adds, stages and stores the patch of the block it found, and marks the hash it asked for as valid. A kill between the data and the size
  (`cut`) shifts what is stored later in that kind of files. What is read then is any record of the kind that was ever written, or
  `Garbled`. `Garbled` bytes may raise where they are parsed or later, or, of a block read for the mempool, pass for a
  block without transactions worth telling apart. `Intact` says that every record stored is read back; without such a kill it holds.
* **Kills.** `Restart` may happen in any state, also during loading, and stands for a kill of the process or an orderly
  stop. It is not a loss of power: what the operating system was given stays.
* **BlockDB.** A record is its key and `Size` bytes. `contents` is what lies in a file, `op` the insertion in progress with what the code
  holds in local variables and in memory ahead of a put. `Read` finds the record that starts at the location and has the length
  given there, else `Garbled`.
* **Download.** `block_download` is `KeepWaiting` (its early returns) or `AskForBlocks`. All of it runs
  in the main thread, so `update_chain` is one step here, with its second look at the candidates and
  `finish_sync`; blocks are valid and reorganisations remove at most one block. The snapshot of the
  connections is taken once per call: what the network thread changes during the call counts as
  changed after it. Python's order of `Counter.most_common` and of `sort` is kept, since it decides who
  is asked for what. `silence[p]` is the time since `last_block_timestamp` as the two timeouts cut it:
  below 120 s, above, above 300 s. A peer has one connection at a time. Connections come in two ways:
  the node dials (`Connect`, limited) or is dialled (`Accept`, unlimited). Peers in `Serving` answer
  what they were asked once they have shaken hands; any other may send blocks it was never asked for, duplicates and
  late answers among them, send rubbish, close or keep silent. A handler of the main thread is
  atomic here; what two threads do to a connection at the same time is the subject of `Connections`.
* **HeaderSync.** Both nodes run the code. `wire[n]` is what is on its way to `n` and in its queue, in order. A
  headers message is handled in one step, since nothing but the main thread looks at the index. `Hear`
  is a headers message of one header from a third node. A request that overtakes the handshake ends the connection
  in the code (`Connections` has it); here that is one of the cases of `Reconnect`.
* **Transactions.** A transaction is its wtxid, and `TxId` says which of them differ only in the witness. Only
  transactions of one txid spend the same output, so acceptance is whether the parents are there. A block is the
  transaction in it: `Confirm` and `Unconfirm` are what `update_chain` does to chain and mempool.
  `received_txs` keeps the wtxids of its pairs, because the connections in them are never compared with anything.
  `wire[n][m]` holds the messages from `n` that `m` has not handled. The events from outside are those of the
  constant `Events`, once each.
* **Connections.** `pc` is the part of the round `Node.run` is in, `budget` what is left of
  `int(log2(n + 1))` messages of a queue. A step of either thread is what the other cannot get in
  between of to any effect. So the look whether a message's connection is there (`TakeMessage`, `TakeHandshake`) and its lookup
  (`HandleP2p`, `HandleHandshake`) are two steps, and a lookup that fails ends the main thread (`LookupFails`, `pc = "dead"`); `verack` takes
  two (the status is set, then `getpeername` may raise), the `pong` callback two (`ping_sent`, then `ping_nonce`) and the network
  thread's `stop` two (status first, socket last). `send_ping` is one step: which of two nonces stays when both threads send a ping at
  the same moment is not modelled. `connections` is the dictionary, a record per connection; a
  connection removed from it is forgotten, also if `verack` still holds it, because nothing it does to it is seen. `sockets`
  are those neither closed nor reset. `silent` and `ping_sent` are the two timeouts of 120 s. `peer_db` says only whether
  `random_address` can return: in a set without an IPv4 address it draws on (`net = "spinning"`) until an address message the
  main thread handles brings one (`FindAddress`). RPC requests are `ping` and `stop`; the others
  change nothing here. Handling any of them may end the main thread, because the last of the list a message is may be missing or not an object, and
  for `stop` because the client may have hung up before the answer.
  `Work` stands for the download manager and `update_chain`, which may stop one connection, all of them, or the loop.

## 3. The runs

| run | bounds | shows |
|---|---|---|
| `block_index` | six blocks, three branches, any use of the index, any number of restarts, scan window 2 | the four invariants of the index, and that a restart finds the chain it left |
| `chain_crash` | five blocks, two branches, messages of up to two headers, one kill at any step, those inside the block database included | chain, coins, patches, blocks and flags agree, `BestChain` is implemented and the components are used within their contracts, all as long as what was stored is read back; `StoredFirst` and the part of `StagedTracksBranch` outside an update hold after a misread as well |
| `chain_replace` | six blocks, one with a double spend, two branches with a common transaction, three transactions offered to a mempool of two, no kill | only the bad branch is rejected, staged sets and disk act as one set of coins, the mempool follows, the loop goes on |
| `chain_live` | five blocks, fairness as below | the chain overtakes every header known |
| `download` | four blocks in two branches, a serving peer and one that may do anything, windows of two, one block per request | nothing expected of a connection is lost with it, no connection idles while a block is asked of nobody, the sync of blocks ends |
| `header_sync` | two branches, the heavier of them longer than a message (two headers), locators spread from the second on | answers connect to what the reader knows, requests lead to a chain as heavy as the other node's, and end |
| `tx_relay` | two nodes, a transaction with two witnesses and its child, a mempool of two, announcements from two transactions on, two transactions heard, one sent by a user, one block removed | mempools are consistent, announced transactions spread with their parents, gossip ends |
| `connections` | one connection, room for two, one address message, one RPC request, any addresses from DNS | a ping's answer is to come, no dead connection stays, a stop closes the sockets it finds and ends, with the ways out below |
| `block_db` | three hashes, blocks of two sizes, two kinds of records, files full with more than one byte, two kills | records and locations agree, what is read back after which kill, `RecordStore` is implemented |
| `twice_connected` | as `chain_crash` | violated: the active chain is a branch |
| `deep_reorg`, `shared_tx` | five or six blocks, no kill | violated: the loop goes on; only invalid branches are rejected |

The bounds keep what the code tells apart: branches of equal and of different work, one block
replaced by two; blocks that arrive in any order; a front candidate that is not downloaded; the
heavier of two branches longer or shorter, earlier or later in the order of hashes; a block file that
fills up while its rev file does not; a window that does not hold all that is missing, and one that is
too far above the chain; a fork whose first message does not outweigh the reader's chain; a mempool that is full for
one witness and not for the other. `connections` has one connection: the code relates a connection to others
only by their number, and messages of a forgotten one stay in the queues either way. As there is room for two, the node looks for
another while the first is alive or dead, so `random_address` can be caught with either. Two connections are out of TLC's reach (over
29 million states); `TypeOK` and `PongToCome` are proved for any number. The instance has 800,666 states and takes between two and three minutes. Kills are bounded to one in `chain_crash` because each leaves the same kind of
state, records on disk and nothing else, from which the next run starts; one is enough for `twice_connected`. `block_db` has two, so that a second can
fall behind data that a first has shifted.

`CHECK_DEADLOCK FALSE` is set where the system may stop: `chain_crash` contains the reads that end the main loop
after a kill, in `block_db` everything is stored in the end, in `header_sync` and
`tx_relay` nothing is left to say, and in `connections` the node shuts down.

### What the code does not do

Three runs end in a counterexample, each to one property the code, a comment or a test states:

* `deep_reorg` (`NeverStops`): a reorganisation that disconnects two blocks raises in
  `remove_from_active_chain`, out of the `finally` clause, and ends the main loop.
* `shared_tx` (`RejectsOnlyInvalid`): a valid branch is rolled back if it repeats a transaction of
  the block it replaces and spends its output.
* `twice_connected` (`ChainIsBranch`): killed between the data and the size of a block A, and started again, the node stores A once more and
  then a child B of the same size, and looks for each of them one record too early. `get_block` of B returns A, and if A has nothing but its coinbase,
  A is connected again on top of itself: it spends nothing, and nobody looks whether its coins are there. B is marked valid, and the active chain is no branch.

More of the kind, found while modelling and without a run of their own; the models contain them:

* A block that spends its own output cannot be disconnected (`utxo_index.py:73-76`).
* Killed between the put of `valid` and the commit, the node forgets the block as a candidate until it has
  a child (`block_index.py:120`).
* Killed between a write and the put of the file's size, the node looks for every later record of the file in
  the wrong place (`block_db/__init__.py:166-172`). What it finds may be another record (`twice_connected`) or bytes that do not parse, which
  ends the main loop at `main.py:53` or `54`, or when blocks are read again for the mempool, with the switch written already.
* A ping that the network thread sends while the `pong` callback is between its two assignments loses its nonce: the
  answer ends the connection (`callbacks.py:87-88`, `manager.py:57-59`). `tests/functional/p2p/test_ping.py:41-42` takes a nonce of 0 for a sign that no ping is out.
* A connection removed between the look whether it is there and its lookup ends the main thread, with nothing closed (`p2p/main.py:7-8`, `24-25`).
* `received_txs` is searched for what it never holds (`download.py:34`), and up to five transactions a round
  are announced to nobody (`download.py:47`).
* A full headers answer that brings nothing new ends the requests to a peer that has more (`callbacks.py:194`); of a fork
  longer than 2000 headers that does not outweigh the chain with its first 2000, only these are ever known.
* A pong that comes after another ping was sent ends the connection (`connection.py:105`).
* A message that comes right behind the `verack` may be handled before it, which ends the connection (`__init__.py:76`).
* With no IPv4 address among those known, `random_address` keeps the network thread until a peer's address message, already in the
  queue, brings one (`address.py:174`). No new message can be received meanwhile.
* An RPC message whose last request is missing or not an object ends the main thread, with nothing closed (`rpc/main.py:69`), and so does
  a client that asks to stop and hangs up before the answer (`rpc/main.py:70`).
* A connection accepted between the stops of the connections and of the loop is never stopped (`manager.py:99-104`).

The passing runs are set where these do not interfere, and say so: `chain_replace` and `chain_live` have no kill and
no reorganisation of two blocks, and no transaction in them spends what a replaced block created. A liveness property names the
case in which it does not hold (`OldNews`, a network thread that spins for ever, a main thread that has ended), `PongToCome` excepts
a connection whose nonce was wiped. The safety properties of `ChainUpdate` about chain, coins and candidates speak of states and steps in
which what was stored is read back (`Intact`); `StoredFirst` and, outside an update, `StagedTracksBranch` hold of any. After a kill in the wrong place
nothing else is claimed of that node: `twice_connected` shows why. That no kill but those damages anything, and what a kill
there can damage, is the content of `ReadsBackAligned` and `ImplementsRecordStore`.

Neither has `check_transactions` a run: it never fails, because the worker that finds a
script false catches the exception (`interpreter.py:20`), so "it contains only valid blocks"
(`chainstate/block_index.py:60`) does not extend to scripts. The model takes the code as it is, and a
property would restate it.

### Fairness

`FairSpec` asks for
* weak fairness of the steps inside a message handler and of loading: the thread runs;
* strong fairness of `UpdateChain`: the main loop calls it once in every round, whatever messages
  arrive, so it is not always a message's turn. Within an update the steps are continuously enabled;
* strong fairness of `ReceiveBlock(b)` for each block: the download manager asks for each candidate
  until it is there, and some connected peer has it. This is an assumption about the peers, and
  the reason why a stale branch nobody serves (the FIXME at `main.py:46`) does not show in
  `chain_live`.

No fairness of headers or transactions: nobody has to send any.

`Download` derives what `chain_live` assumes about blocks, from less: one peer (`Serving`) answers its
requests, and the node dials it again and again (`random_address`). Its `FairSpec` also says when
time passes. The timeouts are minutes, while the main loop takes milliseconds for a round and
`manage_connections` 0.1 s: so `Elapse` happens only when neither has anything left to do and the
serving peer has shaken hands and answered. Without that a connection could time out before the
main loop has run at all. Weak fairness of `BlockDownload` and `UpdateChain` is written out
with `DownloadDue` and `UpdateDue`, which say in terms of state when these actions change something.

The property is checked with one peer that does not serve. With two of them TLC finds a behaviour in
which they take turns at closing and reconnecting for ever while the serving peer waits for a free
place and no time passes. It is left out because it takes infinitely many connections in no time, but it
does show the limit of the result: whether the serving peer is dialled among many is left to chance.
After the sync `pending_eviction` and the timeouts are no longer looked at, and the property says nothing
about blocks announced later.

`HeaderSync` and `TxRelay` ask for weak fairness of handling what has arrived (and of `TxDownload`): the main
loop takes messages in every round, and what is on a connection arrives. Nothing has to be heard from
elsewhere, no connection has to break or to be made. A connection that breaks is a way out in the properties, because
what was under way is lost and only a new `verack` asks again; for transactions nothing does.

`Connections` asks for weak fairness of the main thread (`Main`), of the network thread's steps that end a stop or the
loop and of `manage_connections` for each connection, and of time (`FallSilent`, `PingAges`). Peers and users do
nothing they do not want to. A network thread in `random_address` takes no other step; `FindAddress` gets it out as soon as
an IPv4 address is known (each draw has the same chance), which is fair too. Requests are finitely many: someone who asks for pings over RPC more often than every 120 s keeps
`ping_sent` young, and with it a connection whose socket was reset.

## 4. The proofs

Every safety invariant, action property and refinement that a run finds to hold is also proved, for all values of the constants, some of
`ChainUpdate` under a condition that is stated with them (its `TypeOK` as `Intact => TypeOK`). Only liveness is left to the model checker. A component has one inductive invariant, mostly `Inv`, in the module of its
proofs; `InitInv` says that it holds at first, one lemma per action that the action keeps it, `NextInv` puts them together, `Invariance` is
the theorem `Spec => []Inv`, and the theorems to read follow from it at the end of the module. (For transaction relay: `RelayInv`,
`InitFacts`, `NextFacts`; for the utxo index: `StagedInv`, `UtxoInitFacts`, `UtxoNextFacts`.)

Nothing is assumed but what the modules state about their constants. `PathAssumption`, `WorkAssumption` and
`RankAssumption` (`BlockTree`): paths form one tree rooted at the genesis block, a header has more work than its parent
(`calculate_work` is positive), hashes are distinct. `TxAssumption` and `UniqueCoins` (`Ledger`): the first transaction of
a block spends nothing, the genesis block creates nothing, a coin is created by one transaction of its block and by one block of a branch. The others say that limits are
natural numbers, most of them positive, and that a connection of `HeaderSync` has two ends. The number of blocks and
peers is not bounded, nor that of kills, messages or pings; the tree may be infinite.

**`BlockIndexProofs`.** `TypeOK`, `ActiveChainRecorded`, `HeaderIndexBest` and `CandidatesComplete` are inductive only
together, with `AncestorsKnown`. The header index stays a branch because
`get_fork_details` finds a common ancestor (lemmas about `CommonLen` in `BlockTreeLemmas`); it never
drops everything by `[:-0]` because a header with more work that extends the tip is the tip's child,
and that case is tested first. `CandidatesComplete` needs `ActiveChainRecorded`, as a disconnected
block must not become `valid_header` again. For the restart, the heights of the blocks with status
`in_active_chain` are exactly `0 .. n - 1`, one block each, so sorting by height gives the chain back
(`RestartKeepsTheChain`).

**`ChainUpdateProofs`.** The main result: `ImplementsBestChain`, `UtxoMatchesChain`, `StoredFirst`, `StagedTracksBranch`,
and that `update_chain` uses both indexes as they are specified (`UsesIndex`, `UsesUtxoIndex`), so that the theorems about them
hold in the node: through reorganisations of any depth, failures at any block, and any number of kills at any step, as long as what was
stored is read back. `OnlySuchAKillDamages` says when it is: without a kill, and for every record of a kind of which no insertion was ever killed
between the data and the size. A block found in place of another is a step like any other here, and what it does to the
chain is left open, but for what holds of it in any case (`StoredFirst`, nothing staged outside an update).
`BlockIndexProofs` is instantiated, and what it proves of a step of the index is applied to each action here. The last step is stated as well:
`TheIndexIsSoundInTheNode`, `RestartsKeepTheChainInTheNode` and `CoinsAreOneSetInTheNode` are the invariants of the block index, its
property of restarts and the refinement of the utxo index, of the node's own specification.

The utxo index by itself comes first (`StagedInvariance`, `UtxoIndexImplementsUtxoSet`): `UtxoIndex` implements `UtxoSet`, as `add_block` accepts
a block only if every input is there in its turn, and `finalize` and `rollback` take all staged changes or none.
The inductive invariant is `UtxoTypeOK` with `StagedOverDisk`: a coin on disk that is also staged as added
has been staged as removed before. It holds because the caller adds a block only where its coins are
new and reverts one only where the coins it spent are still spent; that `update_chain` keeps to
this is `UsesUtxoIndex`.

The inductive invariant is `NodeInv`: `Form` and, if `Intact` holds, `Inv`. `Form` holds after any misread: records belong to
blocks the node knows, a flag or an active block has its record, the blocks of an update are flagged and those dealt with were readable, nothing is staged outside one. It is what makes a
record of a *new* key, stored while something else is read, keep the rest in shape. `Intact` never comes back once it is lost, because what is
read of a stored key does not change; so a step that ends in `Intact` began there, and `Inv` is kept as if there were no misreads.

`Inv` adds seven parts. `IndexInv` and `StagedInv` are those of the indexes. `CoinsOK`: the coins on disk
are those the active chain leaves, and it spends nothing that is not there. `StoreOK`: patches only of stored blocks, blocks
only of known headers, and `StoredFirst`. `ControlOK` and `IdleOK` say what holds between messages and updates: above all that nothing is staged
outside an update. `UpdateInv` is about an update in progress: `TargetOK` (the lists are the two sides of the fork, all
downloaded, with more work), `ProgressOK` (what was put for the blocks that are through), and what the staged sets stand for. While blocks are
reverted (`RevertingOK`), that is the active chain's coins with the reverted blocks' patches applied, *in
the order the code takes them, ascending*: order does not matter because in a valid branch a coin is spent once, after it
was created (`SpentOnce`, `RevertAll`). While blocks are connected (`ConnectingOK`), it is what the new branch leaves up to
the last of them, and this part is valid. At the commit the two meet.

Four more results are about what the code does not do well, or only on a ledger of a certain kind:

* `BetterHeadersWaitUntilARestart`: until the first restart, every header that is not invalid and has more work than the chain
  waits among the candidates.
* `RejectsOnlyInvalidIfReplaceable`, `StopsOnlyInADeepSwitch`: a branch that is rolled back is invalid, unless the switch replaces
  more than one block, or a block that spends its own coin, or one that shares a transaction's coins with the new branch; and the main loop
  ends only over a valid branch that disconnects more than one block. These are the counterexamples of `shared_tx` and
  `deep_reorg`, and the theorems say that there are no others in a node that reads back what it stored. After a misread the loop may also end at
  `ReadRaises` or `TakeBackRaises`. They need `FreshOK`: in a switch of that kind nothing is staged as
  added that is on disk.
* `RejectsOnlyTheInvalid`, `TheLoopGoesOn`: the properties `RejectsOnlyInvalid` and `NeverStops` under the hypothesis
  `ForksAreReplaceable`, that all forks between valid branches are of that kind. It is a hypothesis about the ledger and the tree and not an assumption
  of the model, because the code does not guarantee it; the instances `chain_replace` and `chain_live` satisfy it.
* `MempoolKeepsTheUnconfirmed`: the property `MempoolStaysUnconfirmed` under the hypothesis `OutpointsNameTransactions`, that a coin is an
  output of one transaction only, transactions but coinbases have outputs, and those offered have inputs. A transaction id is a hash, so this is what an outpoint is for; the rest of the proofs
  does without it, and the instance `chain_replace` satisfies it. A confirmed transaction is refused because a coin it spends is spent
  (`SpentOnce`) or is an output of one in the mempool that would be confirmed too; one taken back in a switch is in no block that stays.

**`BlockDBProofs`.** `CurrentFileRecorded`, `LocationsSound` (disjoint ranges inside the files), `ReadsBackAligned` and `ImplementsRecordStore`, for any sizes and
any number of kills.
`NothingAhead` is why a record that `__find_block_file` puts anew cannot clobber data: no file is ahead of the current number. `SizesWritten` and
`LocationsWithin` state the order of the three puts, data, size, location. `AlignedOK`: in a file whose size is right the record being written
starts where its location will say. The size of a file is never more than what is in it and grows with it, so a kill that leaves it short
is not made good later: a file of that kind stays in `CutKinds`, and only there may what is read be another record. `Read` finds a record only at its start,
and records start where one was written, hence "any record of that kind, or none".

**`HeaderSyncProofs`.** `AnswersConnect`. `Sound`: what a node knows is closed under parents and its header index is the best branch of it, kept by
`add_headers` header by header. `Carried`: a request on its way names only headers its sender knows, and knows for good. The answer
begins right above the first locator on the reader's index, or right above the genesis block if there is none, which both know.

**`DownloadProofs`.** `QueuedInWindow` and `NoneIdle`, for any number of peers and all sizes. The first half of the module is about
lists: sorting, filtering, flattening and cutting in portions keep the elements. The invariant joins that of
the block index (`IndexInv`: blocks named by candidates are on known branches) with `NoRepeats`, no two connections to one
peer, and `NoClock`: without it, a slot whose connection is gone and whose clock still runs would be stopped as if it were a connection.
`NobodyIsLeftIdle` follows from what a single round does with the window and the queues the invariant describes. The theorems are stated for `Spec`;
every behaviour of `FairSpec` is one of `Spec`.

**`ConnectionsProofs`.** `TypeOK` and `PongToCome`, for any number of connections, with the interleavings of both threads. The pong a connection
waits for stays on its way because each ping overwrites the nonce with one that is not among those unanswered
(`FreshNonce`). With the `pong` callback in two steps the pong may also be in the main thread's hand, which is why the invariant
has `CurrentOK` (where `pc` is when it is), and the second step may wipe the nonce of a ping sent since the first: the property excepts a nonce of 0.
`BudgetOK` is why a `for` loop of `Node.run` never takes from an empty queue: the other thread only adds.

**`TxRelayProofs`.** `MempoolConsistent` and `TypeOK`, for any number of nodes, transactions and witnesses of a txid. The first is kept by
`add_tx` and `remove_tx` (`AddTxFacts`, `RemoveTxFacts`): what is held under a txid is found by it and by it only, so it leaves both indexes at once,
and the size subtracted is its own and not that of the transaction in the block. `Bytes` is a sum in no particular
order; that it does not depend on the order is shown by counting (`BytesAreUnits`: the sum is the number of pairs of a transaction and one of its
bytes), from which one transaction more or less is one size more or less. `EndsOK` is why nothing is under way over a closed connection:
its two ends close and open together, so an answer never goes to an end that is gone. The theorems are stated for `Spec` and do not use its fairness.

Induction over data is done with sets: `SetInduction` proves that a set of numbers holds `0 .. n` by the least number outside it, and a
lemma states what is wanted of a number as membership in a set it defines. `SubsetInduction` does the same for the parts of a finite
set. A recursive function (`TakeBack`, `FlattenSeq`, `Among`, the sum) is first shown to exist.

### Only model-checked

* Liveness: `CatchesUp`, `SyncCompletes`, `HeadersCatchUp`, `RequestsEnd`, `TxSpreads`, `GossipEnds`, `DeadLeave`, `StopDisconnects`, `StopEnds`. The proof
  system has no rules for fairness.
* The three properties of runs that find a violation are false; the theorems `StopsOnlyInADeepSwitch` (`deep_reorg`) and
  `RejectsOnlyInvalidIfReplaceable` (`shared_tx`) and `ImplementsTheBestChain` with `OnlySuchAKillDamages` (`twice_connected`) say how far they are true.

## 5. Not modelled, and the plan

The plan is carried out: the modules of section 2 are written, and what of them can be proved is.

Not modelled, and why:

* getheaders with a header to stop at, and blocks in inventories: this code asks for headers with a stop only after a block was announced,
  and never announces one, so two such nodes never get there. (The answer is not what the sender expects when the header to stop at
  lies below the first shared locator: `output.index(stop)` raises, `block_index.py:290`.)
* The nonces by which a node recognises itself, and the other grounds to refuse a version message: a choice in
  `Connections`.
* `sendaddrv2` and `getaddr`: the list of active addresses is read by `getaddr` only, which raises as soon as there is one
  (`address.py:196`); raising ends the connection, which `BeginStop` and `Work` cover.
* The buffer of a connection and what happens to it after a wrong checksum; messages are serialized and parsed without state.
* RPC queries and the way answers take back. Queries change nothing.
* A stop before the two network threads have entered their loops, and the pool of script checkers.
* Script verification and parsing (btclib), DNS and sockets, logging, configuration, the parameters of the chains.
