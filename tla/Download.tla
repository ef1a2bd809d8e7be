------------------------------ MODULE Download ------------------------------
(***************************************************************************)
(* download.py with what it works on: the connections of p2p/manager.py    *)
(* and their queues, the block callback, the candidates of the block       *)
(* index.  The main thread asks for blocks once in every round; peers      *)
(* answer in any order, late or never, connections come and go meanwhile.  *)
(*                                                                         *)
(* Blocks are valid and update_chain is one step here, since the download  *)
(* manager runs in the same thread; ChainUpdate has its details.  Time is  *)
(* kept per connection and only as far as the two timeouts tell it apart.  *)
(***************************************************************************)
EXTENDS BlockTree, FiniteSets, SequencesExt

CONSTANTS
    ScanWindow,     \* see BlockIndex
    Peers,          \* addresses; there is at most one connection to each
    Serving,        \* peers that can be relied on to serve blocks
    MaxConnections, \* connection_num, once the headers are synchronised (10)
    WindowSize,     \* blocks in block_window (1024)
    LookAhead,      \* how far the download may be ahead of the chain (1024)
    BatchSize,      \* new blocks asked of a connection at a time (16)
    RetrySize,      \* blocks asked once more of another connection (2)
    MaxAskers       \* connections a block is asked of at the same time (3)

ASSUME DownloadAssumption ==
    /\ Serving \subseteq Peers
    /\ {ScanWindow, MaxConnections, WindowSize, LookAhead, BatchSize, RetrySize, MaxAskers}
            \subseteq Nat \ {0}

VARIABLES
    \* chainstate/block_index.py
    header_dict, downloaded, active_chain, block_candidates, header_index, loading,
    status,             \* NodeStatus
    block_window,       \* DownloadManager.block_window
    connections,        \* P2pManager.connections in order of creation
    conn_status,        \* Connection.status, "Absent" without a connection
    download_queue,     \* Connection.download_queue
    pending_eviction,   \* Connection.pending_eviction
    silence,            \* time since last_block_timestamp: 1 after 120 s, 2 after 300 s
    asked               \* external: what a serving peer has yet to answer

indexVars == <<header_dict, downloaded, active_chain, block_candidates,
               header_index, loading>>
connVars == <<connections, conn_status, download_queue, pending_eviction, silence, asked>>
vars == <<indexVars, status, block_window, connVars>>

Index == INSTANCE BlockIndex

NodeStatus == {"SyncingHeaders", "HeaderSynced", "BlockSynced"}
ConnStatus == {"Absent", "Open", "Connected", "Closed"}
-----------------------------------------------------------------------------
(* Lists, written out where the community modules use what only TLC knows. *)

(* The elements of S in the order R, a set of pairs. *)
SortBy(S, R) ==
    [k \in 1 .. Cardinality(S) |->
        CHOOSE x \in S : Cardinality({y \in S : <<y, x>> \in R}) = k - 1]

(* seq without the elements of S: [x for x in seq if x not in S]. *)
Without(seq, S) ==
    LET kept  == {i \in 1 .. Len(seq) : seq[i] \notin S}
        order == SortBy(kept, {r \in kept \X kept : r[1] < r[2]})
    IN  [k \in 1 .. Cardinality(kept) |-> seq[order[k]]]
-----------------------------------------------------------------------------
(* get_download_candidates.                                                *)

NamedBy(i) == Elems(Path[block_candidates[i]])

(* The blocks still to be downloaded on the branches of the first k        *)
(* candidates that have more work than the active chain.                   *)
MissingUpTo(k) ==
    (UNION {NamedBy(i) : i \in {j \in 1 .. k : Work[block_candidates[j]] > Index!ChainWork}})
        \ (Index!InActiveChain \cup downloaded)

(* Candidates are looked at until they name enough blocks; the list is     *)
(* sorted by height, blocks of one height in the order they were named.    *)
DownloadCandidates ==
    LET entries == 0 .. Len(block_candidates)
        k == CHOOSE n \in entries :
                /\ n = Len(block_candidates) \/ Cardinality(MissingUpTo(n)) >= WindowSize
                /\ \A m \in entries : m < n => Cardinality(MissingUpTo(m)) < WindowSize
        named(b) == CHOOSE i \in 1 .. k :
                        /\ b \in MissingUpTo(i)
                        /\ \A j \in 1 .. i - 1 : b \notin MissingUpTo(j)
        before(a, b) == \/ Height(a) < Height(b)
                        \/ Height(a) = Height(b) /\ named(a) < named(b)
        missing == MissingUpTo(k)
        found == SortBy(missing, {r \in missing \X missing : before(r[1], r[2])})
    IN  SubSeq(found, 1, Min({WindowSize, Len(found)}))
-----------------------------------------------------------------------------
(* block_download.                                                         *)

(* Mutants: a new window in every round; a window that keeps what has      *)
(* arrived.                                                                *)
FreshWindow == DownloadCandidates

FullWindow == IF block_window = <<>> THEN DownloadCandidates ELSE block_window

(* The window without what has arrived; a new one once it is empty. *)
NextWindow ==
    Without(IF block_window = <<>> THEN DownloadCandidates ELSE block_window, downloaded)

TooFarAhead ==
    /\ NextWindow # <<>>
    /\ Height(NextWindow[1]) - (Len(active_chain) - 1) > LookAhead

Late(p) == status = "HeaderSynced" /\ silence[p] >= 1 /\ ~ pending_eviction[p]

Overdue(p) == status = "HeaderSynced" /\ silence[p] = 2

(* A connection's queue without what has arrived, nothing if it is late. *)
Kept(p) ==
    IF Late(p) THEN <<>>
    ELSE Without(download_queue[p], downloaded)

(* Mutant: idle is who has been asked for nothing so far. *)
IdleBefore == Without(connections, {p \in Peers : download_queue[p] # <<>>})

Idle == Without(connections, {p \in Peers : Kept(p) # <<>>})

Queued == FlattenSeq([i \in DOMAIN connections |-> Kept(connections[i])])

(* The blocks asked of few enough connections to be asked for once more,   *)
(* those with the fewest askers first, of several the one queued last      *)
(* (most_common is stable and its list is reversed).                       *)
Repeats(queued) ==
    LET askers(b) == {i \in DOMAIN queued : queued[i] = b}
        before(a, b) ==
            \/ Cardinality(askers(a)) < Cardinality(askers(b))
            \/ /\ Cardinality(askers(a)) = Cardinality(askers(b))
               /\ Min(askers(a)) > Min(askers(b))
        few == {b \in ToSet(queued) : Cardinality(askers(b)) < MaxAskers}
    IN  SortBy(few, {r \in few \X few : before(r[1], r[2])})

Portions(seq, size) ==
    [k \in 1 .. (Len(seq) + size - 1) \div size |->
        SubSeq(seq, size * (k - 1) + 1, Min({size * k, Len(seq)}))]

(* What the idle connections are asked for, in the order they are visited: *)
(* blocks of the window nobody is asked for, then blocks once more.        *)
Offers(window, queued) ==
    LET waiting == Without(window, ToSet(queued))
    IN  Portions(waiting, BatchSize) \o Portions(Repeats(queued), RetrySize)

OfferTo(p, idle, offers) ==
    LET turns == {k \in DOMAIN idle : k <= Len(offers) /\ idle[k] = p}
    IN  IF turns = {} THEN <<>> ELSE offers[Min(turns)]

(* No window, or one too high above the chain: the round ends early. *)
KeepWaiting ==
    /\ status # "SyncingHeaders"
    /\ NextWindow = <<>> \/ TooFarAhead
    /\ block_window' = NextWindow
    /\ UNCHANGED <<indexVars, status, connVars>>

(* Late connections lose their queue, overdue ones are stopped; whoever    *)
(* has nothing to do, the stopped ones included, gets the next offer.  Who *)
(* has shaken hands hears it.                                              *)
AskForBlocks ==
    LET window == NextWindow
        idle   == Idle
        offers == Offers(window, Queued)
        new    == [p \in Peers |-> OfferTo(p, idle, offers)]
    IN  /\ status # "SyncingHeaders"
        /\ window # <<>>
        /\ ~ TooFarAhead
        /\ block_window' = window
        /\ pending_eviction' = [p \in Peers |-> pending_eviction[p] \/ Late(p)]
        /\ conn_status' = [p \in Peers |-> IF Overdue(p) THEN "Closed" ELSE conn_status[p]]
        /\ download_queue' = [p \in Peers |-> Kept(p) \o new[p]]
        /\ asked' = [p \in Serving |->
                        IF conn_status'[p] = "Connected" THEN asked[p] \cup ToSet(new[p]) ELSE {}]
        /\ UNCHANGED <<indexVars, status, connections, silence>>

BlockDownload == KeepWaiting \/ AskForBlocks
-----------------------------------------------------------------------------
(* The rest of the main thread.                                            *)

(* A headers message with one header, skipped when it is known or an       *)
(* orphan: a short message ends the header sync all the same.              *)
ReceiveHeader(h) ==
    /\ \E p \in Peers : conn_status[p] = "Connected"
    /\ IF h \notin Index!Known /\ Parent(h) \in Index!Known
       THEN Index!AddHeader(h) ELSE UNCHANGED indexVars
    /\ status' = IF status = "SyncingHeaders" THEN "HeaderSynced" ELSE status
    /\ UNCHANGED <<block_window, connVars>>

(* The first lines of the block callback, for any block message.  A        *)
(* serving peer sends what it was asked for, any other what it likes.      *)
HearFrom(p, b) ==
    /\ conn_status[p] = "Connected"
    /\ p \in Serving => b \in asked[p]
    /\ download_queue' = [download_queue EXCEPT ![p] = Without(@, {b})]
    /\ silence' = [silence EXCEPT ![p] = 0]
    /\ pending_eviction' = [pending_eviction EXCEPT ![p] = FALSE]

(* A block arrives, the first time or once more. *)
ReceiveBlock(p, b) ==
    /\ HearFrom(p, b)
    /\ asked' = [asked EXCEPT ![p] = @ \ {b}]
    /\ IF b \in downloaded THEN UNCHANGED indexVars ELSE Index!MarkDownloaded(b)
    /\ UNCHANGED <<status, block_window, connections, conn_status>>

(* A block message that fails assert_valid, or a block whose header is not *)
(* known, stops the connection.                                            *)
RejectBlock(p, b) ==
    /\ p \notin Serving
    /\ b \notin downloaded
    /\ HearFrom(p, b)
    /\ conn_status' = [conn_status EXCEPT ![p] = "Closed"]
    /\ UNCHANGED <<indexVars, status, block_window, connections, asked>>

(* update_chain: how it leaves the index and what finish_sync then does.   *)

HasBranch == Elems(ForkAdd(Index!FirstCandidate, active_chain)) \subseteq downloaded

(* The index as update_chain finds it when it looks again after a switch. *)
Switched == INSTANCE BlockIndex WITH active_chain <-
    SubSeq(active_chain, 1, Len(active_chain) - Len(ForkRemove(Index!FirstCandidate, active_chain)))
        \o ForkAdd(Index!FirstCandidate, active_chain)

(* The sync is over: all connections are stopped, once. *)
FinishSync ==
    /\ status' = "BlockSynced"
    /\ IF status = "BlockSynced" THEN UNCHANGED <<conn_status, asked>>
       ELSE /\ conn_status' = [p \in Peers |-> IF conn_status[p] = "Absent" THEN "Absent"
                                               ELSE "Closed"]
            /\ asked' = [p \in Serving |-> {}]

NothingBetter ==
    /\ ~ Index!HasCandidate
    /\ Index!PopStale
    /\ FinishSync

WaitForBlocks ==
    /\ Index!HasCandidate
    /\ ~ HasBranch
    /\ Index!PopStale
    /\ UNCHANGED <<status, conn_status, asked>>

SwitchBranch ==
    /\ Index!HasCandidate
    /\ HasBranch
    /\ Index!MoveChain(Index!FirstCandidate)
    /\ block_candidates' = Switched!LiveCandidates
    /\ UNCHANGED <<downloaded, header_index, loading>>
    /\ IF Switched!HasCandidate THEN UNCHANGED <<status, conn_status, asked>>
                                ELSE FinishSync

UpdateChain ==
    /\ status # "SyncingHeaders"
    /\ NothingBetter \/ WaitForBlocks \/ SwitchBranch
    /\ UNCHANGED <<block_window, connections, download_queue, pending_eviction, silence>>
-----------------------------------------------------------------------------
(* The network thread, the peers and the clock.                            *)

ConnectionLimit == IF status = "SyncingHeaders" THEN 1 ELSE MaxConnections

(* create_connection, to a random address that is not connected yet. *)
Connect(p) ==
    /\ conn_status[p] = "Absent"
    /\ Len(connections) < ConnectionLimit
    /\ connections' = Append(connections, p)
    /\ conn_status' = [conn_status EXCEPT ![p] = "Open"]
    /\ UNCHANGED <<indexVars, status, block_window, download_queue, pending_eviction,
                   silence, asked>>

(* The server accepts whoever comes, without a limit. *)
Accept(p) ==
    /\ p \notin Serving
    /\ conn_status[p] = "Absent"
    /\ connections' = Append(connections, p)
    /\ conn_status' = [conn_status EXCEPT ![p] = "Open"]
    /\ UNCHANGED <<indexVars, status, block_window, download_queue, pending_eviction,
                   silence, asked>>

(* version, wtxidrelay and verack have come in. *)
Handshake(p) ==
    /\ conn_status[p] = "Open"
    /\ conn_status' = [conn_status EXCEPT ![p] = "Connected"]
    /\ UNCHANGED <<indexVars, status, block_window, connections, download_queue,
                   pending_eviction, silence, asked>>

(* Connection.stop: the peer hangs up, or sends what it should not.        *)
Close(p) ==
    /\ p \notin Serving
    /\ conn_status[p] \in {"Open", "Connected"}
    /\ conn_status' = [conn_status EXCEPT ![p] = "Closed"]
    /\ UNCHANGED <<indexVars, status, block_window, connections, download_queue,
                   pending_eviction, silence, asked>>

Removable == {p \in Peers : conn_status[p] = "Closed"}

(* Mutant: what a removed connection held stays. *)
RemoveUnpopped ==
    /\ Removable # {}
    /\ conn_status' = [p \in Peers |-> IF p \in Removable THEN "Absent" ELSE conn_status[p]]
    /\ UNCHANGED <<indexVars, status, block_window, connections, download_queue,
                   pending_eviction, silence, asked>>

(* manage_connections drops the closed connections with all they hold. *)
RemoveConnections ==
    /\ Removable # {}
    /\ connections' = Without(connections, Removable)
    /\ conn_status' = [p \in Peers |-> IF p \in Removable THEN "Absent" ELSE conn_status[p]]
    /\ download_queue' = [p \in Peers |-> IF p \in Removable THEN <<>>
                                          ELSE download_queue[p]]
    /\ pending_eviction' = [p \in Peers |-> p \notin Removable /\ pending_eviction[p]]
    /\ silence' = [p \in Peers |-> IF p \in Removable THEN 0 ELSE silence[p]]
    /\ UNCHANGED <<indexVars, status, block_window, asked>>

(* A connection passes a timeout; nothing looks at them after the sync. *)
Elapse(p) ==
    /\ conn_status[p] \in {"Open", "Connected"}
    /\ status # "BlockSynced"
    /\ silence[p] < 2
    /\ silence' = [silence EXCEPT ![p] = @ + 1]
    /\ UNCHANGED <<indexVars, status, block_window, connections, conn_status,
                   download_queue, pending_eviction, asked>>
-----------------------------------------------------------------------------
Init ==
    /\ Index!Init
    /\ status = "SyncingHeaders"
    /\ block_window = <<>>
    /\ connections = <<>>
    /\ conn_status = [p \in Peers |-> "Absent"]
    /\ download_queue = [p \in Peers |-> <<>>]
    /\ pending_eviction = [p \in Peers |-> FALSE]
    /\ silence = [p \in Peers |-> 0]
    /\ asked = [p \in Serving |-> {}]

MainThread ==
    \/ BlockDownload \/ UpdateChain
    \/ \E b \in Blocks \ {Genesis} : ReceiveHeader(b)
    \/ \E p \in Peers, b \in Blocks : ReceiveBlock(p, b) \/ RejectBlock(p, b)
    \/ \E p \in Peers : Handshake(p)

Network ==
    \/ RemoveConnections
    \/ \E p \in Peers : Connect(p) \/ Accept(p) \/ Close(p)

Next == MainThread \/ Network \/ \E p \in Peers : Elapse(p)

Spec == Init /\ [][Next]_vars

(* What is left for block_download, and for update_chain, to do: exactly   *)
(* when their actions change something.                                    *)
DownloadDue ==
    /\ status # "SyncingHeaders"
    /\ \/ block_window # NextWindow
       \/ /\ NextWindow # <<>>
          /\ ~ TooFarAhead
          /\ \/ \E p \in Peers :
                   \/ Kept(p) # download_queue[p] \/ Late(p)
                   \/ Overdue(p) /\ conn_status[p] # "Closed"
             \/ Idle # <<>> /\ Offers(block_window, Queued) # <<>>

UpdateDue ==
    /\ status # "SyncingHeaders"
    /\ \/ block_candidates # Index!LiveCandidates
       \/ Index!HasCandidate /\ HasBranch
       \/ ~ Index!HasCandidate /\ status # "BlockSynced"

(* The timeouts are minutes, a round of the main loop takes milliseconds   *)
(* and manage_connections comes by every 0.1 s: time passes when there is  *)
(* nothing left for them to do, and the serving peers have shaken hands    *)
(* and answered.                                                           *)
Settled ==
    /\ ~ DownloadDue /\ ~ UpdateDue
    /\ Removable = {}
    /\ \A p \in Serving : conn_status[p] # "Open" /\ asked[p] = {}

CanElapse(p) ==
    /\ conn_status[p] \in {"Open", "Connected"}
    /\ status # "BlockSynced"
    /\ silence[p] < 2
    /\ Settled

TimedNext == MainThread \/ Network \/ (Settled /\ \E p \in Peers : Elapse(p))

(* The main loop does what is due (weak fairness, with ENABLED written     *)
(* out), closed connections are removed, and none stays silent without     *)
(* reaching its timeouts.  Of the peers only the serving ones are asked    *)
(* for anything: the node dials them again and again.                      *)
FairSpec ==
    /\ Init /\ [][TimedNext]_vars
    /\ []<>(~ DownloadDue) \/ []<><<BlockDownload>>_vars
    /\ []<>(~ UpdateDue) \/ []<><<UpdateChain>>_vars
    /\ WF_vars(RemoveConnections)
    /\ \A p \in Peers : <>[](~ CanElapse(p)) \/ []<><<Elapse(p)>>_vars
    /\ \A p \in Serving :
          /\ SF_vars(Connect(p)) /\ WF_vars(Handshake(p))
          /\ WF_vars(\E b \in Blocks : ReceiveBlock(p, b))
-----------------------------------------------------------------------------

TypeOK ==
    /\ Index!TypeOK
    /\ status \in NodeStatus
    /\ block_window \in Seq(Blocks)
    /\ connections \in Seq(Peers)
    /\ \A p \in Peers : conn_status[p] = "Absent" <=> p \notin ToSet(connections)
    /\ conn_status \in [Peers -> ConnStatus]
    /\ download_queue \in [Peers -> Seq(Blocks)]
    /\ pending_eviction \in [Peers -> BOOLEAN]
    /\ silence \in [Peers -> 0 .. 2]
    /\ asked \in [Serving -> SUBSET Blocks]

(* Every block a connection is still expected to send is in the window,    *)
(* so it is not lost with the connection: the next round finds it neither  *)
(* downloaded nor queued and asks for it again.                            *)
QueuedInWindow ==
    \A p \in Peers : ToSet(download_queue[p]) \ downloaded \subseteq ToSet(block_window)

(* A round that gets as far as the queues leaves no connection idle while  *)
(* a block of the window is asked of nobody.                               *)
NoneIdle ==
    [][AskForBlocks =>
          \/ ToSet(block_window') \subseteq UNION {ToSet(download_queue'[p]) : p \in Peers}
          \/ \A p \in ToSet(connections) : download_queue'[p] # <<>>]_vars

(* The synchronisation of blocks ends: every block on the way to the best  *)
(* chain is asked of a peer that has it sooner or later, whoever else      *)
(* holds it in a queue, hangs up, sends rubbish or says nothing.           *)
SyncCompletes == status = "HeaderSynced" ~> status = "BlockSynced"
=============================================================================
