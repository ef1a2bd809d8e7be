----------------------------- MODULE HeaderSync -----------------------------
(***************************************************************************)
(* How two connected nodes learn each other's headers: block locators and  *)
(* get_headers_from_locators of chainstate/block_index.py, the callbacks   *)
(* getheaders and headers and the request verack sends.  Both nodes run    *)
(* this code; each also hears headers from elsewhere, at any time.  The    *)
(* code never announces a header of its own accord, so what a node knows   *)
(* reaches the other only in answer to a request.                          *)
(***************************************************************************)
EXTENDS BlockTree, FiniteSets, SequencesExt

CONSTANTS
    Nodes,          \* the two nodes
    MaxHeaders,     \* headers in a message (2000)
    Dense           \* locators before the gaps between them grow (10)

ASSUME HeaderSyncAssumption ==
    /\ IsFiniteSet(Nodes) /\ Cardinality(Nodes) = 2
    /\ MaxHeaders \in Nat \ {0}
    /\ Dense \in Nat \ {0}

VARIABLES
    known,          \* the keys of header_dict
    header_index,   \* the best header chain, Genesis first
    status,         \* NodeStatus, until the headers are synchronised
    conn_status,    \* each node's end of the connection
    wire            \* the messages on their way to a node, in order

vars == <<known, header_index, status, conn_status, wire>>

Other(n) == CHOOSE m \in Nodes : m # n

GetHeadersMsg(locators) == [type |-> "getheaders", blocks |-> locators]

HeadersMsg(headers) == [type |-> "headers", blocks |-> headers]

Messages == [type : {"getheaders", "headers"}, blocks : Seq(Blocks) \ {<<>>}]
-----------------------------------------------------------------------------
(* How far from the end of the chain the k-th locator is, 1 for the tip:   *)
(* the first Dense one by one, then in steps that double.                  *)
LocatorAt(k) == IF k <= Dense THEN k ELSE Dense + 2^(k - Dense + 1) - 2

(* Mutant: the genesis block is left out. *)
RecentLocators(index) ==
    LET n == Cardinality({k \in 1 .. Len(index) : LocatorAt(k) <= Len(index)})
    IN  [k \in 1 .. n |-> index[Len(index) + 1 - LocatorAt(k)]]

(* get_block_locator_hashes: from the tip down, with the genesis block.    *)
BlockLocators(index) ==
    LET n == Cardinality({k \in 1 .. Len(index) : LocatorAt(k) <= Len(index)})
    IN  [k \in 1 .. n |-> index[Len(index) + 1 - LocatorAt(k)]]
            \o (IF LocatorAt(n) = Len(index) THEN <<>> ELSE <<index[1]>>)

(* The position in index of the first locator that is on it. *)
StartOf(index, locators) ==
    LET i == SelectInSeq(locators, LAMBDA b : b \in Elems(index))
    IN  IF i = 0 THEN 0 ELSE Len(Path[locators[i]])

(* Mutant: the slice starts one header late. *)
HeadersAfterNext(index, locators) ==
    LET start == StartOf(index, locators)
    IN  IF start = 0 THEN <<>>
        ELSE SubSeq(index, start + 2, Min({start + MaxHeaders, Len(index)}))

(* get_headers_from_locators with no header to stop at: what follows the   *)
(* first shared locator, as much as a message holds.                       *)
HeadersFromLocators(index, locators) ==
    LET start == StartOf(index, locators)
    IN  IF start = 0 THEN <<>>
        ELSE SubSeq(index, start + 1, Min({start + MaxHeaders, Len(index)}))

(* add_headers: known headers and orphans are skipped. *)
AddHeader(state, h) ==
    IF h \in state.known \/ Parent(h) \notin state.known THEN state
    ELSE [known |-> state.known \cup {h},
          index |-> ExtendHeaderIndex(state.index, h)]

AddHeaders(n, headers) ==
    LET after[i \in 0 .. Len(headers)] ==
            IF i = 0 THEN [known |-> known[n], index |-> header_index[n]]
            ELSE AddHeader(after[i - 1], headers[i])
    IN  after[Len(headers)]

(* The head of the queue to n is handled and something may go back. *)
Exchange(n, answers) ==
    wire' = [wire EXCEPT ![n] = Tail(@), ![Other(n)] = @ \o answers]

NextIs(n, type) ==
    /\ conn_status[n] = "Connected"
    /\ wire[n] # <<>>
    /\ wire[n][1].type = type
-----------------------------------------------------------------------------
(* verack: the handshake is done and the first request goes out. *)
Verack(n) ==
    /\ conn_status[n] = "Open"
    /\ conn_status' = [conn_status EXCEPT ![n] = "Connected"]
    /\ wire' = [wire EXCEPT ![Other(n)] = Append(@, GetHeadersMsg(BlockLocators(header_index[n])))]
    /\ UNCHANGED <<known, header_index, status>>

(* Mutant: an empty answer is sent too. *)
ReplyAlways(headers) == <<HeadersMsg(headers)>>

Reply(headers) == IF headers = <<>> THEN <<>> ELSE <<HeadersMsg(headers)>>

(* The getheaders callback: no answer when there is nothing to send. *)
GetHeaders(n) ==
    /\ NextIs(n, "getheaders")
    /\ Exchange(n, Reply(HeadersFromLocators(header_index[n], wire[n][1].blocks)))
    /\ UNCHANGED <<known, header_index, status, conn_status>>

(* Mutant: a full message is always followed by another request. *)
AskOn(headers, added) == Len(headers) = MaxHeaders

AskMore(headers, added) == Len(headers) = MaxHeaders /\ added

(* The headers callback: after a full message that brought something new   *)
(* the next ones are asked for, any other ends the header sync.            *)
Headers(n) ==
    LET headers == wire[n][1].blocks
        new == AddHeaders(n, headers)
        more == AskMore(headers, new.known # known[n])
    IN  /\ NextIs(n, "headers")
        /\ known' = [known EXCEPT ![n] = new.known]
        /\ header_index' = [header_index EXCEPT ![n] = new.index]
        /\ Exchange(n, IF more THEN <<GetHeadersMsg(BlockLocators(new.index))>> ELSE <<>>)
        /\ status' = [status EXCEPT ![n] = IF more THEN @ ELSE "HeaderSynced"]
        /\ UNCHANGED conn_status

(* The headers callback for a message of one header from a third node. *)
Hear(n, h) ==
    LET new == AddHeaders(n, <<h>>)
    IN  /\ new.known # known[n]
        /\ known' = [known EXCEPT ![n] = new.known]
        /\ header_index' = [header_index EXCEPT ![n] = new.index]
        /\ status' = [status EXCEPT ![n] = "HeaderSynced"]
        /\ UNCHANGED <<conn_status, wire>>

(* The connection breaks and a new one is made: what was on the way is     *)
(* lost and both ends start over.                                          *)
Reconnect ==
    /\ \E n \in Nodes : conn_status[n] = "Connected"
    /\ conn_status' = [n \in Nodes |-> "Open"]
    /\ wire' = [n \in Nodes |-> <<>>]
    /\ UNCHANGED <<known, header_index, status>>

Init ==
    /\ known = [n \in Nodes |-> {Genesis}]
    /\ header_index = [n \in Nodes |-> <<Genesis>>]
    /\ status = [n \in Nodes |-> "SyncingHeaders"]
    /\ conn_status = [n \in Nodes |-> "Open"]
    /\ wire = [n \in Nodes |-> <<>>]

Handle(n) == Verack(n) \/ GetHeaders(n) \/ Headers(n)

Next ==
    \/ \E n \in Nodes : Handle(n) \/ \E h \in Blocks \ {Genesis} : Hear(n, h)
    \/ Reconnect

(* The main loop of each node handles what arrives; nobody has to send a   *)
(* header from elsewhere, and connections need not break.                  *)
Spec == Init /\ [][Next]_vars /\ \A n \in Nodes : WF_vars(Handle(n))
-----------------------------------------------------------------------------
TypeOK ==
    /\ known \in [Nodes -> SUBSET Blocks]
    /\ header_index \in [Nodes -> Seq(Blocks)]
    /\ status \in [Nodes -> {"SyncingHeaders", "HeaderSynced"}]
    /\ conn_status \in [Nodes -> {"Open", "Connected"}]
    /\ wire \in [Nodes -> Seq(Messages)]

(* An answer never holds an orphan, however both header chains have moved  *)
(* since it was asked for or sent: its first header extends a header its   *)
(* reader knows, and each of the others the one before it.                 *)
AnswersConnect ==
    \A n \in Nodes : \A m \in ToSet(wire[n]) :
        m.type = "headers" =>
            /\ Parent(m.blocks[1]) \in known[n]
            /\ \A i \in 2 .. Len(m.blocks) : Parent(m.blocks[i]) = m.blocks[i - 1]

(* A full answer that brings nothing new, after which the code asks no     *)
(* more: its headers came in from elsewhere meanwhile, or they are those   *)
(* of a fork too long for a message, which never move the header index     *)
(* ("it doesn't support long reorganizations").                            *)
OldNews(n) ==
    \E m \in ToSet(wire[n]) :
        m.type = "headers" /\ Len(m.blocks) = MaxHeaders /\ ToSet(m.blocks) \subseteq known[n]

Asked(n, work) ==
    /\ work = Work[Tip(header_index[Other(n)])]
    /\ \E m \in ToSet(wire[Other(n)]) : m.type = "getheaders"

(* A request leads to a header chain of at least the work the other node   *)
(* had when it was asked, in as many messages as it takes; only old news   *)
(* or the end of the connection can be in the way.                         *)
HeadersCatchUp ==
    \A n \in Nodes, work \in {Work[h] : h \in Blocks \ {Genesis}} :
        Asked(n, work) ~> \/ Work[Tip(header_index[n])] >= work
                          \/ OldNews(n)
                          \/ conn_status[n] = "Open"

(* Two nodes do not ask each other for the same headers for ever, not even *)
(* across a long fork, whose first headers never move the header index.    *)
RequestsEnd ==
    \/ <>[](\A n \in Nodes : wire[n] = <<>>)
    \/ []<>(\E n \in Nodes : conn_status[n] = "Open")
=============================================================================
