---------------------------- MODULE RecordStore -----------------------------
(***************************************************************************)
(* What the block database promises: a record of each key, read back as it *)
(* was written, although an insertion takes three steps (the data, the     *)
(* size of the file, the location) and the process may be killed between   *)
(* any two.  A kill after the data and before the size is the one that     *)
(* costs something: what is stored later, of that kind of record, is       *)
(* written in one place and looked for in another.                         *)
(***************************************************************************)
CONSTANTS
    Hashes,
    Garbled         \* no key: bytes in which no record starts, or only a part of one is

Kinds == {"blk", "rev"}
Keys == Kinds \X Hashes

VARIABLES
    stored,         \* the record that is read for each key stored
    writing,        \* the insertion in progress
    flushed,        \* the keys whose data was ever written
    cut             \* the kinds of records of which a file has such a kill behind it

storeVars == <<stored, writing, flushed, cut>>

Stored == DOMAIN stored

NotWriting == [stage |-> "none"]

(* Every record is read back as it was written. *)
Intact == \A key \in Stored : stored[key] = key

(* What may be found at the location given to key. *)
FoundFor(key) ==
    IF key[1] \in cut THEN {k \in flushed : k[1] = key[1]} \cup {Garbled} ELSE {key}
-----------------------------------------------------------------------------

Flush(key) ==
    /\ writing = NotWriting
    /\ key \notin Stored
    /\ writing' = [stage |-> "flushed", key |-> key]
    /\ flushed' = flushed \cup {key}
    /\ UNCHANGED <<stored, cut>>

PutSize ==
    /\ writing.stage = "flushed"
    /\ writing' = [writing EXCEPT !.stage = "sized"]
    /\ UNCHANGED <<stored, flushed, cut>>

PutLocation ==
    /\ writing.stage = "sized"
    /\ \E found \in FoundFor(writing.key) :
          stored' = [key \in Stored \cup {writing.key} |->
                        IF key = writing.key THEN found ELSE stored[key]]
    /\ writing' = NotWriting
    /\ UNCHANGED <<flushed, cut>>

Kill ==
    /\ writing' = NotWriting
    /\ cut' = IF writing.stage = "flushed" THEN cut \cup {writing.key[1]} ELSE cut
    /\ UNCHANGED <<stored, flushed>>
-----------------------------------------------------------------------------

Init ==
    /\ stored = <<>>
    /\ writing = NotWriting
    /\ flushed = {}
    /\ cut = {}

Next ==
    \/ \E key \in Keys : Flush(key)
    \/ PutSize \/ PutLocation
    \/ Kill

Spec == Init /\ [][Next]_storeVars
=============================================================================
