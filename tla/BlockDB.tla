------------------------------ MODULE BlockDB -------------------------------
(***************************************************************************)
(* block_db/__init__.py: blocks and rev patches appended to numbered       *)
(* files, and the database that remembers where each of them lies.         *)
(*                                                                         *)
(* A record's bytes are abstracted to its key and their number.  The       *)
(* variables are what is on disk; what the code holds in memory ahead of a *)
(* put is in op, and is lost when the process is killed.  A file is opened *)
(* for appending: data always goes to its physical end.                    *)
(***************************************************************************)
EXTENDS Integers

CONSTANTS
    Hashes,
    Garbled,        \* bytes in which no record starts, or only a part of one is
    Size,           \* the number of bytes of each record
    FileLimit,      \* a block file larger than this is full (128 MB)
    MaxCrashes      \* bound on the number of kills

VARIABLES
    file_index,     \* the number of the current file, 0 when there is none
    files,          \* FileMetadata.size of each file with a record
    locations,      \* BlockLocation of each key: BlockDB.blocks and .rev_patches
    contents,       \* of each file written to: where it ends and which records start where
    op,             \* the insertion in progress
    crashes

vars == <<file_index, files, locations, contents, op, crashes>>

Kinds == {"blk", "rev"}
Keys == Kinds \X Hashes
FileNames == Kinds \X Nat

ASSUME LimitAssumption == FileLimit \in Nat /\ MaxCrashes \in Nat
ASSUME RecordAssumption == Size \in [Keys -> Nat \ {0}] /\ Garbled \notin Keys

NoOp == [stage |-> "none"]

Stored == DOMAIN locations

(* The function f, with the value v at x. *)
With(f, x, v) == [y \in DOMAIN f \cup {x} |-> IF y = x THEN v ELSE f[y]]
-----------------------------------------------------------------------------

BlockFile == <<"blk", file_index>>

NeedsBlockFile == file_index = 0 \/ files[BlockFile] > FileLimit

(* Mutant: the number of a new file is put before its record. *)
AddBlockIndexFirst(h) ==
    /\ op = NoOp
    /\ <<"blk", h>> \notin Stored
    /\ IF NeedsBlockFile
       THEN /\ file_index' = file_index + 1
            /\ op' = [stage |-> "index", key |-> <<"blk", h>>,
                      file |-> <<"blk", file_index + 1>>]
       ELSE /\ UNCHANGED file_index
            /\ op' = [stage |-> "write", key |-> <<"blk", h>>, file |-> BlockFile]
    /\ UNCHANGED <<files, locations, contents, crashes>>

(* add_block; __find_block_file finds the current file, or puts the record *)
(* of a new one.                                                           *)
AddBlock(h) ==
    /\ op = NoOp
    /\ <<"blk", h>> \notin Stored
    /\ IF NeedsBlockFile
       THEN /\ files' = With(files, <<"blk", file_index + 1>>, 0)
            /\ op' = [stage |-> "index", key |-> <<"blk", h>>,
                      file |-> <<"blk", file_index + 1>>]
       ELSE /\ UNCHANGED files
            /\ op' = [stage |-> "write", key |-> <<"blk", h>>, file |-> BlockFile]
    /\ UNCHANGED <<file_index, locations, contents, crashes>>

PutFileIndex ==
    /\ op.stage = "index"
    /\ file_index' = op.file[2]
    /\ op' = [op EXCEPT !.stage = "write"]
    /\ UNCHANGED <<files, locations, contents, crashes>>

(* Mutant: a new rev file is used without a record. *)
AddRevUnrecorded(h) ==
    /\ op = NoOp
    /\ <<"rev", h>> \notin Stored
    /\ op' = [stage |-> "write", key |-> <<"rev", h>>, file |-> <<"rev", file_index>>]
    /\ UNCHANGED <<file_index, files, locations, contents, crashes>>

(* add_rev_block; a rev patch goes to the file of the current number. *)
AddRevBlock(h) ==
    LET file == <<"rev", file_index>>
    IN  /\ op = NoOp
        /\ <<"rev", h>> \notin Stored
        /\ files' = IF file \in DOMAIN files THEN files ELSE With(files, file, 0)
        /\ op' = [stage |-> "write", key |-> <<"rev", h>>, file |-> file]
        /\ UNCHANGED <<file_index, locations, contents, crashes>>

EndOf(file) == IF file \in DOMAIN contents THEN contents[file].end ELSE 0

RecordsIn(file) == IF file \in DOMAIN contents THEN contents[file].starts ELSE <<>>

(* Mutants: the data stays in the buffer; the file is opened for writing,   *)
(* which empties it.                                                       *)
WriteUnflushed ==
    /\ op.stage = "write"
    /\ op' = [op EXCEPT !.stage = "metadata"]
    /\ UNCHANGED <<file_index, files, locations, contents, crashes>>

WriteAnew ==
    /\ op.stage = "write"
    /\ contents' = With(contents, op.file,
                        [end |-> Size[op.key], starts |-> With(<<>>, 0, op.key)])
    /\ op' = [op EXCEPT !.stage = "metadata"]
    /\ UNCHANGED <<file_index, files, locations, crashes>>

(* __add_data_to_file: the data is written and flushed to the end, ... *)
WriteData ==
    /\ op.stage = "write"
    /\ contents' = With(contents, op.file,
                        [end    |-> EndOf(op.file) + Size[op.key],
                         starts |-> With(RecordsIn(op.file), EndOf(op.file), op.key)])
    /\ op' = [op EXCEPT !.stage = "metadata"]
    /\ UNCHANGED <<file_index, files, locations, crashes>>

(* Mutant: the index is taken when the size has been added. *)
PutMetadataFirst ==
    /\ op.stage = "metadata"
    /\ files' = [files EXCEPT ![op.file] = @ + Size[op.key]]
    /\ op' = [stage |-> "location", key |-> op.key, file |-> op.file,
              index |-> files'[op.file]]
    /\ UNCHANGED <<file_index, locations, contents, crashes>>

(* ... and its index is the size recorded so far. *)
PutMetadata ==
    /\ op.stage = "metadata"
    /\ files' = [files EXCEPT ![op.file] = @ + Size[op.key]]
    /\ op' = [stage |-> "location", key |-> op.key, file |-> op.file,
              index |-> files[op.file]]
    /\ UNCHANGED <<file_index, locations, contents, crashes>>

(* The location; its size is that of the key's record. *)
PutLocation ==
    /\ op.stage = "location"
    /\ locations' = With(locations, op.key, [file |-> op.file, index |-> op.index])
    /\ op' = NoOp
    /\ UNCHANGED <<file_index, files, contents, crashes>>

(* get_block and get_rev_block parse what lies at the location: the record *)
(* that starts there, whatever follows it, if the size put with the        *)
(* location takes all of it in.                                            *)
Read(key) ==
    LET loc    == locations[key]
        starts == RecordsIn(loc.file)
    IN  IF loc.index \in DOMAIN starts /\ Size[starts[loc.index]] <= Size[key]
        THEN starts[loc.index] ELSE Garbled

(* A kill, and init_from_db on what is on disk. *)
Restart ==
    /\ crashes < MaxCrashes
    /\ crashes' = crashes + 1
    /\ op' = NoOp
    /\ UNCHANGED <<file_index, files, locations, contents>>
-----------------------------------------------------------------------------
Init ==
    /\ file_index = 0
    /\ files = <<>>
    /\ locations = <<>>
    /\ contents = <<>>
    /\ op = NoOp
    /\ crashes = 0

Next ==
    \/ \E h \in Hashes : AddBlock(h) \/ AddRevBlock(h)
    \/ PutFileIndex \/ WriteData \/ PutMetadata \/ PutLocation
    \/ Restart

Spec == Init /\ [][Next]_vars
-----------------------------------------------------------------------------

Ops ==
    {NoOp} \cup [stage : {"index", "write", "metadata"}, key : Keys, file : FileNames]
           \cup [stage : {"location"}, key : Keys, file : FileNames, index : Nat]

TypeOK ==
    /\ file_index \in Nat
    /\ DOMAIN files \subseteq FileNames
    /\ \A file \in DOMAIN files : files[file] \in Nat
    /\ DOMAIN locations \subseteq Keys
    /\ \A key \in Stored : locations[key] \in [file : FileNames, index : Nat]
    /\ DOMAIN contents \subseteq DOMAIN files
    /\ op \in Ops
    /\ crashes \in 0 .. MaxCrashes

(* The current file always has its record, also after a kill between the   *)
(* two puts that open a new one, so that the next insertion finds its size.*)
CurrentFileRecorded ==
    file_index > 0 => BlockFile \in DOMAIN files

(* The ranges of bytes of two keys are disjoint, and none goes beyond the  *)
(* end of its file, not even after a kill between the puts of an insertion.*)
(* (What is in the range is another matter: see below.)                    *)
Before(k1, k2) == locations[k1].index + Size[k1] <= locations[k2].index

LocationsSound ==
    /\ \A k1, k2 \in Stored :
          k1 # k2 /\ locations[k1].file = locations[k2].file => Before(k1, k2) \/ Before(k2, k1)
    /\ \A key \in Stored : locations[key].index + Size[key] <= EndOf(locations[key].file)

(* A file's recorded size is where it ends, but for data just written. *)
Aligned(file) ==
    EndOf(file) =
        IF op.stage = "metadata" /\ op.file = file
        THEN files[file] + Size[op.key] ELSE files[file]

(* In a file whose recorded size is right, what is read is what was        *)
(* stored: any kill but one between the write and the put of the size      *)
(* costs at most the insertion it cuts off.                                *)
ReadsBackAligned ==
    \A key \in Stored : Aligned(locations[key].file) => Read(key) = key

(* What is read of a stored key never changes, and is wrong only for those *)
(* stored after a kill between the write and the put of the size, of that  *)
(* kind of records; it is another record written before, or garbled.       *)
RecordsRead == [key \in Stored |-> Read(key)]

Insertion ==
    CASE op.stage = "metadata" -> [stage |-> "flushed", key |-> op.key]
      [] op.stage = "location" -> [stage |-> "sized", key |-> op.key]
      [] OTHER -> NoOp

Flushed ==
    UNION {{contents[file].starts[i] : i \in DOMAIN contents[file].starts} :
              file \in DOMAIN contents}

CutKinds == {file[1] : file \in {f \in DOMAIN files : ~ Aligned(f)}}

Records == INSTANCE RecordStore WITH
    stored <- RecordsRead, writing <- Insertion, flushed <- Flushed, cut <- CutKinds
ImplementsRecordStore == Records!Spec
=============================================================================
