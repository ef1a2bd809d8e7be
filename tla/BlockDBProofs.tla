---------------------------- MODULE BlockDBProofs ----------------------------
(***************************************************************************)
(* The block database keeps its records sound whatever is stored, in       *)
(* whichever order, and wherever it is killed; what is read is what was    *)
(* stored unless a kill came between a write and the put of the file's     *)
(* size; and it keeps the promise of RecordStore.                          *)
(***************************************************************************)
EXTENDS BlockDB, TLAPS

(* Nothing is ever written to a file beyond the current number, so the     *)
(* record that __find_block_file puts anew after a kill is of an empty one.*)
NothingAhead ==
    /\ \A file \in DOMAIN contents : file[2] <= file_index
    /\ op.stage = "index" => op.file = <<"blk", file_index + 1>>
    /\ op.stage \in {"write", "metadata", "location"} => op.file[2] <= file_index

(* A file holds records of its kind, each of which starts before its end.  *)
RecordsOK ==
    /\ \A file \in DOMAIN contents :
          /\ contents[file].end \in Nat
          /\ \A i \in DOMAIN contents[file].starts :
                /\ i \in Nat /\ i < contents[file].end
                /\ contents[file].starts[i] \in Keys
                /\ contents[file].starts[i][1] = file[1]
    /\ op.stage # "none" => op.key[1] = op.file[1] /\ op.key \notin Stored
    /\ \A key \in Stored : locations[key].file[1] = key[1]

(* A file's recorded size is at most what is in it: the data comes first.  *)
SizesWritten ==
    /\ \A file \in DOMAIN files : files[file] <= EndOf(file)
    /\ op.stage # "none" => op.file \in DOMAIN files
    /\ op.stage = "metadata" => files[op.file] + Size[op.key] <= EndOf(op.file)

(* A location is within the recorded size of its file, and a place that is *)
(* about to be put is within it and nobody's.                              *)
Apart(key, file, index) ==
    locations[key].file = file =>
        \/ locations[key].index + Size[key] <= index
        \/ index + Size[op.key] <= locations[key].index

LocationsWithin ==
    /\ \A k1, k2 \in Stored :
          k1 # k2 /\ locations[k1].file = locations[k2].file => Before(k1, k2) \/ Before(k2, k1)
    /\ \A key \in Stored : /\ locations[key].file \in DOMAIN files
                           /\ locations[key].index + Size[key] <= files[locations[key].file]
    /\ op.stage = "location" =>
          /\ op.index + Size[op.key] <= files[op.file]
          /\ \A key \in Stored : Apart(key, op.file, op.index)

(* In a file with the right size the record being written is where its     *)
(* location is going to say.                                               *)
StartsAt(file, i, key) == i \in DOMAIN RecordsIn(file) /\ RecordsIn(file)[i] = key

AlignedOK ==
    /\ op.stage = "metadata" /\ Aligned(op.file) => StartsAt(op.file, files[op.file], op.key)
    /\ op.stage = "location" /\ Aligned(op.file) => StartsAt(op.file, op.index, op.key)
    /\ ReadsBackAligned

Inv ==
    /\ TypeOK
    /\ CurrentFileRecorded
    /\ NothingAhead
    /\ RecordsOK
    /\ SizesWritten
    /\ LocationsWithin
    /\ AlignedOK

(* A step that RecordStore does not see. *)
Quiet == UNCHANGED <<RecordsRead, Insertion, Flushed, CutKinds>>
-----------------------------------------------------------------------------

(* An insertion in progress has a key and a file. *)
LEMMA OpFacts ==
    ASSUME op \in Ops
    PROVE  /\ op.stage \in {"none", "index", "write", "metadata", "location"}
           /\ op.stage = "none" <=> op = NoOp
           /\ op.stage # "none" => op.key \in Keys /\ op.file \in FileNames
           /\ op.stage # "none" => Size[op.key] \in Nat \ {0}
           /\ op.stage = "location" => op.index \in Nat
BY RecordAssumption DEF Ops, NoOp

(* Where a file ends, whether it has been written to or not. *)
LEMMA FileFacts ==
    ASSUME RecordsOK, NEW file
    PROVE  /\ EndOf(file) \in Nat
           /\ \A i \in DOMAIN RecordsIn(file) :
                 /\ i \in Nat /\ i < EndOf(file) /\ file \in DOMAIN contents
                 /\ RecordsIn(file)[i] \in Keys /\ RecordsIn(file)[i][1] = file[1]
BY DEF RecordsOK, EndOf, RecordsIn

(* A stored key's place. *)
LEMMA PlaceFacts ==
    ASSUME Inv, NEW key \in Stored
    PROVE  /\ key \in Keys /\ Size[key] \in Nat \ {0}
           /\ locations[key].file \in DOMAIN files /\ locations[key].index \in Nat
           /\ files[locations[key].file] \in Nat /\ EndOf(locations[key].file) \in Nat
           /\ locations[key].index + Size[key] <= files[locations[key].file]
           /\ files[locations[key].file] <= EndOf(locations[key].file)
           /\ locations[key].index < EndOf(locations[key].file)
<1>1. /\ key \in Keys /\ Size[key] \in Nat \ {0}
      /\ locations[key].file \in DOMAIN files /\ locations[key].index \in Nat
      /\ files[locations[key].file] \in Nat
      /\ locations[key].index + Size[key] <= files[locations[key].file]
      /\ files[locations[key].file] <= EndOf(locations[key].file)
  BY RecordAssumption DEF Inv, TypeOK, LocationsWithin, SizesWritten, Stored
<1>2. EndOf(locations[key].file) \in Nat
  BY FileFacts DEF Inv
<1> QED
  BY <1>1, <1>2

(* What is in the files stays as long as contents does. *)
LEMMA SameContents ==
    ASSUME UNCHANGED contents
    PROVE  \A file : EndOf(file)' = EndOf(file) /\ RecordsIn(file)' = RecordsIn(file)
BY DEF EndOf, RecordsIn

(* With neither locations nor contents changed the reads are the same. *)
LEMMA SameReads ==
    ASSUME UNCHANGED <<contents, locations>>
    PROVE  Stored' = Stored /\ \A key : Read(key)' = Read(key)
BY DEF Stored, Read, RecordsIn

(* A fresh block database. *)
LEMMA InitInv == Init => Inv
BY LimitAssumption DEF Init, Inv, TypeOK, CurrentFileRecorded, NothingAhead, RecordsOK,
    SizesWritten, LocationsWithin, AlignedOK, ReadsBackAligned, NoOp, Ops, Stored

(* add_block and add_rev_block begin an insertion: a record of size 0 of a *)
(* file with nothing in it, if there is none.                              *)
LEMMA BeginInv ==
    ASSUME Inv, op = NoOp, NEW new \in FileNames, NEW key \in Keys, key \notin Stored,
           UNCHANGED <<locations, contents, crashes>>,
           key[1] = new[1],
           op'.stage \in {"index", "write"}, op' \in Ops, op'.key = key, op'.file = new,
           \/ UNCHANGED files /\ new \in DOMAIN files
           \/ files' = With(files, new, 0) /\ EndOf(new) = 0
    PROVE  /\ DOMAIN files \subseteq DOMAIN files' /\ new \in DOMAIN files'
           /\ DOMAIN files' \subseteq FileNames /\ \A f \in DOMAIN files' : files'[f] \in Nat
           /\ RecordsOK' /\ SizesWritten' /\ LocationsWithin' /\ AlignedOK'
           /\ Quiet
<1>0. op.stage = "none"
  BY DEF NoOp
<1>1. /\ \A f : EndOf(f)' = EndOf(f) /\ RecordsIn(f)' = RecordsIn(f)
      /\ Stored' = Stored /\ \A k : Read(k)' = Read(k)
  BY SameContents, SameReads
<1>2. /\ DOMAIN files' = DOMAIN files \cup {new}
      /\ \A f \in DOMAIN files : f # new => files'[f] = files[f]
      /\ files'[new] \in Nat
      /\ \/ new \in DOMAIN files /\ files'[new] = files[new]
         \/ files'[new] = 0 /\ EndOf(new) = 0
  <2>1. CASE UNCHANGED files /\ new \in DOMAIN files
    BY <2>1 DEF Inv, TypeOK
  <2>2. CASE files' = With(files, new, 0) /\ EndOf(new) = 0
    <3>1. /\ DOMAIN files' = DOMAIN files \cup {new} /\ files'[new] = 0
          /\ \A f \in DOMAIN files : f # new => files'[f] = files[f]
      BY <2>2, Zenon DEF With
    <3> QED
      BY <2>2, <3>1
  <2> QED
    BY <2>1, <2>2
<1>3. /\ DOMAIN files \subseteq DOMAIN files' /\ new \in DOMAIN files'
      /\ DOMAIN files' \subseteq FileNames /\ \A f \in DOMAIN files' : files'[f] \in Nat
  BY <1>2 DEF Inv, TypeOK
<1>4. RecordsOK'
  BY <1>1 DEF Inv, RecordsOK
<1>5. SizesWritten'
  BY <1>1, <1>2 DEF Inv, SizesWritten
<1>6. ASSUME NEW k \in Stored
      PROVE  /\ locations[k].file \in DOMAIN files
             /\ files'[locations[k].file] = files[locations[k].file]
  BY <1>2, PlaceFacts
<1>7. LocationsWithin'
  BY <1>1, <1>3, <1>6 DEF Inv, LocationsWithin, Before
<1>8. \A f \in DOMAIN files' : Aligned(f)' <=> (f \in DOMAIN files => Aligned(f))
  BY <1>0, <1>1, <1>2 DEF Aligned, Inv, SizesWritten, TypeOK
<1>9. AlignedOK'
  BY <1>1, <1>3, <1>6, <1>8 DEF Inv, AlignedOK, ReadsBackAligned
<1>10. Quiet
  <2>1. CutKinds' = CutKinds
    BY <1>3, <1>8 DEF CutKinds
  <2>2. Insertion = NoOp /\ Insertion' = NoOp
    BY <1>0 DEF Insertion
  <2> QED
    BY <1>1, <2>1, <2>2 DEF Quiet, RecordsRead, Flushed
<1> QED
  BY <1>3, <1>4, <1>5, <1>7, <1>9, <1>10

(* add_block. *)
LEMMA AddBlockInv ==
    ASSUME Inv, NEW h \in Hashes, AddBlock(h)
    PROVE  Inv' /\ Quiet
<1> DEFINE new == <<"blk", file_index + 1>>
           key == <<"blk", h>>
<1>1. UNCHANGED <<file_index, locations, contents, crashes>> /\ op = NoOp /\ key \notin Stored
  BY DEF AddBlock
<1>2. key \in Keys /\ key[1] = "blk" /\ file_index \in Nat
  BY DEF Keys, Kinds, Inv, TypeOK
<1>3. CASE NeedsBlockFile
  <2>1. files' = With(files, new, 0) /\ op' = [stage |-> "index", key |-> key, file |-> new]
    BY <1>3 DEF AddBlock
  <2>2. new \in FileNames /\ new[2] = file_index + 1 /\ new[1] = "blk"
    BY <1>2 DEF FileNames, Kinds
  <2>3. EndOf(new) = 0
    BY <1>2, <2>2 DEF Inv, NothingAhead, EndOf
  <2> HIDE DEF new, key
  <2>4. op'.stage = "index" /\ op' \in Ops /\ op'.key = key /\ op'.file = new
    BY <1>2, <2>1, <2>2 DEF Ops
  <2>5. /\ DOMAIN files \subseteq DOMAIN files' /\ DOMAIN files' \subseteq FileNames
        /\ \A f \in DOMAIN files' : files'[f] \in Nat
        /\ RecordsOK' /\ SizesWritten' /\ LocationsWithin' /\ AlignedOK' /\ Quiet
    BY <1>1, <1>2, <2>1, <2>2, <2>3, <2>4, BeginInv
  <2>6. TypeOK' /\ CurrentFileRecorded'
    BY <1>1, <2>4, <2>5 DEF Inv, TypeOK, Stored, CurrentFileRecorded, BlockFile
  <2>7. NothingAhead'
    BY <1>1, <2>4 DEF Inv, NothingAhead, new
  <2> QED
    BY <2>5, <2>6, <2>7 DEF Inv
<1>4. CASE ~ NeedsBlockFile
  <2>1. /\ UNCHANGED files
        /\ op' = [stage |-> "write", key |-> key, file |-> BlockFile]
        /\ BlockFile \in DOMAIN files /\ BlockFile[2] = file_index /\ BlockFile[1] = "blk"
        /\ BlockFile \in FileNames
    BY <1>2, <1>4 DEF AddBlock, NeedsBlockFile, Inv, CurrentFileRecorded, TypeOK, BlockFile,
                      FileNames, Kinds
  <2> HIDE DEF key
  <2>2. op'.stage = "write" /\ op' \in Ops /\ op'.key = key /\ op'.file = BlockFile
    BY <1>2, <2>1 DEF Ops
  <2>3. RecordsOK' /\ SizesWritten' /\ LocationsWithin' /\ AlignedOK' /\ Quiet
    BY <1>1, <1>2, <2>1, <2>2, BeginInv
  <2>4. TypeOK' /\ CurrentFileRecorded'
    BY <1>1, <2>1, <2>2 DEF Inv, TypeOK, Stored, CurrentFileRecorded, BlockFile
  <2>5. NothingAhead'
    BY <1>1, <1>2, <2>1, <2>2 DEF Inv, NothingAhead
  <2> QED
    BY <2>3, <2>4, <2>5 DEF Inv
<1> QED
  BY <1>3, <1>4

(* Putting the number of a new file, whose record is there, makes it current. *)
LEMMA PutFileIndexInv ==
    ASSUME Inv, PutFileIndex
    PROVE  Inv' /\ Quiet
<1>1. /\ UNCHANGED <<files, locations, contents, crashes>>
      /\ op.stage = "index" /\ op \in Ops /\ op.file = <<"blk", file_index + 1>>
      /\ op.file \in DOMAIN files /\ file_index \in Nat
      /\ file_index' = op.file[2]
      /\ op' = [op EXCEPT !.stage = "write"]
  BY DEF PutFileIndex, Inv, TypeOK, NothingAhead, SizesWritten
<1>2. file_index' = file_index + 1 /\ BlockFile' = op.file
  BY <1>1 DEF BlockFile
<1>3. /\ op' \in Ops /\ op'.stage = "write" /\ op'.file = op.file /\ op'.key = op.key
  BY <1>1 DEF Ops, NoOp
<1>4. /\ \A f : EndOf(f)' = EndOf(f) /\ RecordsIn(f)' = RecordsIn(f)
      /\ Stored' = Stored /\ \A k : Read(k)' = Read(k)
  BY <1>1, SameContents, SameReads
<1>5. TypeOK' /\ CurrentFileRecorded'
  BY <1>1, <1>2, <1>3 DEF Inv, TypeOK, Stored, CurrentFileRecorded
<1>6. NothingAhead'
  <2>1. \A file \in DOMAIN contents : file[2] \in Nat
    BY DEF Inv, TypeOK, FileNames
  <2> QED
    BY <1>1, <1>2, <1>3, <2>1 DEF Inv, NothingAhead
<1>7. RecordsOK' /\ SizesWritten' /\ LocationsWithin'
  BY <1>1, <1>3, <1>4 DEF Inv, RecordsOK, SizesWritten, LocationsWithin, Before
<1>8. \A f : Aligned(f)' <=> Aligned(f)
  BY <1>1, <1>3, <1>4 DEF Aligned
<1>9. AlignedOK'
  BY <1>1, <1>3, <1>4, <1>8 DEF Inv, AlignedOK, ReadsBackAligned
<1>10. Quiet
  BY <1>1, <1>3, <1>4, <1>8 DEF Quiet, RecordsRead, Flushed, CutKinds, Insertion
<1> QED
  BY <1>5, <1>6, <1>7, <1>9, <1>10 DEF Inv

(* add_rev_block; the file may be one of number 0, and is empty then. *)
LEMMA AddRevBlockInv ==
    ASSUME Inv, NEW h \in Hashes, AddRevBlock(h)
    PROVE  Inv' /\ Quiet
<1> DEFINE new == <<"rev", file_index>>
           key == <<"rev", h>>
<1>1. /\ UNCHANGED <<file_index, locations, contents, crashes>> /\ op = NoOp
      /\ key \notin Stored /\ op' = [stage |-> "write", key |-> key, file |-> new]
      /\ files' = IF new \in DOMAIN files THEN files ELSE With(files, new, 0)
  BY DEF AddRevBlock
<1>2. /\ key \in Keys /\ key[1] = "rev" /\ new \in FileNames /\ new[1] = "rev"
      /\ new[2] = file_index /\ file_index \in Nat
  BY DEF Keys, Kinds, FileNames, Inv, TypeOK
<1> HIDE DEF new, key
<1>3. op'.stage = "write" /\ op' \in Ops /\ op'.key = key /\ op'.file = new
  BY <1>1, <1>2 DEF Ops
<1>4. \/ UNCHANGED files /\ new \in DOMAIN files
      \/ files' = With(files, new, 0) /\ EndOf(new) = 0
  BY <1>1 DEF Inv, TypeOK, EndOf
<1>5. /\ DOMAIN files \subseteq DOMAIN files' /\ DOMAIN files' \subseteq FileNames
      /\ \A f \in DOMAIN files' : files'[f] \in Nat
      /\ RecordsOK' /\ SizesWritten' /\ LocationsWithin' /\ AlignedOK' /\ Quiet
  BY <1>1, <1>2, <1>3, <1>4, BeginInv
<1>6. TypeOK' /\ CurrentFileRecorded'
  BY <1>1, <1>3, <1>5 DEF Inv, TypeOK, Stored, CurrentFileRecorded, BlockFile
<1>7. NothingAhead'
  BY <1>1, <1>2, <1>3 DEF Inv, NothingAhead
<1> QED
  BY <1>5, <1>6, <1>7 DEF Inv

(* Data appended to a file moves nothing that is in it: what is read of    *)
(* the keys stored before is the same.                                     *)
LEMMA WriteDataInv ==
    ASSUME Inv, WriteData
    PROVE  Inv' /\ Records!Flush(op.key) /\ op.key \in Keys
<1>0. PICK file, key : file = op.file /\ key = op.key
  OBVIOUS
<1> DEFINE end == EndOf(file)
           starts == With(RecordsIn(file), end, key)
<1>1. /\ file = op.file /\ key = op.key
      /\ UNCHANGED <<file_index, files, locations, crashes>>
      /\ op.stage = "write" /\ op \in Ops /\ key \in Keys /\ Size[key] \in Nat \ {0}
      /\ file \in DOMAIN files /\ file[2] <= file_index /\ key[1] = file[1]
      /\ key \notin Stored /\ files[file] \in Nat /\ files[file] <= end
      /\ op' = [op EXCEPT !.stage = "metadata"]
      /\ contents' = With(contents, file, [end |-> end + Size[key], starts |-> starts])
  BY <1>0, OpFacts DEF WriteData, Inv, TypeOK, NothingAhead, SizesWritten, RecordsOK
<1>2. op' \in Ops /\ op'.stage = "metadata" /\ op'.file = file /\ op'.key = key
  BY <1>1 DEF Ops, NoOp
<1>3. /\ end \in Nat
      /\ \A i \in DOMAIN RecordsIn(file) :
            /\ i \in Nat /\ i < end /\ file \in DOMAIN contents
            /\ RecordsIn(file)[i] \in Keys /\ RecordsIn(file)[i][1] = file[1]
  BY FileFacts DEF Inv
<1>4. /\ DOMAIN starts = DOMAIN RecordsIn(file) \cup {end} /\ starts[end] = key
      /\ \A i \in DOMAIN RecordsIn(file) : starts[i] = RecordsIn(file)[i]
  <2>1. /\ DOMAIN starts = DOMAIN RecordsIn(file) \cup {end} /\ starts[end] = key
        /\ \A i \in DOMAIN RecordsIn(file) : i # end => starts[i] = RecordsIn(file)[i]
    BY Zenon DEF With
  <2> QED
    BY <1>3, <2>1
<1> HIDE DEF end, starts
<1>5. /\ DOMAIN contents' = DOMAIN contents \cup {file}
      /\ contents'[file] = [end |-> end + Size[key], starts |-> starts]
      /\ \A f \in DOMAIN contents : f # file => contents'[f] = contents[f]
  BY <1>1, Zenon DEF With
<1>6. /\ EndOf(file)' = end + Size[key] /\ RecordsIn(file)' = starts
      /\ \A f : f # file => EndOf(f)' = EndOf(f) /\ RecordsIn(f)' = RecordsIn(f)
  BY <1>2, <1>5 DEF EndOf, RecordsIn
<1>7. Stored' = Stored /\ \A k \in Stored : Read(k)' = Read(k)
  <2>1. Stored' = Stored
    BY <1>1 DEF Stored
  <2>2. ASSUME NEW k \in Stored PROVE Read(k)' = Read(k)
    <3>1. locations[k].index < EndOf(locations[k].file)
      BY PlaceFacts
    <3>2. CASE locations[k].file = file
      <4>1. locations[k].index # end
        BY <1>3, <3>1, <3>2, PlaceFacts DEF end
      <4> QED
        BY <1>1, <1>4, <1>6, <3>2, <4>1 DEF Read
    <3>3. CASE locations[k].file # file
      BY <1>1, <1>6, <3>3 DEF Read
    <3> QED
      BY <3>2, <3>3
  <2> QED
    BY <2>1, <2>2
<1>8. TypeOK' /\ CurrentFileRecorded'
  BY <1>1, <1>2, <1>5 DEF Inv, TypeOK, Stored, CurrentFileRecorded, BlockFile
<1>9. NothingAhead'
  BY <1>1, <1>2, <1>5 DEF Inv, NothingAhead
<1>10. RecordsOK'
  <2>1. ASSUME NEW f \in DOMAIN contents'
        PROVE  /\ contents'[f].end \in Nat
               /\ \A i \in DOMAIN contents'[f].starts :
                     /\ i \in Nat /\ i < contents'[f].end
                     /\ contents'[f].starts[i] \in Keys
                     /\ contents'[f].starts[i][1] = f[1]
    <3>1. CASE f = file
      BY <1>1, <1>3, <1>4, <1>5, <3>1
    <3>2. CASE f # file
      BY <1>5, <3>2 DEF Inv, RecordsOK
    <3> QED
      BY <3>1, <3>2
  <2> QED
    BY <1>1, <1>2, <1>7, <2>1 DEF Inv, RecordsOK
<1>11. SizesWritten'
  <2>1. \A f \in DOMAIN files : f # file => files[f] <= EndOf(f)'
    BY <1>6 DEF Inv, SizesWritten
  <2>2. files[file] + Size[key] <= EndOf(file)' /\ files[file] <= EndOf(file)'
    BY <1>1, <1>3, <1>6 DEF end
  <2> QED
    BY <1>1, <1>2, <2>1, <2>2 DEF SizesWritten
<1>12. LocationsWithin'
  BY <1>1, <1>2, <1>7 DEF Inv, LocationsWithin, Before
<1>13. \A f \in DOMAIN files : Aligned(f)' <=> Aligned(f)
  <2>1. \A f \in DOMAIN files : f # file => (Aligned(f)' <=> Aligned(f))
    BY <1>1, <1>2, <1>6 DEF Aligned
  <2>2. Aligned(file)' <=> Aligned(file)
    BY <1>1, <1>2, <1>3, <1>6 DEF Aligned, end
  <2> QED
    BY <2>1, <2>2
<1>14. AlignedOK'
  <2>1. Aligned(file)' => StartsAt(file, files[file], key)'
    <3>1. Aligned(file) => files[file] = end
      BY <1>1 DEF Aligned, end
    <3> QED
      BY <1>1, <1>2, <1>4, <1>6, <1>13, <3>1 DEF StartsAt
  <2>2. ReadsBackAligned'
    <3>1. \A k \in Stored : locations[k].file \in DOMAIN files
      BY PlaceFacts
    <3> QED
      BY <1>1, <1>7, <1>13, <3>1 DEF Inv, AlignedOK, ReadsBackAligned
  <2> QED
    BY <1>1, <1>2, <2>1, <2>2 DEF AlignedOK
<1>15. Records!Flush(key)
  <2>1. Insertion = Records!NotWriting /\ Insertion' = [stage |-> "flushed", key |-> key]
    BY <1>1, <1>2 DEF Insertion, NoOp, Records!NotWriting
  <2>2. Flushed' = Flushed \cup {key}
    <3>1. ASSUME NEW x \in Flushed' PROVE x \in Flushed \cup {key}
      <4>1. PICK f \in DOMAIN contents' : \E i \in DOMAIN contents'[f].starts :
                x = contents'[f].starts[i]
        BY <3>1 DEF Flushed
      <4>2. CASE f = file
        BY <1>3, <1>4, <1>5, <4>1, <4>2 DEF Flushed, RecordsIn
      <4>3. CASE f # file
        BY <1>5, <4>1, <4>3 DEF Flushed
      <4> QED
        BY <4>2, <4>3
    <3>2. ASSUME NEW x \in Flushed PROVE x \in Flushed'
      <4>1. PICK f \in DOMAIN contents : \E i \in DOMAIN contents[f].starts :
                x = contents[f].starts[i]
        BY <3>2 DEF Flushed
      <4>2. \E i \in DOMAIN contents'[f].starts : x = contents'[f].starts[i]
        <5>1. CASE f = file
          BY <1>4, <1>5, <4>1, <5>1 DEF RecordsIn
        <5>2. CASE f # file
          BY <1>5, <4>1, <5>2
        <5> QED
          BY <5>1, <5>2
      <4> QED
        BY <1>5, <4>2 DEF Flushed
    <3>3. key \in Flushed'
      BY <1>4, <1>5 DEF Flushed
    <3> QED
      BY <3>1, <3>2, <3>3
  <2>3. CutKinds' = CutKinds
    BY <1>1, <1>13 DEF CutKinds
  <2>4. RecordsRead' = RecordsRead /\ DOMAIN RecordsRead = Stored
    BY <1>7 DEF RecordsRead
  <2> QED
    BY <1>1, <2>1, <2>2, <2>3, <2>4 DEF Records!Flush, Records!Stored
<1> QED
  BY <1>1, <1>8, <1>9, <1>10, <1>11, <1>12, <1>14, <1>15 DEF Inv

(* The place given is the end of the recorded size, which moves past it.   *)
LEMMA PutMetadataInv ==
    ASSUME Inv, PutMetadata
    PROVE  Inv' /\ Records!PutSize
<1>0. PICK file, key : file = op.file /\ key = op.key
  OBVIOUS
<1>1. /\ file = op.file /\ key = op.key
      /\ UNCHANGED <<file_index, locations, contents, crashes>>
      /\ op.stage = "metadata" /\ op \in Ops
      /\ key \in Keys /\ Size[key] \in Nat \ {0} /\ file \in FileNames
      /\ file[2] <= file_index /\ key[1] = file[1] /\ key \notin Stored
      /\ file \in DOMAIN files /\ files[file] \in Nat
      /\ files[file] + Size[key] <= EndOf(file)
      /\ files' = [files EXCEPT ![file] = @ + Size[key]]
      /\ op' = [stage |-> "location", key |-> key, file |-> file, index |-> files[file]]
  BY <1>0, OpFacts DEF PutMetadata, Inv, TypeOK, NothingAhead, SizesWritten, RecordsOK
<1>2. /\ \A f : EndOf(f)' = EndOf(f) /\ RecordsIn(f)' = RecordsIn(f)
      /\ Stored' = Stored /\ \A k : Read(k)' = Read(k)
  BY <1>1, SameContents, SameReads
<1>3. /\ DOMAIN files' = DOMAIN files /\ files'[file] = files[file] + Size[key]
      /\ \A f \in DOMAIN files : f # file => files'[f] = files[f]
  BY <1>1
<1>4. TypeOK' /\ CurrentFileRecorded' /\ NothingAhead'
  BY <1>1, <1>3 DEF Inv, TypeOK, Ops, Stored, CurrentFileRecorded, BlockFile, NothingAhead
<1>5. RecordsOK' /\ SizesWritten'
  BY <1>1, <1>2, <1>3 DEF Inv, RecordsOK, SizesWritten
<1>6. LocationsWithin'
  <2>1. ASSUME NEW k \in Stored
        PROVE  /\ locations[k].file \in DOMAIN files'
               /\ locations[k].index + Size[k] <= files'[locations[k].file]
               /\ locations[k].file = file => locations[k].index + Size[k] <= files[file]
    BY <1>1, <1>3, PlaceFacts
  <2> QED
    BY <1>1, <1>2, <1>3, <2>1 DEF Inv, LocationsWithin, Before, Apart
<1>7. \A f \in DOMAIN files : Aligned(f)' <=> Aligned(f)
  <2>1. \A f \in DOMAIN files : f # file => (Aligned(f)' <=> Aligned(f))
    BY <1>1, <1>2, <1>3 DEF Aligned
  <2>2. Aligned(file)' <=> Aligned(file)
    BY <1>1, <1>2, <1>3 DEF Aligned
  <2> QED
    BY <2>1, <2>2
<1>8. AlignedOK'
  <2>1. Aligned(file)' => StartsAt(file, files[file], key)
    BY <1>1, <1>7 DEF Inv, AlignedOK
  <2>2. \A k \in Stored : locations[k].file \in DOMAIN files
    BY PlaceFacts
  <2> QED
    BY <1>1, <1>2, <1>7, <2>1, <2>2 DEF Inv, AlignedOK, ReadsBackAligned, StartsAt
<1>9. Records!PutSize
  <2>1. /\ Insertion = [stage |-> "flushed", key |-> key]
        /\ Insertion' = [stage |-> "sized", key |-> key]
    BY <1>1 DEF Insertion
  <2>2. UNCHANGED <<RecordsRead, Flushed, CutKinds>>
    BY <1>1, <1>2, <1>3, <1>7 DEF RecordsRead, Flushed, CutKinds
  <2> QED
    BY <2>1, <2>2 DEF Records!PutSize
<1> QED
  BY <1>4, <1>5, <1>6, <1>8, <1>9 DEF Inv

(* The key gets the place that was made for it. *)
LEMMA PutLocationInv ==
    ASSUME Inv, PutLocation
    PROVE  Inv' /\ Records!PutLocation
<1>0. PICK file, key : file = op.file /\ key = op.key
  OBVIOUS
<1> DEFINE place == [file |-> file, index |-> op.index]
<1>1. /\ file = op.file /\ key = op.key
      /\ UNCHANGED <<file_index, files, contents, crashes>>
      /\ op.stage = "location" /\ op' = NoOp /\ op'.stage = "none"
      /\ key \in Keys /\ Size[key] \in Nat \ {0} /\ file \in FileNames /\ op.index \in Nat
      /\ key[1] = file[1] /\ key \notin Stored
      /\ file \in DOMAIN files /\ op.index + Size[key] <= files[file]
      /\ \A k \in Stored : Apart(k, file, op.index)
      /\ locations' = With(locations, key, place)
  BY <1>0, OpFacts DEF PutLocation, NoOp, Inv, TypeOK, SizesWritten, LocationsWithin, RecordsOK
<1>2. place \in [file : FileNames, index : Nat] /\ place.file = file /\ place.index = op.index
  BY <1>1
<1> HIDE DEF place
<1>3. /\ Stored' = Stored \cup {key} /\ locations'[key] = place
      /\ \A k \in Stored : locations'[k] = locations[k]
  <2>1. /\ Stored' = Stored \cup {key} /\ locations'[key] = place
        /\ \A k \in Stored : k # key => locations'[k] = locations[k]
    BY <1>1, Zenon DEF With, Stored
  <2> QED
    BY <1>1, <2>1
<1>4. /\ \A f : EndOf(f)' = EndOf(f) /\ RecordsIn(f)' = RecordsIn(f)
      /\ \A k \in Stored : Read(k)' = Read(k)
  BY <1>1, <1>3, SameContents DEF Read
<1>5. TypeOK'
  BY <1>1, <1>2, <1>3 DEF Inv, TypeOK, Ops, Stored
<1>6. CurrentFileRecorded' /\ NothingAhead' /\ SizesWritten'
  BY <1>1, <1>4 DEF Inv, CurrentFileRecorded, BlockFile, NothingAhead, SizesWritten
<1>7. RecordsOK'
  BY <1>1, <1>2, <1>3 DEF Inv, RecordsOK
<1>8. LocationsWithin'
  <2>1. \A k \in Stored : locations[k].file = file =>
            \/ locations[k].index + Size[k] <= op.index
            \/ op.index + Size[key] <= locations[k].index
    BY <1>1 DEF Apart
  <2>2. ASSUME NEW k1 \in Stored', NEW k2 \in Stored', k1 # k2,
               locations'[k1].file = locations'[k2].file
        PROVE  Before(k1, k2)' \/ Before(k2, k1)'
    <3>1. CASE k1 \in Stored /\ k2 \in Stored
      BY <1>3, <2>2, <3>1 DEF Inv, LocationsWithin, Before
    <3>2. CASE k1 = key
      BY <1>2, <1>3, <2>1, <2>2, <3>2 DEF Before
    <3>3. CASE k2 = key
      BY <1>2, <1>3, <2>1, <2>2, <3>3 DEF Before
    <3> QED
      BY <1>3, <3>1, <3>2, <3>3
  <2>3. \A k \in Stored' : /\ locations'[k].file \in DOMAIN files
                           /\ locations'[k].index + Size[k] <= files[locations'[k].file]
    BY <1>1, <1>2, <1>3 DEF Inv, LocationsWithin
  <2> QED
    BY <1>1, <2>2, <2>3 DEF LocationsWithin
<1>9. \A f \in DOMAIN files : Aligned(f)' <=> Aligned(f)
  BY <1>1, <1>4 DEF Aligned
<1>10. Aligned(file) => Read(key)' = key
  <2>1. Aligned(file) => StartsAt(file, op.index, key)
    BY <1>1 DEF Inv, AlignedOK
  <2> QED
    BY <1>1, <1>2, <1>3, <1>4, <2>1 DEF Read, StartsAt
<1>11. AlignedOK'
  <2>1. \A k \in Stored : locations[k].file \in DOMAIN files
    BY PlaceFacts
  <2> QED
    BY <1>1, <1>2, <1>3, <1>4, <1>9, <1>10, <2>1 DEF Inv, AlignedOK, ReadsBackAligned
<1>12. Records!PutLocation
  <2>1. Insertion = [stage |-> "sized", key |-> key] /\ Insertion' = Records!NotWriting
    BY <1>1 DEF Insertion, NoOp, Records!NotWriting
  <2>2. UNCHANGED <<Flushed, CutKinds>>
    BY <1>1, <1>9 DEF Flushed, CutKinds
  <2>3. Read(key)' \in Records!FoundFor(key)
    <3>1. CASE key[1] \in CutKinds
      <4>1. CASE Read(key)' = Garbled
        BY <3>1, <4>1 DEF Records!FoundFor
      <4>2. CASE Read(key)' # Garbled
        <5>1. /\ op.index \in DOMAIN RecordsIn(file)
              /\ Read(key)' = RecordsIn(file)[op.index]
          BY <1>2, <1>3, <1>4, <4>2 DEF Read
        <5>2. /\ file \in DOMAIN contents /\ RecordsIn(file)[op.index][1] = file[1]
          BY <5>1, FileFacts DEF Inv
        <5>3. RecordsIn(file)[op.index] \in Flushed
          BY <5>1, <5>2 DEF Flushed, RecordsIn
        <5> QED
          BY <1>1, <3>1, <5>1, <5>2, <5>3 DEF Records!FoundFor
      <4> QED
        BY <4>1, <4>2
    <3>2. CASE key[1] \notin CutKinds
      <4>1. Aligned(file)
        BY <1>1, <3>2 DEF CutKinds
      <4> QED
        BY <1>10, <3>2, <4>1 DEF Records!FoundFor
    <3> QED
      BY <3>1, <3>2
  <2>4. RecordsRead' = [k \in Stored \cup {key} |-> IF k = key THEN Read(key)' ELSE RecordsRead[k]]
    BY <1>1, <1>3, <1>4 DEF RecordsRead
  <2>5. DOMAIN RecordsRead = Stored
    BY DEF RecordsRead
  <2> QED
    BY <2>1, <2>2, <2>3, <2>4, <2>5 DEF Records!PutLocation, Records!Stored
<1> QED
  BY <1>5, <1>6, <1>7, <1>8, <1>11, <1>12 DEF Inv

(* A kill keeps what is on disk and forgets the insertion.  If the data is *)
(* there and the size is not, the file is out of line from now on.         *)
LEMMA RestartInv ==
    ASSUME Inv, Restart
    PROVE  Inv' /\ Records!Kill
<1>1. /\ UNCHANGED <<file_index, files, locations, contents>>
      /\ op' = NoOp /\ op'.stage = "none"
      /\ crashes' \in 0 .. MaxCrashes
  BY LimitAssumption DEF Restart, NoOp, Inv, TypeOK
<1>2. /\ \A f : EndOf(f)' = EndOf(f) /\ RecordsIn(f)' = RecordsIn(f)
      /\ Stored' = Stored /\ \A k : Read(k)' = Read(k)
  BY <1>1, SameContents, SameReads
<1>3. \A f \in DOMAIN files :
          Aligned(f)' <=> (Aligned(f) /\ ~ (op.stage = "metadata" /\ op.file = f))
  <2>1. \A f \in DOMAIN files : Aligned(f)' <=> EndOf(f) = files[f]
    BY <1>1, <1>2 DEF Aligned
  <2>2. CASE op.stage = "metadata"
    <3>1. Size[op.key] \in Nat \ {0} /\ op.file \in DOMAIN files /\ files[op.file] \in Nat
          /\ files[op.file] + Size[op.key] <= EndOf(op.file) /\ EndOf(op.file) \in Nat
      BY <2>2, OpFacts, FileFacts DEF Inv, TypeOK, SizesWritten
    <3> QED
      BY <2>1, <2>2, <3>1 DEF Aligned
  <2>3. CASE op.stage # "metadata"
    BY <2>1, <2>3 DEF Aligned
  <2> QED
    BY <2>2, <2>3
<1>4. Inv'
  <2>1. TypeOK' /\ CurrentFileRecorded' /\ NothingAhead' /\ RecordsOK'
    BY <1>1, <1>2 DEF Inv, TypeOK, Ops, Stored, CurrentFileRecorded, BlockFile, NothingAhead,
                      RecordsOK
  <2>2. SizesWritten' /\ LocationsWithin'
    BY <1>1, <1>2 DEF Inv, SizesWritten, LocationsWithin, Before
  <2>3. \A k \in Stored : locations[k].file \in DOMAIN files
    BY PlaceFacts
  <2>4. AlignedOK'
    BY <1>1, <1>2, <1>3, <2>3 DEF Inv, AlignedOK, ReadsBackAligned
  <2> QED
    BY <2>1, <2>2, <2>4 DEF Inv
<1>5. Records!Kill
  <2>1. Insertion' = Records!NotWriting
    BY <1>1 DEF Insertion, NoOp, Records!NotWriting
  <2>2. UNCHANGED <<RecordsRead, Flushed>>
    BY <1>1, <1>2 DEF RecordsRead, Flushed
  <2>3. CASE op.stage = "metadata"
    <3>1. Insertion.stage = "flushed" /\ Insertion.key = op.key
      BY <2>3 DEF Insertion
    <3>2. op.file \in DOMAIN files /\ op.file[1] = op.key[1]
      BY <2>3 DEF Inv, SizesWritten, RecordsOK
    <3>3. CutKinds' = CutKinds \cup {op.key[1]}
      BY <1>1, <1>3, <2>3, <3>2 DEF CutKinds
    <3> QED
      BY <2>1, <2>2, <3>1, <3>3 DEF Records!Kill
  <2>4. CASE op.stage # "metadata"
    <3>1. Insertion.stage # "flushed"
      BY <2>4 DEF Insertion, NoOp
    <3>2. CutKinds' = CutKinds
      BY <1>1, <1>3, <2>4 DEF CutKinds
    <3> QED
      BY <2>1, <2>2, <3>1, <3>2 DEF Records!Kill
  <2> QED
    BY <2>3, <2>4
<1> QED
  BY <1>4, <1>5
-----------------------------------------------------------------------------

(* Every step of block_db keeps the conjunction, and is one of RecordStore *)
(* or not seen by it.                                                      *)
LEMMA NextInv ==
    Inv /\ [Next]_vars =>
        Inv' /\ [Records!Next]_<<RecordsRead, Insertion, Flushed, CutKinds>>
<1> SUFFICES ASSUME Inv, [Next]_vars
             PROVE  Inv' /\ (Records!Next \/ Quiet)
  BY DEF Quiet
<1>1. CASE UNCHANGED vars
  <2>1. /\ \A f : EndOf(f)' = EndOf(f) /\ RecordsIn(f)' = RecordsIn(f)
        /\ Stored' = Stored /\ \A k : Read(k)' = Read(k)
    BY <1>1, SameContents, SameReads DEF vars
  <2>2. \A f : Aligned(f)' <=> Aligned(f)
    BY <1>1, <2>1 DEF vars, Aligned
  <2>3. TypeOK' /\ CurrentFileRecorded' /\ NothingAhead' /\ RecordsOK'
    BY <1>1, <2>1 DEF vars, Inv, TypeOK, Stored, CurrentFileRecorded, BlockFile, NothingAhead,
                      RecordsOK
  <2>4. SizesWritten' /\ LocationsWithin' /\ AlignedOK'
    BY <1>1, <2>1, <2>2 DEF vars, Inv, SizesWritten, LocationsWithin, Before, Apart, AlignedOK,
                            ReadsBackAligned, StartsAt
  <2>5. Quiet
    BY <1>1, <2>1, <2>2 DEF vars, Quiet, RecordsRead, Insertion, Flushed, CutKinds
  <2> QED
    BY <2>3, <2>4, <2>5 DEF Inv
<1>2. CASE WriteData
  <2>1. Inv' /\ Records!Flush(op.key) /\ op.key \in Keys
    BY <1>2, WriteDataInv
  <2> QED
    BY <2>1 DEF Records!Next, Records!Keys, Records!Kinds, Keys, Kinds
<1>3. CASE PutMetadata \/ PutLocation \/ Restart
  BY <1>3, PutMetadataInv, PutLocationInv, RestartInv DEF Records!Next
<1> QED
  BY <1>1, <1>2, <1>3, AddBlockInv, AddRevBlockInv, PutFileIndexInv DEF Next

(* The conjunction holds in every execution of block_db. *)
THEOREM Invariance == Spec => []Inv
<1>1. Inv /\ [Next]_vars => Inv'
  BY NextInv
<1> QED
  BY <1>1, InitInv, PTL DEF Spec

(* The types of block_db's records, in every execution; nothing is in a    *)
(* file without a record.                                                  *)
THEOREM TypeCorrect == Spec => []TypeOK
<1>1. Inv => TypeOK
  BY DEF Inv
<1> QED
  BY <1>1, Invariance, PTL

(* __find_block_file always finds the record of the current file, wherever *)
(* the process was killed.                                                 *)
THEOREM CurrentFileIsRecorded == Spec => []CurrentFileRecorded
<1>1. Inv => CurrentFileRecorded
  BY DEF Inv
<1> QED
  BY <1>1, Invariance, PTL

(* No byte belongs to two keys and none is beyond the end of its file,     *)
(* whatever kills cut off between the write, the size and the location.    *)
THEOREM LocationsAreSound == Spec => []LocationsSound
<1>1. Inv => LocationsSound
  <2> SUFFICES ASSUME Inv PROVE LocationsSound
    OBVIOUS
  <2>1. ASSUME NEW key \in Stored
        PROVE  locations[key].index + Size[key] <= EndOf(locations[key].file)
    BY PlaceFacts
  <2> QED
    BY <2>1 DEF Inv, LocationsSound, LocationsWithin
<1> QED
  BY <1>1, Invariance, PTL

(* get_block and get_rev_block return what add_block and add_rev_block     *)
(* stored in a file that no kill caught between its write and its size.    *)
THEOREM ReadsBackIfAligned == Spec => []ReadsBackAligned
<1>1. Inv => ReadsBackAligned
  BY DEF Inv, AlignedOK
<1> QED
  BY <1>1, Invariance, PTL

(* block_db keeps the promise of RecordStore, for records of any sizes in  *)
(* any number of files: what is read of a stored key never changes, and it *)
(* is wrong only where RecordStore says that it may be.                    *)
THEOREM ImplementsTheRecordStore == Spec => ImplementsRecordStore
<1>1. Init => Records!Init
  BY DEF Init, Records!Init, RecordsRead, Insertion, Flushed, CutKinds, Stored, NoOp,
         Records!NotWriting
<1>2. Inv /\ [Next]_vars => [Records!Next]_<<RecordsRead, Insertion, Flushed, CutKinds>>
  BY NextInv
<1> QED
  BY <1>1, <1>2, Invariance, PTL
     DEF Spec, ImplementsRecordStore, Records!Spec, Records!storeVars
=============================================================================
