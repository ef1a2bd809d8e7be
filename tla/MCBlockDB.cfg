CONSTANTS
    Hashes <- MCHashes
    Garbled = Garbled
    Size <- MCSize
    FileLimit = 1
    MaxCrashes = 2
SPECIFICATION Spec
INVARIANTS
    TypeOK
    CurrentFileRecorded
    LocationsSound
    ReadsBackAligned
PROPERTIES
    ImplementsRecordStore
CHECK_DEADLOCK FALSE
