\* cache() on the PublicKey, every flag sent, commands that fail.
SPECIFICATION Spec
CONSTANTS
    me = me
    other = other
    NoOne = NoOne
    None = None
    Cached = {"public"}
    Timed = {"self"}
    Sends <- AllFlags
    MayFail = TRUE
    MaxPuts = 3
INVARIANTS
    TypeOK
    ReadsWhatWasPut
    DeletedIsGone
    OneRecordPerKey
    RecordFitsItsName
    NamesComeBack
    OthersFindIt
CHECK_DEADLOCK FALSE
