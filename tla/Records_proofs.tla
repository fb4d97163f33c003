--------------------------- MODULE Records_proofs ---------------------------
(***************************************************************************)
(* Proofs about Records: for any number of puts, with commands that fail   *)
(* or not, whichever key objects have a time to live.                      *)
(*                                                                         *)
(* Types need no hypothesis.  What is said of names needs a server that    *)
(* sends isPublic: a PublicKey it sends no such flag for names a record of *)
(* another kind after its first get.  What is said of the values also      *)
(* needs that cache() is called on no SharedKey: one that it was called on *)
(* is put under one name and deleted under another (MCRecordsCached).  And *)
(* that isEncrypted of a record is right needs a server that sends it.     *)
(* Whether the server sends isCached never matters.                        *)
(***************************************************************************)
EXTENDS Records, TLAPS

-----------------------------------------------------------------------------
(* The invariant. *)

\* The server sends isPublic with the metadata.
TellsPublic == "isPublic" \in Sends

\* It sends isEncrypted with them.
TellsEncrypted == "isEncrypted" \in Sends

\* The application calls cache() on its SharedKey.
CachesShared == "shared" \in Cached

\* Is the public key cached?  All its key objects say the same, and its name.
PublicCached == keys["public"].metadata.isCached

\* A full name that one of the calls here gives.
ProperName(n) ==
    /\ n.public => n.with = NoOne /\ n.cached = PublicCached
    /\ ~n.public => ~n.cached

\* The metadata of a key object fit its class.
ProperKey(key) ==
    /\ key.type = "public" =>
          /\ key.with = NoOne
          /\ key.metadata.isPublic = TRUE
          /\ key.metadata.isCached = PublicCached
    /\ key.type # "public" =>
          /\ key.with \in IF key.type = "self" THEN {NoOne, me} ELSE {other}
          /\ key.metadata.isPublic = FALSE
          /\ key.metadata.isCached => key.type = "shared" /\ CachesShared
    /\ TellsEncrypted => key.metadata.isEncrypted = (key.type # "public")

\* The kind of record a name tells of.
KindOf(n) == IF KeyType(n) = "public" THEN "nothing" ELSE KeyType(n)

\* A record of that kind, which says how to read it.
ProperRecord(n, record) ==
    /\ record.with = KindOf(n)
    /\ TellsEncrypted => record.isEncrypted = (record.with # "nothing")
    /\ record.with # "nothing" =>
          record.under = (IF record.iv = None THEN LegacyIv ELSE record.iv)

\* Each slot holds a proper key object, and those the application made stay what they are.
KeysFit ==
    /\ \A s \in Slots : keys[s] # None => ProperKey(keys[s])
    /\ \A s \in Made :
          keys[s].type = InitialKey(s).type /\ keys[s].with = InitialKey(s).with

\* Each record has a proper name, and is of its kind.
StoreFits ==
    \A n \in Names : store[n] # None => ProperName(n) /\ ProperRecord(n, store[n])

\* What is stored under a proper name is what was last put; unless a delete has missed it,
\* which takes a SharedKey that cache() was called on.
LatestFits ==
    \A n \in Names : ProperName(n) =>
        /\ latest[TheKey(n)] # None => store[n] # None /\ store[n].value = latest[TheKey(n)]
        /\ store[n] # None /\ latest[TheKey(n)] = None => CachesShared

\* While cache() may still be called, nothing public has been stored or found.
FreshFits ==
    "public" \in fresh =>
        /\ \A n \in Names : n.public => store[n] = None
        /\ keys["found"] # None => keys["found"].type # "public"
        /\ scanned # None => ~scanned.public

\* What scan has brought back is a proper name.
ScanFits == scanned # None => ProperName(scanned)

\* What the theorems follow from: no single property is inductive, as the next name
\* depends on the flags of a key object, and these on the record they were read from.
RecordsInv == KeysFit /\ StoreFits /\ LatestFits /\ FreshFits /\ ScanFits

-----------------------------------------------------------------------------
(* Metadata, names and key objects. *)

\* A field that has a number or a flag is not None, so squash keeps it.
LEMMA NoneIsNoField ==
    /\ \A i \in {0, 1} : i # None
    /\ \A b \in BOOLEAN : b # None
  <1>1. \A i \in {0, 1} : i # None
    BY NoneAssumption
  <1>2. \A b \in BOOLEAN : b # None
    BY NoneAssumption
  <1> QED
    BY <1>1, <1>2

\* Metadata.squash, field by field: the first one's, where it has one.
LEMMA SquashFields ==
    ASSUME NEW first, NEW second
    PROVE  LET m == Squash(first, second) IN
           /\ m.ttl = IF first.ttl # None THEN first.ttl ELSE second.ttl
           /\ m.isPublic = IF first.isPublic # None THEN first.isPublic ELSE second.isPublic
           /\ m.isCached = IF first.isCached # None THEN first.isCached ELSE second.isCached
           /\ m.isEncrypted = IF first.isEncrypted # None
                               THEN first.isEncrypted ELSE second.isEncrypted
           /\ m.iv = IF first.iv # None THEN first.iv ELSE second.iv
  BY DEF Squash, Fields

\* What squash makes is metadata, if each field is one.
LEMMA SquashTyped ==
    ASSUME NEW first, NEW second,
           LET m == Squash(first, second) IN
           /\ m.ttl \in {0, 1}
           /\ m.isPublic \in BOOLEAN
           /\ m.isCached \in BOOLEAN
           /\ m.isEncrypted \in BOOLEAN
           /\ m.iv \in Ivs \cup {None}
    PROVE  Squash(first, second) \in Metadata
  BY DEF Squash, Fields, Metadata

\* The flags a constructor gives a key object.
NewlyFlagged(key) ==
    /\ key.metadata.isCached = FALSE
    /\ key.type = "public" =>
           key.metadata.isPublic = TRUE /\ key.metadata.isEncrypted = FALSE
    /\ key.type # "public" =>
           key.metadata.isPublic = FALSE /\ key.metadata.isEncrypted = TRUE

\* What a constructor makes is a key object.
LEMMA NewKeys ==
    ASSUME NEW type \in {"public", "self", "shared"}, NEW with \in {me, other, NoOne}
    PROVE  /\ NewKey(type, with) \in AtKeys
           /\ NewKey(type, with).type = type /\ NewKey(type, with).with = with
           /\ NewlyFlagged(NewKey(type, with))
  <1> DEFINE metadata == [ttl |-> 0, isPublic |-> type = "public", isCached |-> FALSE,
                          isEncrypted |-> type # "public", iv |-> None]
  <1>1. NewKey(type, with) = [type |-> type, with |-> with, metadata |-> metadata]
    BY DEF NewKey
  <1>2. metadata \in Metadata
    BY DEF Metadata
  <1>3. /\ metadata.isCached = FALSE
        /\ type = "public" => metadata.isPublic = TRUE /\ metadata.isEncrypted = FALSE
        /\ type # "public" => metadata.isPublic = FALSE /\ metadata.isEncrypted = TRUE
    OBVIOUS
  <1> HIDE DEF metadata
  <1> QED
    BY <1>1, <1>2, <1>3 DEF AtKeys, NewlyFlagged

\* What TheKey leaves of a name.
LEMMA KeyFields ==
    ASSUME NEW n \in Names
    PROVE  /\ TheKey(n) \in Names
           /\ TheKey(n) = [cached |-> FALSE, public |-> n.public, with |-> n.with]
  <1>1. TheKey(n) \in Names
    BY DEF TheKey, Names
  <1>2. TheKey(n).cached = FALSE /\ TheKey(n).public = n.public /\ TheKey(n).with = n.with
    BY DEF TheKey, Names
  <1> QED
    BY <1>1, <1>2 DEF Names

\* A key object names what the application has in mind, under a proper name.
LEMMA NamesOfKeys ==
    ASSUME NEW key \in AtKeys, ProperKey(key), PublicCached \in BOOLEAN
    PROVE  /\ ~(key.type = "shared" /\ key.metadata.isCached) => NameOf(key) = Built(key)
           /\ NameOf(key) \in Names
           /\ ProperName(NameOf(key))
           /\ NameOf(key).public = (key.type = "public")
           /\ key.type # "shared" => NameOf(key).cached = key.metadata.isCached
           /\ TheKey(NameOf(key)) = Intended(key)
           /\ KindOf(NameOf(key)) = IF key.type = "public" THEN "nothing" ELSE key.type
  <1> DEFINE n == NameOf(key)
  <1>1. key.type \in {"public", "self", "shared"} /\ key.with \in {me, other, NoOne}
    BY DEF AtKeys
  <1>2. key.metadata.isCached \in BOOLEAN /\ key.metadata.isPublic = (key.type = "public")
    BY <1>1 DEF AtKeys, Metadata, ProperKey
  <1>3. n = [cached |-> (key.type # "shared" /\ key.metadata.isCached),
             public |-> (key.type = "public"), with |-> key.with]
    <2>1. CASE key.type = "shared"
      BY <1>2, <2>1 DEF NameOf, Str
    <2>2. CASE key.type # "shared"
      BY <1>2, <2>2 DEF NameOf, Built
    <2> QED
      BY <2>1, <2>2
  <1>4. ~(key.type = "shared" /\ key.metadata.isCached) => n = Built(key)
    BY <1>2, <1>3 DEF Built
  <1>5. /\ n \in Names
        /\ n.cached = (key.type # "shared" /\ key.metadata.isCached)
        /\ n.public = (key.type = "public") /\ n.with = key.with
    BY <1>1, <1>2, <1>3 DEF Names
  <1> HIDE DEF n
  <1>6. ProperName(n)
    BY <1>1, <1>2, <1>5 DEF ProperName, ProperKey
  <1>7. TheKey(n) = Intended(key)
    <2>1. TheKey(n) = [cached |-> FALSE, public |-> n.public, with |-> n.with]
      BY <1>5, KeyFields
    <2>2. CASE key.type = "public"
      BY <1>5, <2>1, <2>2 DEF Intended, ProperKey
    <2>3. CASE key.type # "public"
      BY <1>5, <2>1, <2>3 DEF Intended, ProperKey
    <2> QED
      BY <2>2, <2>3
  <1>8. KindOf(n) = IF key.type = "public" THEN "nothing" ELSE key.type
    <2>1. CASE key.type = "public"
      BY <1>5, <2>1 DEF KindOf, KeyType
    <2>2. CASE key.type # "public"
      BY <1>1, <1>5, <2>2, AtSignAssumption DEF KindOf, KeyType, ProperKey
    <2> QED
      BY <2>1, <2>2
  <1>9. key.type # "shared" => n.cached = key.metadata.isCached
    BY <1>2, <1>5
  <1> QED
    BY <1>4, <1>5, <1>6, <1>7, <1>8, <1>9 DEF n

\* A key has one proper name.
LEMMA OneProperName ==
    ASSUME NEW m \in Names, NEW n \in Names, ProperName(m), ProperName(n), TheKey(m) = TheKey(n)
    PROVE  m = n
  <1>1. m.public = n.public /\ m.with = n.with
    BY DEF Names, TheKey
  <1>2. m.cached = n.cached
    BY <1>1 DEF Names, ProperName
  <1> QED
    BY <1>1, <1>2 DEF Names

\* A proper name names itself, in the key object get_at_keys makes and at the prompt.
LEMMA KeysOfNames ==
    ASSUME NEW n \in Names, ProperName(n)
    PROVE  /\ FromString(n) \in AtKeys
           /\ ProperKey(FromString(n))
           /\ NameOf(FromString(n)) = n
           /\ TypedKey(n) \in AtKeys
           /\ ProperKey(TypedKey(n))
           /\ Built(TypedKey(n)) = n
           /\ NameOf(TypedKey(n)) = n
           /\ FromString(n).type = KeyType(n)
           /\ TypedKey(n).type = KeyType(n)
  <1> USE AtSignAssumption, NoneAssumption
      DEF AtKeys, Metadata, ProperKey, ProperName, NameOf, Built, Str, Names, KeyType,
          FromString, TypedKey, SharedKeyFromString, NewKey
  <1>1. CASE n.public
    BY <1>1
  <1>2. CASE ~n.public /\ n.with \in {NoOne, me}
    BY <1>2
  <1>3. CASE ~n.public /\ n.with = other
    BY <1>3
  <1> QED
    BY <1>1, <1>2, <1>3

-----------------------------------------------------------------------------
(* The records, as puts and deletes change them. *)

\* A proper record is stored under a proper name.
LEMMA StoreStep ==
    ASSUME StoreFits, LatestFits, store \in [Names -> Records \cup {None}],
           latest \in [Names -> 1..MaxPuts \cup {None}],
           PublicCached' = PublicCached,
           NEW n \in Names, ProperName(n), NEW record \in Records, ProperRecord(n, record),
           store' = [store EXCEPT ![n] = record],
           latest' = [latest EXCEPT ![TheKey(n)] = record.value]
    PROVE  StoreFits' /\ LatestFits'
  <1>1. \A m \in Names : ProperName(m)' <=> ProperName(m)
    BY DEF ProperName
  <1>2. record # None /\ record.value # None
    BY NothingAssumption, NoneAssumption, BoundAssumption DEF Records
  <1>3. store'[n] = record /\ \A m \in Names : m # n => store'[m] = store[m]
    OBVIOUS
  <1>4. \A m \in Names : ProperName(m) /\ m # n => TheKey(m) # TheKey(n)
    BY OneProperName
  <1>5. /\ latest'[TheKey(n)] = record.value
        /\ \A m \in Names : TheKey(m) # TheKey(n) => latest'[TheKey(m)] = latest[TheKey(m)]
    BY KeyFields
  <1>6. StoreFits'
    BY <1>1, <1>3 DEF StoreFits, ProperRecord
  <1>7. LatestFits'
    BY <1>1, <1>2, <1>3, <1>4, <1>5 DEF LatestFits
  <1> QED
    BY <1>6, <1>7

\* What is stored under a proper name goes.
LEMMA RemoveStep ==
    ASSUME StoreFits, LatestFits, store \in [Names -> Records \cup {None}],
           latest \in [Names -> 1..MaxPuts \cup {None}],
           PublicCached' = PublicCached,
           NEW n \in Names, ProperName(n),
           store' = [store EXCEPT ![n] = None],
           latest' = [latest EXCEPT ![TheKey(n)] = None]
    PROVE  StoreFits' /\ LatestFits'
  <1>1. \A m \in Names : ProperName(m)' <=> ProperName(m)
    BY DEF ProperName
  <1>2. store'[n] = None /\ \A m \in Names : m # n => store'[m] = store[m]
    OBVIOUS
  <1>3. \A m \in Names : ProperName(m) /\ m # n => TheKey(m) # TheKey(n)
    BY OneProperName
  <1>4. /\ latest'[TheKey(n)] = None
        /\ \A m \in Names : TheKey(m) # TheKey(n) => latest'[TheKey(m)] = latest[TheKey(m)]
    BY KeyFields
  <1>5. StoreFits'
    BY <1>1, <1>2 DEF StoreFits, ProperRecord
  <1>6. LatestFits'
    BY <1>1, <1>2, <1>3, <1>4 DEF LatestFits
  <1> QED
    BY <1>5, <1>6

\* A delete that misses the record of its key.
LEMMA LossStep ==
    ASSUME StoreFits, LatestFits, latest \in [Names -> 1..MaxPuts \cup {None}],
           PublicCached' = PublicCached, CachesShared,
           NEW k \in Names, store' = store, latest' = [latest EXCEPT ![k] = None]
    PROVE  StoreFits' /\ LatestFits'
  <1>1. \A m \in Names : ProperName(m)' <=> ProperName(m)
    BY DEF ProperName
  <1>2. \A m \in Names : latest'[TheKey(m)] \in {latest[TheKey(m)], None}
    BY KeyFields
  <1>3. StoreFits'
    BY <1>1 DEF StoreFits, ProperRecord
  <1>4. LatestFits'
    BY <1>1, <1>2 DEF LatestFits
  <1> QED
    BY <1>3, <1>4

\* The records stay.
LEMMA StoreStays ==
    ASSUME StoreFits, LatestFits, PublicCached' = PublicCached, UNCHANGED server
    PROVE  StoreFits' /\ LatestFits'
  <1>1. \A m \in Names : ProperName(m)' <=> ProperName(m)
    BY DEF ProperName
  <1> QED
    BY <1>1 DEF StoreFits, LatestFits, server, ProperRecord

-----------------------------------------------------------------------------
(* The key objects, as calls change them. *)

\* A proper key object is put in a slot.
LEMMA KeyStep ==
    ASSUME KeysFit, TypeOK, NEW s \in Slots, NEW key \in AtKeys, ProperKey(key),
           keys' = [keys EXCEPT ![s] = key],
           s \in Made => key.type = InitialKey(s).type /\ key.with = InitialKey(s).with
    PROVE  KeysFit' /\ PublicCached' = PublicCached
  <1>1. keys \in [Slots -> AtKeys \cup {None}] /\ "public" \in Slots /\ "public" \in Made
    BY DEF TypeOK, Slots, Made
  <1>2. keys'[s] = key /\ \A t \in Slots : t # s => keys'[t] = keys[t]
    BY <1>1
  <1>3. PublicCached' = PublicCached
    BY <1>1, <1>2 DEF PublicCached, KeysFit, ProperKey, InitialKey, NewKey
  <1>4. KeysFit'
    BY <1>1, <1>2, <1>3 DEF KeysFit, ProperKey, Slots
  <1> QED
    BY <1>3, <1>4

\* The IV put gives a key object changes nothing else.
LEMMA IvIsGiven ==
    ASSUME NEW key \in AtKeys, puts \in Nat, puts < MaxPuts
    PROVE  /\ WithIv(key) \in AtKeys
           /\ ProperKey(key) => ProperKey(WithIv(key))
           /\ WithIv(key).type = key.type /\ WithIv(key).with = key.with
           /\ key.type # "public" => WithIv(key).metadata.iv \in Ivs
  <1>1. puts + 1 \in Ivs
    BY BoundAssumption DEF Ivs
  <1>2. CASE WithIv(key) = key
    <2>1. key.type # "public" => key.metadata.iv # None
      <3>1. ASSUME key.type # "public", key.metadata.iv = None
            PROVE  FALSE
        <4>1. WithIv(key) = [key EXCEPT !.metadata.iv = puts + 1]
          BY <3>1 DEF WithIv
        <4>2. WithIv(key).metadata.iv = puts + 1
          BY <4>1 DEF AtKeys, Metadata
        <4> QED
          BY <1>1, <1>2, <3>1, <4>2, NoneAssumption, BoundAssumption DEF Ivs
      <3> QED
        BY <3>1
    <2> QED
      BY <1>2, <2>1 DEF AtKeys, Metadata
  <1>3. CASE WithIv(key) = [key EXCEPT !.metadata.iv = puts + 1]
    <2>1. WithIv(key) \in AtKeys
      BY <1>1, <1>3 DEF AtKeys, Metadata
    <2>2. WithIv(key).metadata.iv = puts + 1
      BY <1>3 DEF AtKeys, Metadata
    <2>3. /\ WithIv(key).type = key.type /\ WithIv(key).with = key.with
          /\ WithIv(key).metadata.isPublic = key.metadata.isPublic
          /\ WithIv(key).metadata.isCached = key.metadata.isCached
          /\ WithIv(key).metadata.isEncrypted = key.metadata.isEncrypted
      BY <1>3 DEF AtKeys, Metadata
    <2>4. ProperKey(key) => ProperKey(WithIv(key))
      BY <2>3 DEF ProperKey
    <2> QED
      BY <1>1, <2>1, <2>2, <2>3, <2>4
  <1> QED
    BY <1>2, <1>3 DEF WithIv

\* What put sends is a record.
LEMMA SentTyped ==
    ASSUME NEW key \in AtKeys, puts \in Nat, puts < MaxPuts,
           key.type # "public" => key.metadata.iv \in Ivs
    PROVE  SentRecord(key) \in Records /\ SentRecord(key).value = puts + 1
  <1> USE BoundAssumption, NoneAssumption DEF Ivs, LegacyIv
  <1>1. key.type \in {"public", "self", "shared"} /\ key.metadata \in Metadata
    BY DEF AtKeys
  <1>2. /\ key.metadata.iv \in Ivs \cup {None} /\ key.metadata.ttl \in {0, 1}
        /\ key.metadata.isEncrypted \in BOOLEAN
    BY <1>1 DEF Metadata
  <1>3. SentRecord(key).value = puts + 1 /\ puts + 1 \in 1..MaxPuts
    BY DEF SentRecord
  <1>4. CASE key.type = "public"
    BY <1>2, <1>3, <1>4 DEF SentRecord, Records
  <1>5. CASE key.type # "public"
    BY <1>1, <1>2, <1>3, <1>5 DEF SentRecord, Records
  <1> QED
    BY <1>3, <1>4, <1>5

\* It is a proper one.
LEMMA SentIsProper ==
    ASSUME NEW key \in AtKeys, ProperKey(key), PublicCached \in BOOLEAN,
           key.type # "public" => key.metadata.iv \in Ivs
    PROVE  ProperRecord(NameOf(key), SentRecord(key))
  <1>1. key.type \in {"public", "self", "shared"}
    BY DEF AtKeys
  <1>2. KindOf(NameOf(key)) = IF key.type = "public" THEN "nothing" ELSE key.type
    BY NamesOfKeys
  <1>3. CASE key.type = "public"
    BY <1>2, <1>3 DEF SentRecord, ProperRecord, ProperKey
  <1>4. CASE key.type # "public"
    <2>1. TellsEncrypted => key.metadata.isEncrypted = TRUE
      BY <1>4 DEF ProperKey
    <2>2. key.metadata.iv # None
      BY <1>4, NoneAssumption, BoundAssumption DEF Ivs
    <2> QED
      BY <1>1, <1>2, <1>4, <2>1, <2>2 DEF SentRecord, ProperRecord
  <1> QED
    BY <1>3, <1>4

\* The key objects of the application are never missing, and proper.
LEMMA SlotsAreFull ==
    ASSUME TypeOK, KeysFit
    PROVE  /\ PublicCached \in BOOLEAN
           /\ \A s \in Slots : keys[s] # None => keys[s] \in AtKeys /\ ProperKey(keys[s])
           /\ \A s \in Made : s \in Slots /\ keys[s] # None
  <1>1. \A s \in Slots : keys[s] # None => keys[s] \in AtKeys /\ ProperKey(keys[s])
    BY DEF TypeOK, KeysFit
  <1>2. \A s \in Made : s \in Slots /\ keys[s] # None
    BY DEF TypeOK, Slots
  <1>3. "public" \in Made
    BY DEF Made
  <1>4. PublicCached \in BOOLEAN
    BY <1>1, <1>2, <1>3 DEF PublicCached, AtKeys, Metadata
  <1> QED
    BY <1>1, <1>2, <1>4

\* While the public key is fresh, only its own slot has a public key object.
LEMMA FreshIsAlone ==
    ASSUME TypeOK, KeysFit, FreshFits, "public" \in fresh,
           NEW s \in Slots, s # "public", keys[s] # None
    PROVE  keys[s].type # "public"
  <1>1. CASE s = "found"
    BY <1>1 DEF FreshFits
  <1>2. CASE s \in {"self", "mine", "shared"}
    BY <1>2 DEF KeysFit, InitialKey, NewKey, Made
  <1> QED
    BY <1>1, <1>2 DEF Slots, Made

-----------------------------------------------------------------------------
(* Types. *)

\* A key object has a name, and so has one that from_string makes of a name.
LEMMA NamesTyped ==
    /\ \A key \in AtKeys : NameOf(key) \in Names
    /\ \A n \in Names : FromString(n) \in AtKeys
  <1>1. ASSUME NEW key \in AtKeys
        PROVE  NameOf(key) \in Names
    BY DEF AtKeys, Metadata, Names, NameOf, Str, Built
  <1>2. ASSUME NEW n \in Names
        PROVE  FromString(n) \in AtKeys
    <2> DEFINE key == NewKey(KeyType(n), IF n.public THEN NoOne ELSE n.with)
    <2>1. KeyType(n) \in {"public", "self", "shared"} /\ n.cached \in BOOLEAN
      BY DEF KeyType, Names
    <2>2. key \in AtKeys
      BY <2>1, NewKeys DEF Names
    <2> HIDE DEF key
    <2>3. [key EXCEPT !.metadata.isCached = n.cached] \in AtKeys
      BY <2>1, <2>2 DEF AtKeys, Metadata
    <2> QED
      BY <2>3 DEF FromString, key
  <1> QED
    BY <1>1, <1>2

\* What a get makes of a key object and of a record is a key object of the same key.
LEMMA RefreshTyped ==
    ASSUME NEW key \in AtKeys, NEW n \in Names, store[n] \in Records
    PROVE  LET refreshed == Refreshed(key, n)
               squashed == Squash(FromDict(n), key.metadata) IN
           /\ refreshed \in AtKeys
           /\ refreshed.type = key.type /\ refreshed.with = key.with
           /\ refreshed.metadata.isPublic = Sent("isPublic", n.public, FALSE)
           /\ refreshed.metadata.isEncrypted = Sent("isEncrypted", store[n].isEncrypted, TRUE)
           /\ refreshed.metadata.isCached = IF key.type = "public" THEN n.cached
                                            ELSE Sent("isCached", n.cached, FALSE)
  <1> DEFINE said == FromDict(n)
             squashed == Squash(said, key.metadata)
             refreshed == Refreshed(key, n)
  <1>1. key.metadata \in Metadata /\ key.metadata.iv \in Ivs \cup {None}
    BY DEF AtKeys, Metadata
  <1>2. /\ store[n].ttl \in {0, 1} /\ store[n].iv \in Ivs \cup {None}
        /\ store[n].isEncrypted \in BOOLEAN
        /\ n.public \in BOOLEAN /\ n.cached \in BOOLEAN
    BY DEF Records, Names
  <1>3. /\ said.ttl \in {0, 1} /\ said.iv \in Ivs \cup {None}
        /\ said.isPublic = Sent("isPublic", n.public, FALSE)
        /\ said.isCached = Sent("isCached", n.cached, FALSE)
        /\ said.isEncrypted = Sent("isEncrypted", store[n].isEncrypted, TRUE)
    BY <1>2 DEF FromDict
  <1>4. said.isPublic \in BOOLEAN /\ said.isCached \in BOOLEAN /\ said.isEncrypted \in BOOLEAN
    BY <1>2, <1>3 DEF Sent
  <1> HIDE DEF said
  <1>5. (\A i \in {0, 1} : i # None) /\ (\A b \in BOOLEAN : b # None)
    BY NoneIsNoField
  <1>6. /\ squashed.ttl = said.ttl
        /\ squashed.isPublic = said.isPublic
        /\ squashed.isCached = said.isCached
        /\ squashed.isEncrypted = said.isEncrypted
        /\ squashed.iv \in Ivs \cup {None}
    <2>1. /\ said.ttl # None /\ said.isPublic # None
          /\ said.isCached # None /\ said.isEncrypted # None
      <3> HIDE DEF squashed
      <3> QED
        BY <1>3, <1>4, <1>5
    <2>2. squashed.iv \in {said.iv, key.metadata.iv}
      BY SquashFields
    <2> QED
      BY <1>1, <1>3, <2>1, <2>2, SquashFields
  <1>7. squashed \in Metadata
    BY <1>3, <1>4, <1>6, SquashTyped
  <1> HIDE DEF squashed
  <1> DEFINE metadata == IF key.type = "public" THEN [squashed EXCEPT !.isCached = n.cached]
                         ELSE squashed
  <1>8. metadata \in Metadata
    BY <1>2, <1>7 DEF Metadata
  <1>9. /\ metadata.isPublic = said.isPublic /\ metadata.isEncrypted = said.isEncrypted
        /\ metadata.isCached = IF key.type = "public" THEN n.cached ELSE said.isCached
    BY <1>6, <1>7 DEF Metadata
  <1>10. refreshed = [key EXCEPT !.metadata = metadata]
    BY DEF Refreshed, said, squashed, AtKeys
  <1> HIDE DEF metadata, refreshed
  <1>11. /\ refreshed \in AtKeys
         /\ refreshed.type = key.type /\ refreshed.with = key.with
         /\ refreshed.metadata = metadata
    BY <1>8, <1>10 DEF AtKeys
  <1> QED
    BY <1>3, <1>9, <1>11 DEF refreshed

\* What get_at_keys makes of a name and of its metadata keeps what the name says.
LEMMA FetchTyped ==
    ASSUME NEW n \in Names, store[n] \in Records
    PROVE  LET made == FromString(n)
               key == [made EXCEPT !.metadata = Squash(made.metadata, FromJson(n))] IN
           /\ key \in AtKeys
           /\ key.type = made.type /\ key.with = made.with
           /\ key.metadata.isPublic = made.metadata.isPublic
           /\ key.metadata.isCached = made.metadata.isCached
           /\ key.metadata.isEncrypted = made.metadata.isEncrypted
  <1> DEFINE made == FromString(n)
             squashed == Squash(made.metadata, FromJson(n))
             key == [made EXCEPT !.metadata = squashed]
  <1>1. made \in AtKeys
    BY NamesTyped
  <1>2. store[n].iv \in Ivs \cup {None}
    BY DEF Records
  <1>3. FromJson(n).iv = store[n].iv
    BY DEF FromJson, FromDict
  <1>4. (\A i \in {0, 1} : i # None) /\ (\A b \in BOOLEAN : b # None)
    BY NoneIsNoField
  <1> HIDE DEF made
  <1>5. /\ made.metadata.ttl \in {0, 1}
        /\ made.metadata.isPublic \in BOOLEAN /\ made.metadata.isCached \in BOOLEAN
        /\ made.metadata.isEncrypted \in BOOLEAN /\ made.metadata.iv \in Ivs \cup {None}
    BY <1>1 DEF AtKeys, Metadata
  <1>6. /\ squashed.ttl = made.metadata.ttl
        /\ squashed.isPublic = made.metadata.isPublic
        /\ squashed.isCached = made.metadata.isCached
        /\ squashed.isEncrypted = made.metadata.isEncrypted
        /\ squashed.iv \in Ivs \cup {None}
    BY <1>2, <1>3, <1>4, <1>5, SquashFields
  <1>7. squashed \in Metadata
    BY <1>5, <1>6, SquashTyped
  <1> HIDE DEF squashed
  <1>8. key \in AtKeys /\ key.type = made.type /\ key.with = made.with /\ key.metadata = squashed
    BY <1>1, <1>7 DEF AtKeys
  <1> QED
    BY <1>6, <1>8 DEF made, squashed

\* A step that replaces a key object by another, or by none that was there.
LEMMA SlotTyped ==
    ASSUME TypeOK, NEW s \in Slots, NEW key \in AtKeys, keys' = [keys EXCEPT ![s] = key]
    PROVE  /\ keys' \in [Slots -> AtKeys \cup {None}]
           /\ \A t \in Made : keys'[t] # None
  <1>1. keys \in [Slots -> AtKeys \cup {None}] /\ \A t \in Made : t \in Slots /\ keys[t] # None
    BY DEF TypeOK, Slots
  <1>2. key # None
    BY NothingAssumption
  <1> QED
    BY <1>1, <1>2

\* A step that stores a record, or removes one, under whatever name.
LEMMA ServerTyped ==
    ASSUME TypeOK, NEW n, NEW record \in Records \cup {None}, NEW k,
           NEW value \in 1..MaxPuts \cup {None},
           store' \in {store, [store EXCEPT ![n] = record]},
           latest' \in {latest, [latest EXCEPT ![k] = value]}
    PROVE  /\ store' \in [Names -> Records \cup {None}]
           /\ latest' \in [Names -> 1..MaxPuts \cup {None}]
  BY DEF TypeOK

\* put makes a record of a value, and numbers it.
LEMMA PutTyped ==
    ASSUME TypeOK, NEW s \in Slots, Put(s)
    PROVE  TypeOK'
  <1> DEFINE key == WithIv(keys[s])
  <1>1. /\ keys[s] \in AtKeys /\ puts < MaxPuts /\ puts' = puts + 1
        /\ puts \in Nat /\ puts + 1 \in 1..MaxPuts /\ puts + 1 \in 0..MaxPuts
    BY BoundAssumption DEF Put, TypeOK
  <1>2. key \in AtKeys /\ (key.type # "public" => key.metadata.iv \in Ivs)
    BY <1>1, IvIsGiven
  <1>3. SentRecord(key) \in Records
    BY <1>1, <1>2, SentTyped
  <1>4. /\ keys' = [keys EXCEPT ![s] = key]
        /\ \/ /\ store' = [store EXCEPT ![NameOf(key)] = SentRecord(key)]
              /\ latest' = [latest EXCEPT ![Intended(key)] = puts + 1]
           \/ store' = store /\ latest' = latest
        /\ fresh' \subseteq fresh /\ scanned' = scanned
    BY DEF Put, server
  <1> HIDE DEF key
  <1>5. keys' \in [Slots -> AtKeys \cup {None}] /\ \A t \in Made : keys'[t] # None
    BY <1>2, <1>4, SlotTyped
  <1>6. /\ store' \in [Names -> Records \cup {None}]
        /\ latest' \in [Names -> 1..MaxPuts \cup {None}]
    BY <1>1, <1>3, <1>4, ServerTyped
  <1> QED
    BY <1>1, <1>4, <1>5, <1>6 DEF TypeOK

\* So does a client that does not know of IVs.
LEMMA PutLegacyTyped ==
    ASSUME TypeOK, NEW s \in Made, PutLegacy(s)
    PROVE  TypeOK'
  <1> DEFINE n == Intended(InitialKey(s))
             record == [value |-> puts + 1, with |-> "self", under |-> LegacyIv, iv |-> None,
                        ttl |-> 0, isEncrypted |-> TRUE]
  <1>1. puts' = puts + 1 /\ puts + 1 \in 1..MaxPuts /\ puts + 1 \in 0..MaxPuts
    BY BoundAssumption DEF PutLegacy, TypeOK
  <1>2. record \in Records
    BY <1>1 DEF Records, LegacyIv
  <1>3. /\ store' = [store EXCEPT ![n] = record]
        /\ latest' = [latest EXCEPT ![n] = puts + 1]
        /\ keys' = keys /\ fresh' = fresh /\ scanned' = scanned
    BY DEF PutLegacy
  <1> HIDE DEF record, n
  <1>4. /\ store' \in [Names -> Records \cup {None}]
        /\ latest' \in [Names -> 1..MaxPuts \cup {None}]
    BY <1>1, <1>2, <1>3, ServerTyped
  <1> QED
    BY <1>1, <1>3, <1>4 DEF TypeOK

\* A delete, of either kind, and a record's end remove a record and a value.
LEMMA RemovalTyped ==
    ASSUME TypeOK, NEW n, NEW k,
           store' = [store EXCEPT ![n] = None], latest' = [latest EXCEPT ![k] = None],
           fresh' \subseteq fresh, UNCHANGED <<puts, keys, scanned>>
    PROVE  TypeOK'
  <1>1. /\ store' \in [Names -> Records \cup {None}]
        /\ latest' \in [Names -> 1..MaxPuts \cup {None}]
    BY ServerTyped
  <1> QED
    BY <1>1 DEF TypeOK

\* A step that changes one key object, and no record.
LEMMA KeyChangeTyped ==
    ASSUME TypeOK, NEW s \in Slots, NEW key \in AtKeys, keys' = [keys EXCEPT ![s] = key],
           puts' \in 0..MaxPuts, fresh' \subseteq fresh, scanned' \in {scanned, None},
           UNCHANGED server
    PROVE  TypeOK'
  <1>1. keys' \in [Slots -> AtKeys \cup {None}] /\ \A t \in Made : keys'[t] # None
    BY SlotTyped
  <1> QED
    BY <1>1 DEF TypeOK, server

\* notify gives a key object an IV, cache() a flag, and the application a time to live.
LEMMA FieldTyped ==
    ASSUME TypeOK, NEW s \in Slots, Notify(s) \/ Cache(s) \/ SetTimeToLive(s)
    PROVE  TypeOK'
  <1>1. CASE Notify(s)
    <2>1. keys[s] \in AtKeys /\ puts + 1 \in Ivs /\ puts' = puts + 1 /\ puts' \in 0..MaxPuts
      BY <1>1, BoundAssumption DEF Notify, TypeOK, Ivs
    <2>2. [keys[s] EXCEPT !.metadata.iv = puts + 1] \in AtKeys
      BY <2>1 DEF AtKeys, Metadata
    <2>3. keys' = [keys EXCEPT ![s] = [keys[s] EXCEPT !.metadata.iv = puts + 1]]
      BY <1>1 DEF Notify
    <2> QED
      BY <1>1, <2>1, <2>2, <2>3, KeyChangeTyped DEF Notify
  <1>2. CASE Cache(s)
    <2>1. keys[s] \in AtKeys /\ puts' \in 0..MaxPuts
      BY <1>2 DEF Cache, TypeOK
    <2>2. [keys[s] EXCEPT !.metadata.isCached = TRUE] \in AtKeys
      BY <2>1 DEF AtKeys, Metadata
    <2>3. keys' = [keys EXCEPT ![s] = [keys[s] EXCEPT !.metadata.isCached = TRUE]]
      BY <1>2 DEF Cache
    <2> QED
      BY <1>2, <2>1, <2>2, <2>3, KeyChangeTyped DEF Cache
  <1>3. CASE SetTimeToLive(s)
    <2>1. keys[s] \in AtKeys /\ puts' \in 0..MaxPuts
      BY <1>3 DEF SetTimeToLive, TypeOK
    <2>2. [keys[s] EXCEPT !.metadata.ttl = 1] \in AtKeys
      BY <2>1 DEF AtKeys, Metadata
    <2>3. keys' = [keys EXCEPT ![s] = [keys[s] EXCEPT !.metadata.ttl = 1]]
      BY <1>3 DEF SetTimeToLive
    <2> QED
      BY <1>3, <2>1, <2>2, <2>3, KeyChangeTyped DEF SetTimeToLive
  <1> QED
    BY <1>1, <1>2, <1>3

\* get replaces the metadata of a key object.
LEMMA GetTyped ==
    ASSUME TypeOK, NEW s \in Slots, Get(s)
    PROVE  TypeOK'
  <1> DEFINE n == NameOf(keys[s])
  <1>1. keys[s] \in AtKeys /\ puts' \in 0..MaxPuts
    BY DEF Get, TypeOK
  <1>2. n \in Names /\ store[n] \in Records
    BY <1>1, NamesTyped DEF Get, TypeOK
  <1>3. Refreshed(keys[s], n) \in AtKeys
    BY <1>1, <1>2, RefreshTyped
  <1>4. \/ keys' = keys /\ keys' = [keys EXCEPT ![s] = keys[s]]
        \/ keys' = [keys EXCEPT ![s] = Refreshed(keys[s], n)]
    BY DEF Get, TypeOK
  <1> HIDE DEF n
  <1> QED
    BY <1>1, <1>3, <1>4, KeyChangeTyped DEF Get

\* get_at_keys puts a key object in its slot.
LEMMA FoundTyped ==
    ASSUME TypeOK, FetchMetadata \/ \E n \in Names : List(n)
    PROVE  TypeOK'
  <1>1. "found" \in Slots
    BY DEF Slots
  <1>2. CASE FetchMetadata
    <2> DEFINE key == [FromString(scanned) EXCEPT
                          !.metadata = Squash(FromString(scanned).metadata, FromJson(scanned))]
    <2>1. /\ scanned \in Names /\ store[scanned] \in Records /\ puts' \in 0..MaxPuts
          /\ keys' = [keys EXCEPT !["found"] = key]
      BY <1>2 DEF FetchMetadata, TypeOK
    <2>2. key \in AtKeys
      BY <2>1, FetchTyped
    <2> HIDE DEF key
    <2> QED
      BY <1>1, <1>2, <2>1, <2>2, KeyChangeTyped DEF FetchMetadata
  <1>3. CASE \E n \in Names : List(n)
    <2>1. PICK n \in Names : List(n)
      BY <1>3
    <2>2. FromString(n) \in AtKeys /\ puts' \in 0..MaxPuts
      BY <2>1, NamesTyped DEF List, TypeOK
    <2> QED
      BY <1>1, <2>1, <2>2, KeyChangeTyped DEF List
  <1> QED
    BY <1>2, <1>3

\* By the lemmas on the actions.
LEMMA TypesInductive ==
    ASSUME TypeOK, [Next]_vars
    PROVE  TypeOK'
  <1>1. ASSUME NEW s \in Slots, Put(s) \/ Notify(s) \/ Get(s)
        PROVE  TypeOK'
    BY <1>1, PutTyped, FieldTyped, GetTyped
  <1>2. ASSUME NEW s \in Slots, Delete(s)
        PROVE  TypeOK'
    BY <1>2, RemovalTyped DEF Delete
  <1>3. ASSUME NEW s \in Made, Cache(s) \/ SetTimeToLive(s) \/ PutLegacy(s)
        PROVE  TypeOK'
    BY <1>3, FieldTyped, PutLegacyTyped DEF Slots
  <1>4. ASSUME NEW n \in Names, PromptDelete(n)
        PROVE  TypeOK'
    BY <1>4, RemovalTyped DEF PromptDelete
  <1>5. ASSUME NEW n \in Names, Expire(n)
        PROVE  TypeOK'
    BY <1>5, RemovalTyped DEF Expire
  <1>6. ASSUME NEW n \in Names, Scan(n)
        PROVE  TypeOK'
    BY <1>6 DEF Scan, TypeOK, server
  <1>7. ASSUME (\E n \in Names : List(n)) \/ FetchMetadata
        PROVE  TypeOK'
    BY <1>7, FoundTyped
  <1>8. CASE FetchFails
    BY <1>8 DEF FetchFails, TypeOK, server
  <1>9. CASE UNCHANGED vars
    BY <1>9 DEF vars, server, TypeOK
  <1> QED
    BY <1>1, <1>2, <1>3, <1>4, <1>5, <1>6, <1>7, <1>8, <1>9 DEF Next

-----------------------------------------------------------------------------
(* Each action keeps the invariant. *)

\* put stores a proper record under the proper name of its key, or fails.
LEMMA PutKeeps ==
    ASSUME TypeOK, RecordsInv, NEW s \in Slots, Put(s)
    PROVE  RecordsInv'
  <1> DEFINE key == WithIv(keys[s])
  <1>1. /\ keys[s] # None /\ puts < MaxPuts
        /\ puts' = puts + 1
        /\ keys' = [keys EXCEPT ![s] = key]
        /\ \/ /\ store' = [store EXCEPT ![NameOf(key)] = SentRecord(key)]
              /\ latest' = [latest EXCEPT ![Intended(key)] = puts + 1]
           \/ UNCHANGED server
        /\ fresh' = fresh \ {s}
        /\ scanned' = scanned
    BY DEF Put
  <1>2. KeysFit /\ StoreFits /\ LatestFits /\ FreshFits /\ ScanFits
    BY DEF RecordsInv
  <1>3. /\ PublicCached \in BOOLEAN /\ keys[s] \in AtKeys /\ ProperKey(keys[s])
    BY <1>1, <1>2, SlotsAreFull
  <1>4. puts \in Nat /\ puts + 1 \in 1..MaxPuts
    BY <1>1, BoundAssumption DEF TypeOK
  <1>5. /\ key \in AtKeys /\ ProperKey(key)
        /\ key.type = keys[s].type /\ key.with = keys[s].with
        /\ key.type # "public" => key.metadata.iv \in Ivs
    BY <1>1, <1>3, <1>4, IvIsGiven
  <1>6. /\ NameOf(key) \in Names /\ ProperName(NameOf(key))
        /\ TheKey(NameOf(key)) = Intended(key)
        /\ NameOf(key).public = (key.type = "public")
    BY <1>3, <1>5, NamesOfKeys
  <1>7. /\ SentRecord(key) \in Records
        /\ ProperRecord(NameOf(key), SentRecord(key))
        /\ SentRecord(key).value = puts + 1
    BY <1>1, <1>3, <1>4, <1>5, SentTyped, SentIsProper
  <1> HIDE DEF key
  <1>8. KeysFit' /\ PublicCached' = PublicCached
    BY <1>1, <1>2, <1>5, KeyStep DEF KeysFit
  <1>9. /\ store \in [Names -> Records \cup {None}]
        /\ latest \in [Names -> 1..MaxPuts \cup {None}]
    BY DEF TypeOK
  <1>10. StoreFits' /\ LatestFits'
    <2>1. CASE UNCHANGED server
      BY <1>2, <1>8, <2>1, StoreStays
    <2>2. CASE /\ store' = [store EXCEPT ![NameOf(key)] = SentRecord(key)]
               /\ latest' = [latest EXCEPT ![Intended(key)] = puts + 1]
      BY <1>2, <1>6, <1>7, <1>8, <1>9, <2>2, StoreStep
    <2> QED
      BY <1>1, <2>1, <2>2
  <1>11. FreshFits'
    <2> SUFFICES ASSUME "public" \in fresh'
                 PROVE  /\ \A n \in Names : n.public => store'[n] = None
                        /\ keys'["found"] # None => keys'["found"].type # "public"
                        /\ scanned' # None => ~scanned'.public
      BY DEF FreshFits
    <2>1. "public" \in fresh /\ s # "public"
      BY <1>1
    <2>2. key.type # "public"
      BY <1>1, <1>2, <1>5, <2>1, FreshIsAlone
    <2>3. \A n \in Names : n.public => store'[n] = store[n]
      BY <1>1, <1>6, <1>9, <2>2 DEF server
    <2>4. keys'["found"] = keys["found"] \/ keys'["found"] = key
      BY <1>1 DEF TypeOK
    <2> QED
      BY <1>1, <1>2, <2>1, <2>2, <2>3, <2>4 DEF FreshFits
  <1>12. ScanFits'
    BY <1>1, <1>2, <1>8 DEF ScanFits, ProperName
  <1> QED
    BY <1>8, <1>10, <1>11, <1>12 DEF RecordsInv

\* A step of the server's only, which stores nothing public.
LEMMA ServerStepKeeps ==
    ASSUME TypeOK, RecordsInv, keys' = keys, scanned' = scanned,
           fresh' \subseteq fresh, StoreFits' /\ LatestFits',
           \A n \in Names : n.public /\ store[n] = None => store'[n] = None
    PROVE  RecordsInv'
  <1>1. PublicCached' = PublicCached
    BY DEF PublicCached
  <1>2. KeysFit'
    BY <1>1 DEF RecordsInv, KeysFit, ProperKey
  <1>3. ScanFits'
    BY <1>1 DEF RecordsInv, ScanFits, ProperName
  <1>4. FreshFits'
    BY DEF RecordsInv, FreshFits
  <1> QED
    BY <1>2, <1>3, <1>4 DEF RecordsInv

\* What is under a proper name goes, and nothing else.
LEMMA RemovalKeeps ==
    ASSUME TypeOK, RecordsInv, keys' = keys, scanned' = scanned, fresh' \subseteq fresh,
           NEW n \in Names, ProperName(n),
           store' = [store EXCEPT ![n] = None],
           latest' = [latest EXCEPT ![TheKey(n)] = None]
    PROVE  RecordsInv'
  <1>1. /\ store \in [Names -> Records \cup {None}]
        /\ latest \in [Names -> 1..MaxPuts \cup {None}]
    BY DEF TypeOK
  <1>2. StoreFits' /\ LatestFits'
    BY <1>1, RemoveStep DEF RecordsInv, PublicCached
  <1>3. \A m \in Names : m.public /\ store[m] = None => store'[m] = None
    BY <1>1
  <1> QED
    BY <1>2, <1>3, ServerStepKeeps

\* delete removes what is under the proper name of its key; with a SharedKey that cache()
\* was called on, it removes nothing.
LEMMA DeleteKeeps ==
    ASSUME TypeOK, RecordsInv, NEW s \in Slots, Delete(s)
    PROVE  RecordsInv'
  <1>1. /\ keys[s] # None
        /\ store' = [store EXCEPT ![Built(keys[s])] = None]
        /\ latest' = [latest EXCEPT ![Intended(keys[s])] = None]
        /\ fresh' \subseteq fresh
        /\ keys' = keys /\ scanned' = scanned
    BY DEF Delete
  <1>2. PublicCached \in BOOLEAN /\ keys[s] \in AtKeys /\ ProperKey(keys[s])
    BY <1>1, SlotsAreFull DEF RecordsInv
  <1>3. /\ NameOf(keys[s]) \in Names /\ ProperName(NameOf(keys[s]))
        /\ TheKey(NameOf(keys[s])) = Intended(keys[s])
    BY <1>2, NamesOfKeys
  <1>4. CASE ~(keys[s].type = "shared" /\ keys[s].metadata.isCached)
    <2>1. NameOf(keys[s]) = Built(keys[s])
      BY <1>2, <1>4, NamesOfKeys
    <2> QED
      BY <1>1, <1>3, <2>1, RemovalKeeps
  <1>5. CASE keys[s].type = "shared" /\ keys[s].metadata.isCached
    <2> DEFINE n == Built(keys[s])
    <2>1. n.cached = TRUE /\ n.public = FALSE
      BY <1>2, <1>5 DEF Built, ProperKey, AtKeys, Metadata
    <2>2. n \in Names => store[n] = None
      BY <2>1 DEF RecordsInv, StoreFits, ProperName
    <2> HIDE DEF n
    <2>3. store' = store
      BY <1>1, <2>2 DEF TypeOK, n
    <2>4. CachesShared /\ Intended(keys[s]) \in Names
      BY <1>2, <1>3, <1>5, KeyFields DEF ProperKey
    <2>5. /\ StoreFits /\ LatestFits /\ PublicCached' = PublicCached
          /\ latest \in [Names -> 1..MaxPuts \cup {None}]
      BY <1>1 DEF RecordsInv, TypeOK, PublicCached
    <2>6. StoreFits' /\ LatestFits'
      BY <1>1, <2>3, <2>4, <2>5, LossStep
    <2> QED
      BY <1>1, <2>3, <2>6, ServerStepKeeps
  <1> QED
    BY <1>4, <1>5

\* /delete removes what is under the name that was typed.
LEMMA PromptDeleteKeeps ==
    ASSUME TypeOK, RecordsInv, NEW n \in Names, PromptDelete(n)
    PROVE  RecordsInv'
  <1>1. /\ store[n] # None
        /\ store' = [store EXCEPT ![Built(TypedKey(n))] = None]
        /\ latest' = [latest EXCEPT ![TheKey(n)] = None]
        /\ fresh' \subseteq fresh
        /\ keys' = keys /\ scanned' = scanned
    BY DEF PromptDelete
  <1>2. ProperName(n)
    BY <1>1 DEF RecordsInv, StoreFits
  <1>3. Built(TypedKey(n)) = n
    BY <1>2, KeysOfNames
  <1> QED
    BY <1>1, <1>2, <1>3, RemovalKeeps

\* A record whose time is over is gone, and so is the value that was put.
LEMMA ExpireKeeps ==
    ASSUME TypeOK, RecordsInv, NEW n \in Names, Expire(n)
    PROVE  RecordsInv'
  <1>1. /\ store[n] # None
        /\ store' = [store EXCEPT ![n] = None]
        /\ latest' = [latest EXCEPT ![TheKey(n)] = None]
        /\ fresh' \subseteq fresh
        /\ keys' = keys /\ scanned' = scanned
    BY DEF Expire
  <1>2. ProperName(n)
    BY <1>1 DEF RecordsInv, StoreFits
  <1> QED
    BY <1>1, <1>2, RemovalKeeps

\* A client that does not know of IVs stores a proper record without one.
LEMMA PutLegacyKeeps ==
    ASSUME TypeOK, RecordsInv, NEW s \in Made, PutLegacy(s)
    PROVE  RecordsInv'
  <1> DEFINE n == Intended(InitialKey(s))
             record == [value |-> puts + 1, with |-> "self", under |-> LegacyIv, iv |-> None,
                        ttl |-> 0, isEncrypted |-> TRUE]
  <1>1. /\ s \in {"self", "mine"} /\ puts < MaxPuts
        /\ puts' = puts + 1
        /\ store' = [store EXCEPT ![n] = record]
        /\ latest' = [latest EXCEPT ![n] = puts + 1]
        /\ fresh' \subseteq fresh
        /\ keys' = keys /\ scanned' = scanned
    BY DEF PutLegacy
  <1>2. puts \in Nat /\ puts + 1 \in 1..MaxPuts
    BY <1>1, BoundAssumption DEF TypeOK
  <1>3. PICK with \in {NoOne, me} : n = [cached |-> FALSE, public |-> FALSE, with |-> with]
    BY <1>1 DEF Intended, InitialKey, NewKey
  <1>4. n \in Names /\ ~n.public /\ ~n.cached /\ n.with = with
    BY <1>3 DEF Names
  <1>5. ProperName(n)
    BY <1>4 DEF ProperName
  <1>6. TheKey(n) = n
    BY <1>3, <1>4, KeyFields
  <1>7. record \in Records /\ record.value = puts + 1
    BY <1>2 DEF Records, LegacyIv
  <1>8. ProperRecord(n, record)
    BY <1>3, <1>4, AtSignAssumption DEF ProperRecord, KindOf, KeyType
  <1> HIDE DEF n, record
  <1>9. /\ store \in [Names -> Records \cup {None}]
        /\ latest \in [Names -> 1..MaxPuts \cup {None}]
    BY DEF TypeOK
  <1>10. StoreFits' /\ LatestFits'
    <2>1. latest' = [latest EXCEPT ![TheKey(n)] = record.value]
      BY <1>1, <1>6, <1>7
    <2>2. StoreFits /\ LatestFits /\ PublicCached' = PublicCached
      BY <1>1 DEF RecordsInv, PublicCached
    <2> QED
      BY <1>1, <1>4, <1>5, <1>7, <1>8, <1>9, <2>1, <2>2, StoreStep
  <1>11. \A m \in Names : m.public /\ store[m] = None => store'[m] = None
    BY <1>1, <1>4, <1>9
  <1> QED
    BY <1>1, <1>10, <1>11, ServerStepKeeps

\* A step that changes one key object, which stays what it is, and no record.
LEMMA KeyChangeKeeps ==
    ASSUME TypeOK, RecordsInv, UNCHANGED server, scanned' = scanned, fresh' \subseteq fresh,
           NEW s \in Slots, keys[s] # None, NEW key \in AtKeys, ProperKey(key),
           key.type = keys[s].type /\ key.with = keys[s].with,
           keys' = [keys EXCEPT ![s] = key]
    PROVE  RecordsInv'
  <1>1. KeysFit /\ StoreFits /\ LatestFits /\ FreshFits /\ ScanFits
    BY DEF RecordsInv
  <1>2. KeysFit' /\ PublicCached' = PublicCached
    BY <1>1, KeyStep DEF KeysFit
  <1>3. StoreFits' /\ LatestFits'
    BY <1>1, <1>2, StoreStays
  <1>4. ScanFits'
    BY <1>1, <1>2 DEF ScanFits, ProperName
  <1>5. keys'["found"] = keys["found"] \/ (s = "found" /\ keys'["found"] = key)
    BY DEF TypeOK
  <1>6. FreshFits'
    BY <1>1, <1>5 DEF FreshFits, server
  <1> QED
    BY <1>2, <1>3, <1>4, <1>6 DEF RecordsInv

\* notify gives the key object an IV, and stores nothing.
LEMMA NotifyKeeps ==
    ASSUME TypeOK, RecordsInv, NEW s \in Slots, Notify(s)
    PROVE  RecordsInv'
  <1> DEFINE key == [keys[s] EXCEPT !.metadata.iv = puts + 1]
  <1>1. /\ keys[s] # None /\ puts < MaxPuts /\ puts' = puts + 1
        /\ keys' = [keys EXCEPT ![s] = key]
        /\ fresh' \subseteq fresh /\ UNCHANGED server /\ scanned' = scanned
    BY DEF Notify
  <1>2. keys[s] \in AtKeys /\ ProperKey(keys[s])
    BY <1>1, SlotsAreFull DEF RecordsInv
  <1>3. puts + 1 \in Ivs
    BY <1>1, BoundAssumption DEF TypeOK, Ivs
  <1>4. key \in AtKeys
    BY <1>2, <1>3 DEF AtKeys, Metadata
  <1>5. /\ key.type = keys[s].type /\ key.with = keys[s].with
        /\ key.metadata.isPublic = keys[s].metadata.isPublic
        /\ key.metadata.isCached = keys[s].metadata.isCached
        /\ key.metadata.isEncrypted = keys[s].metadata.isEncrypted
    BY <1>2 DEF AtKeys, Metadata
  <1>6. ProperKey(key)
    BY <1>2, <1>5 DEF ProperKey
  <1> HIDE DEF key
  <1> QED
    BY <1>1, <1>4, <1>5, <1>6, KeyChangeKeeps

\* A time to live decides on no name.
LEMMA TimeToLiveKeeps ==
    ASSUME TypeOK, RecordsInv, NEW s \in Made, SetTimeToLive(s)
    PROVE  RecordsInv'
  <1> DEFINE key == [keys[s] EXCEPT !.metadata.ttl = 1]
  <1>1. /\ keys' = [keys EXCEPT ![s] = key]
        /\ fresh' \subseteq fresh /\ UNCHANGED server /\ scanned' = scanned
    BY DEF SetTimeToLive
  <1>2. s \in Slots /\ keys[s] # None /\ keys[s] \in AtKeys /\ ProperKey(keys[s])
    BY SlotsAreFull DEF RecordsInv
  <1>3. key \in AtKeys
    BY <1>2 DEF AtKeys, Metadata
  <1>4. /\ key.type = keys[s].type /\ key.with = keys[s].with
        /\ key.metadata.isPublic = keys[s].metadata.isPublic
        /\ key.metadata.isCached = keys[s].metadata.isCached
        /\ key.metadata.isEncrypted = keys[s].metadata.isEncrypted
    BY <1>2 DEF AtKeys, Metadata
  <1>5. ProperKey(key)
    BY <1>2, <1>4 DEF ProperKey
  <1> HIDE DEF key
  <1> QED
    BY <1>1, <1>2, <1>3, <1>4, <1>5, KeyChangeKeeps

\* What the server says of a proper record fits the key object it was found with.
LEMMA RefreshIsProper ==
    ASSUME TellsPublic, NEW key \in AtKeys, ProperKey(key), PublicCached \in BOOLEAN,
           key.type # "shared",
           store[NameOf(key)] \in Records, ProperRecord(NameOf(key), store[NameOf(key)])
    PROVE  LET refreshed == Refreshed(key, NameOf(key)) IN
           /\ refreshed \in AtKeys /\ ProperKey(refreshed)
           /\ refreshed.type = key.type /\ refreshed.with = key.with
  <1> DEFINE n == NameOf(key)
             refreshed == Refreshed(key, n)
  <1>1. /\ n \in Names
        /\ n.cached = key.metadata.isCached /\ n.public = (key.type = "public")
        /\ KindOf(n) = IF key.type = "public" THEN "nothing" ELSE key.type
    BY NamesOfKeys
  <1>2. key.type \in {"public", "self"} /\ key.metadata.isCached \in BOOLEAN
    BY DEF AtKeys, Metadata
  <1>3. key.type = "public" => key.metadata.isCached = PublicCached
    BY DEF ProperKey
  <1>4. key.type = "self" => key.metadata.isCached = FALSE
    BY <1>2 DEF ProperKey
  <1>5. TellsEncrypted => store[n].isEncrypted = (key.type # "public")
    BY <1>1, <1>2 DEF ProperRecord
  <1> HIDE DEF n
  <1>6. /\ refreshed \in AtKeys
        /\ refreshed.type = key.type /\ refreshed.with = key.with
        /\ refreshed.metadata.isPublic = Sent("isPublic", n.public, FALSE)
        /\ refreshed.metadata.isEncrypted = Sent("isEncrypted", store[n].isEncrypted, TRUE)
        /\ refreshed.metadata.isCached = IF key.type = "public" THEN n.cached
                                         ELSE Sent("isCached", n.cached, FALSE)
    BY <1>1, RefreshTyped DEF n
  <1> HIDE DEF refreshed
  <1>7. /\ refreshed.metadata.isPublic = (key.type = "public")
        /\ TellsEncrypted => refreshed.metadata.isEncrypted = (key.type # "public")
    BY <1>1, <1>5, <1>6 DEF Sent, TellsPublic, TellsEncrypted
  <1>8. refreshed.metadata.isCached = key.metadata.isCached
    BY <1>1, <1>2, <1>4, <1>6 DEF Sent
  <1>9. ProperKey(refreshed)
    BY <1>2, <1>3, <1>4, <1>6, <1>7, <1>8 DEF ProperKey
  <1> QED
    BY <1>6, <1>9 DEF refreshed, n

\* get refreshes the key object with metadata that fit it.
LEMMA GetKeeps ==
    ASSUME TellsPublic, TypeOK, RecordsInv, NEW s \in Slots, Get(s)
    PROVE  RecordsInv'
  <1>1. /\ keys[s] # None
        /\ store[NameOf(keys[s])] # None
        /\ keys' = IF keys[s].type = "shared" THEN keys
                   ELSE [keys EXCEPT ![s] = Refreshed(keys[s], NameOf(keys[s]))]
        /\ fresh' \subseteq fresh /\ UNCHANGED server /\ scanned' = scanned
    BY DEF Get
  <1>2. PublicCached \in BOOLEAN /\ keys[s] \in AtKeys /\ ProperKey(keys[s])
    BY <1>1, SlotsAreFull DEF RecordsInv
  <1>3. CASE keys[s].type = "shared"
    <2>1. keys' = [keys EXCEPT ![s] = keys[s]]
      BY <1>1, <1>3 DEF TypeOK
    <2> QED
      BY <1>1, <1>2, <2>1, KeyChangeKeeps
  <1>4. CASE keys[s].type # "shared"
    <2>1. NameOf(keys[s]) \in Names
      BY <1>2, NamesTyped
    <2>2. /\ store[NameOf(keys[s])] \in Records
          /\ ProperRecord(NameOf(keys[s]), store[NameOf(keys[s])])
      BY <1>1, <2>1 DEF TypeOK, RecordsInv, StoreFits
    <2>3. LET refreshed == Refreshed(keys[s], NameOf(keys[s])) IN
          /\ refreshed \in AtKeys /\ ProperKey(refreshed)
          /\ refreshed.type = keys[s].type /\ refreshed.with = keys[s].with
      BY <1>2, <1>4, <2>2, RefreshIsProper
    <2> QED
      BY <1>1, <1>2, <1>4, <2>3, KeyChangeKeeps
  <1> QED
    BY <1>3, <1>4

\* cache() on the public key, before anything public is stored.
LEMMA CachePublicKeeps ==
    ASSUME TypeOK, RecordsInv, Cache("public")
    PROVE  RecordsInv'
  <1> DEFINE key == [keys["public"] EXCEPT !.metadata.isCached = TRUE]
  <1>1. "public" \in fresh
    BY DEF Cache
  <1>2. /\ keys' = [keys EXCEPT !["public"] = key]
        /\ fresh' = fresh /\ UNCHANGED server /\ scanned' = scanned
    BY DEF Cache
  <1>3. KeysFit /\ StoreFits /\ LatestFits /\ FreshFits /\ ScanFits
    BY DEF RecordsInv
  <1>4. /\ "public" \in Slots /\ "public" \in Made /\ PublicCached \in BOOLEAN
        /\ keys["public"] \in AtKeys /\ ProperKey(keys["public"])
    BY <1>3, SlotsAreFull DEF Made
  <1>5. key \in AtKeys
    BY <1>4 DEF AtKeys, Metadata
  <1>6. /\ key.type = keys["public"].type /\ key.with = keys["public"].with
        /\ key.metadata.isPublic = keys["public"].metadata.isPublic
        /\ key.metadata.isCached = TRUE
        /\ key.metadata.isEncrypted = keys["public"].metadata.isEncrypted
    BY <1>4 DEF AtKeys, Metadata
  <1> HIDE DEF key
  <1>7. keys["public"].type = "public"
    BY <1>4 DEF KeysFit, RecordsInv, InitialKey, NewKey
  <1>8. /\ keys'["public"] = key
        /\ \A t \in Slots : t # "public" => keys'[t] = keys[t]
    BY <1>2, <1>4 DEF TypeOK
  <1>9. PublicCached' = TRUE
    BY <1>6, <1>8 DEF PublicCached
  <1>10. KeysFit'
    <2>1. (\A t \in Slots : keys[t] # None => ProperKey(keys[t]))'
      <3> SUFFICES ASSUME NEW t \in Slots, keys'[t] # None
                   PROVE  ProperKey(keys[t])'
        OBVIOUS
      <3>1. CASE t = "public"
        BY <1>4, <1>6, <1>7, <1>8, <1>9, <3>1 DEF ProperKey
      <3>2. CASE t # "public"
        <4>1. keys'[t] = keys[t] /\ keys[t] # None /\ keys[t].type # "public"
          BY <1>1, <1>3, <1>8, <3>2, FreshIsAlone
        <4>2. ProperKey(keys[t])
          BY <1>3, <4>1 DEF KeysFit
        <4> QED
          BY <4>1, <4>2 DEF ProperKey
      <3> QED
        BY <3>1, <3>2
    <2>2. \A t \in Made : keys'[t].type = keys[t].type /\ keys'[t].with = keys[t].with
      BY <1>6, <1>8 DEF Slots
    <2> QED
      BY <1>3, <2>1, <2>2 DEF KeysFit
  <1>11. \A n \in Names : ~n.public => (ProperName(n)' <=> ProperName(n))
    BY DEF ProperName
  <1>12. \A n \in Names : n.public => store[n] = None
    BY <1>1, <1>3 DEF FreshFits
  <1>13. store' = store /\ latest' = latest
    BY <1>2 DEF server
  <1>14. StoreFits'
    BY <1>3, <1>11, <1>12, <1>13 DEF StoreFits, ProperRecord
  <1>15. LatestFits'
    <2> SUFFICES ASSUME NEW n \in Names, ProperName(n)'
                 PROVE  /\ latest[TheKey(n)] # None =>
                              store[n] # None /\ store[n].value = latest[TheKey(n)]
                        /\ store[n] # None /\ latest[TheKey(n)] = None => CachesShared
      BY <1>13 DEF LatestFits
    <2>1. CASE ~n.public
      BY <1>3, <1>11, <2>1 DEF LatestFits
    <2>2. CASE n.public
      <3> DEFINE m == [cached |-> PublicCached, public |-> TRUE, with |-> NoOne]
      <3>1. m \in Names /\ m.cached = PublicCached /\ m.public = TRUE /\ m.with = NoOne
        BY <1>4 DEF Names
      <3> HIDE DEF m
      <3>2. ProperName(m)
        BY <3>1 DEF ProperName
      <3>3. n.with = NoOne /\ n.public = TRUE
        BY <2>2 DEF ProperName, Names
      <3>4. TheKey(n) = TheKey(m)
        BY <3>1, <3>3, KeyFields
      <3>5. store[m] = None /\ store[n] = None
        BY <1>12, <2>2, <3>1
      <3> QED
        BY <1>3, <3>1, <3>2, <3>4, <3>5 DEF LatestFits
    <2> QED
      BY <2>1, <2>2
  <1>16. FreshFits'
    BY <1>2, <1>3, <1>8, <1>13 DEF FreshFits, Slots
  <1>17. ScanFits'
    BY <1>1, <1>2, <1>3 DEF ScanFits, FreshFits, ProperName
  <1> QED
    BY <1>10, <1>14, <1>15, <1>16, <1>17 DEF RecordsInv

\* cache() on any key object: the name a SharedKey is put under stays what it is.
LEMMA CacheKeeps ==
    ASSUME TypeOK, RecordsInv, NEW s \in Made, Cache(s)
    PROVE  RecordsInv'
  <1> DEFINE key == [keys[s] EXCEPT !.metadata.isCached = TRUE]
  <1>1. s \in {"public", "shared"} /\ s \in Cached
    BY CachedAssumption DEF Cache
  <1>2. CASE s = "public"
    BY <1>2, CachePublicKeeps
  <1>3. CASE s = "shared"
    <2>1. /\ keys' = [keys EXCEPT ![s] = key]
          /\ fresh' \subseteq fresh /\ UNCHANGED server /\ scanned' = scanned
      BY DEF Cache
    <2>2. s \in Slots /\ keys[s] # None /\ keys[s] \in AtKeys /\ ProperKey(keys[s])
      BY SlotsAreFull DEF RecordsInv
    <2>3. keys[s].type = "shared" /\ CachesShared
      BY <1>1, <1>3 DEF RecordsInv, KeysFit, InitialKey, NewKey, CachesShared
    <2>4. key \in AtKeys
      BY <2>2 DEF AtKeys, Metadata
    <2>5. /\ key.type = keys[s].type /\ key.with = keys[s].with
          /\ key.metadata.isPublic = keys[s].metadata.isPublic
          /\ key.metadata.isEncrypted = keys[s].metadata.isEncrypted
      BY <2>2 DEF AtKeys, Metadata
    <2>6. ProperKey(key)
      BY <2>2, <2>3, <2>5 DEF ProperKey
    <2> HIDE DEF key
    <2> QED
      BY <2>1, <2>2, <2>4, <2>5, <2>6, KeyChangeKeeps
  <1> QED
    BY <1>1, <1>2, <1>3

\* get_at_keys has found a proper name, and made a key object that fits it.
LEMMA FoundKeeps ==
    ASSUME TypeOK, RecordsInv, UNCHANGED server, fresh' = fresh,
           scanned' \in {scanned, None},
           NEW n \in Names, ProperName(n), "public" \in fresh => ~n.public,
           NEW key \in AtKeys, ProperKey(key), key.type = KeyType(n),
           keys' = [keys EXCEPT !["found"] = key]
    PROVE  RecordsInv'
  <1>1. KeysFit /\ StoreFits /\ LatestFits /\ FreshFits /\ ScanFits
    BY DEF RecordsInv
  <1>2. "found" \in Slots /\ "found" \notin Made
    BY DEF Slots, Made
  <1>3. KeysFit' /\ PublicCached' = PublicCached
    BY <1>1, <1>2, KeyStep
  <1>4. StoreFits' /\ LatestFits'
    BY <1>1, <1>3, StoreStays
  <1>5. ScanFits'
    BY <1>1, <1>3 DEF ScanFits, ProperName
  <1>6. FreshFits'
    <2>1. "public" \in fresh => key.type # "public"
      BY DEF KeyType
    <2>2. keys'["found"] = key
      BY <1>2 DEF TypeOK
    <2> QED
      BY <1>1, <2>1, <2>2 DEF FreshFits, server
  <1> QED
    BY <1>3, <1>4, <1>5, <1>6 DEF RecordsInv

\* get_at_keys without metadata makes a key object of a name.
LEMMA ListKeeps ==
    ASSUME TypeOK, RecordsInv, NEW n \in Names, List(n)
    PROVE  RecordsInv'
  <1>1. /\ store[n] # None
        /\ keys' = [keys EXCEPT !["found"] = FromString(n)]
        /\ UNCHANGED server /\ fresh' = fresh /\ scanned' = scanned
    BY DEF List
  <1>2. ProperName(n) /\ ("public" \in fresh => ~n.public)
    BY <1>1 DEF RecordsInv, StoreFits, FreshFits
  <1> QED
    BY <1>1, <1>2, KeysOfNames, FoundKeeps

\* get_at_keys with metadata makes one of a name and of what the server says of it.
LEMMA FetchKeeps ==
    ASSUME TypeOK, RecordsInv, FetchMetadata
    PROVE  RecordsInv'
  <1> DEFINE made == FromString(scanned)
             key == [made EXCEPT !.metadata = Squash(made.metadata, FromJson(scanned))]
  <1>1. /\ scanned # None /\ store[scanned] # None
        /\ keys' = [keys EXCEPT !["found"] = key]
        /\ UNCHANGED server /\ fresh' = fresh /\ scanned' = None
    BY DEF FetchMetadata
  <1>2. scanned \in Names /\ store[scanned] \in Records
    BY <1>1 DEF TypeOK
  <1>3. /\ ProperName(scanned)
        /\ "public" \in fresh => ~scanned.public
    BY <1>1 DEF RecordsInv, ScanFits, FreshFits
  <1>4. made \in AtKeys /\ ProperKey(made) /\ made.type = KeyType(scanned)
    BY <1>2, <1>3, KeysOfNames
  <1>5. /\ key \in AtKeys
        /\ key.type = made.type /\ key.with = made.with
        /\ key.metadata.isPublic = made.metadata.isPublic
        /\ key.metadata.isCached = made.metadata.isCached
        /\ key.metadata.isEncrypted = made.metadata.isEncrypted
    BY <1>2, FetchTyped
  <1> HIDE DEF key, made
  <1>6. ProperKey(key)
    BY <1>4, <1>5 DEF ProperKey
  <1> QED
    BY <1>1, <1>2, <1>3, <1>4, <1>5, <1>6, FoundKeeps

\* Steps that change nothing but what scan has brought back.
LEMMA ScanKeeps ==
    ASSUME TypeOK, RecordsInv, UNCHANGED <<server, puts, keys, fresh>>,
           scanned' \in {scanned, None} \/ (scanned' \in Names /\ store[scanned'] # None)
    PROVE  RecordsInv'
  <1>1. PublicCached' = PublicCached /\ \A n \in Names : ProperName(n)' <=> ProperName(n)
    BY DEF PublicCached, ProperName
  <1>2. KeysFit'
    BY <1>1 DEF RecordsInv, KeysFit, ProperKey
  <1>3. StoreFits' /\ LatestFits'
    BY <1>1, StoreStays DEF RecordsInv
  <1>4. FreshFits'
    BY DEF RecordsInv, FreshFits, StoreFits, server
  <1>5. ScanFits'
    BY <1>1 DEF RecordsInv, ScanFits, StoreFits, ProperName
  <1> QED
    BY <1>2, <1>3, <1>4, <1>5 DEF RecordsInv

-----------------------------------------------------------------------------
(* The invariant holds. *)

\* New key objects, no records.
LEMMA RecordsInitial == Init => TypeOK /\ RecordsInv
  <1> SUFFICES ASSUME Init
               PROVE  TypeOK /\ RecordsInv
    OBVIOUS
  <1> USE AtSignAssumption, NoneAssumption, NothingAssumption, BoundAssumption DEF Init
  <1>1. ASSUME NEW s \in Made
        PROVE  /\ keys[s] = InitialKey(s) /\ keys[s] \in AtKeys
               /\ NewlyFlagged(keys[s])
               /\ keys[s].type = "public" => keys[s].with = NoOne
               /\ keys[s].type = "self" => keys[s].with \in {NoOne, me}
               /\ keys[s].type = "shared" => keys[s].with = other
    <2>1. keys[s] = InitialKey(s)
      BY DEF Slots
    <2>2. CASE s = "public"
      <3>1. keys[s] = NewKey("public", NoOne)
        BY <2>1, <2>2 DEF InitialKey
      <3>2. /\ NewKey("public", NoOne) \in AtKeys
            /\ NewKey("public", NoOne).type = "public"
            /\ NewKey("public", NoOne).with = NoOne
            /\ NewlyFlagged(NewKey("public", NoOne))
        BY NewKeys
      <3> HIDE DEF Init
      <3> QED
        BY <2>1, <3>1, <3>2
    <2>3. CASE s = "self"
      <3>1. keys[s] = NewKey("self", NoOne)
        BY <2>1, <2>3 DEF InitialKey
      <3>2. /\ NewKey("self", NoOne) \in AtKeys
            /\ NewKey("self", NoOne).type = "self"
            /\ NewKey("self", NoOne).with = NoOne
            /\ NewlyFlagged(NewKey("self", NoOne))
        BY NewKeys
      <3> HIDE DEF Init
      <3> QED
        BY <2>1, <3>1, <3>2
    <2>4. CASE s = "mine"
      <3>1. keys[s] = NewKey("self", me)
        BY <2>1, <2>4 DEF InitialKey
      <3>2. /\ NewKey("self", me) \in AtKeys
            /\ NewKey("self", me).type = "self"
            /\ NewKey("self", me).with = me
            /\ NewlyFlagged(NewKey("self", me))
        BY NewKeys
      <3> HIDE DEF Init
      <3> QED
        BY <2>1, <3>1, <3>2
    <2>5. CASE s = "shared"
      <3>1. keys[s] = NewKey("shared", other)
        BY <2>1, <2>5 DEF InitialKey
      <3>2. /\ NewKey("shared", other) \in AtKeys
            /\ NewKey("shared", other).type = "shared"
            /\ NewKey("shared", other).with = other
            /\ NewlyFlagged(NewKey("shared", other))
        BY NewKeys
      <3> HIDE DEF Init
      <3> QED
        BY <2>1, <3>1, <3>2
    <2> QED
      BY <2>2, <2>3, <2>4, <2>5 DEF Made
  <1>2. keys["found"] = None /\ "public" \in Made
    BY DEF Slots, InitialKey, Made
  <1>3. PublicCached = FALSE
    BY <1>1, <1>2 DEF PublicCached, AtKeys, Metadata, NewlyFlagged
  <1>4. keys \in [Slots -> AtKeys \cup {None}]
    <2>1. keys = [s \in Slots |-> InitialKey(s)]
      OBVIOUS
    <2>2. \A s \in Slots : InitialKey(s) \in AtKeys \cup {None}
      BY <1>1, <1>2, <2>1 DEF Slots
    <2> QED
      BY <2>1, <2>2
  <1>5. TypeOK
    <2>1. \A s \in Made : keys[s] # None
      BY <1>1
    <2> QED
      BY <1>4, <2>1 DEF TypeOK
  <1>6. KeysFit
    <2>1. \A s \in Made : ProperKey(keys[s])
      <3> SUFFICES ASSUME NEW s \in Made
                   PROVE  ProperKey(keys[s])
        OBVIOUS
      <3>1. keys[s].type \in {"public", "self", "shared"} /\ keys[s].metadata.isCached \in BOOLEAN
        BY <1>1 DEF AtKeys, Metadata
      <3> QED
        <4>1. CASE keys[s].type = "public"
          BY <1>1, <1>3, <4>1 DEF ProperKey, NewlyFlagged
        <4>2. CASE keys[s].type = "self"
          <5>1. keys[s].with \in {NoOne, me} /\ NewlyFlagged(keys[s])
            BY <1>1, <4>2
          <5> HIDE DEF Init
          <5> QED
            BY <4>2, <5>1 DEF ProperKey, NewlyFlagged
        <4>3. CASE keys[s].type = "shared"
          <5>1. keys[s].with = other /\ NewlyFlagged(keys[s])
            BY <1>1, <4>3
          <5> HIDE DEF Init
          <5> QED
            BY <4>3, <5>1 DEF ProperKey, NewlyFlagged
        <4> QED
          BY <3>1, <4>1, <4>2, <4>3
    <2> QED
      BY <1>1, <1>2, <2>1 DEF KeysFit, Slots
  <1>7. StoreFits /\ LatestFits /\ FreshFits /\ ScanFits
    <2>1. \A n \in Names : TheKey(n) \in Names
      BY KeyFields
    <2>2. StoreFits /\ LatestFits
      BY <2>1 DEF StoreFits, LatestFits
    <2> QED
      BY <1>2, <2>2 DEF FreshFits, ScanFits
  <1> QED
    BY <1>5, <1>6, <1>7 DEF RecordsInv

\* By the lemmas on the actions.
LEMMA RecordsInductive ==
    ASSUME TellsPublic, TypeOK, RecordsInv, [Next]_vars
    PROVE  RecordsInv'
  <1>1. ASSUME NEW s \in Slots, Put(s) \/ Notify(s) \/ Get(s) \/ Delete(s)
        PROVE  RecordsInv'
    BY <1>1, PutKeeps, NotifyKeeps, GetKeeps, DeleteKeeps
  <1>2. ASSUME NEW s \in Made, Cache(s) \/ SetTimeToLive(s) \/ PutLegacy(s)
        PROVE  RecordsInv'
    BY <1>2, CacheKeeps, TimeToLiveKeeps, PutLegacyKeeps
  <1>3. ASSUME NEW n \in Names, PromptDelete(n) \/ Expire(n) \/ List(n)
        PROVE  RecordsInv'
    BY <1>3, PromptDeleteKeeps, ExpireKeeps, ListKeeps
  <1>4. ASSUME NEW n \in Names, Scan(n)
        PROVE  RecordsInv'
    BY <1>4, ScanKeeps DEF Scan
  <1>5. ASSUME FetchMetadata
        PROVE  RecordsInv'
    BY <1>5, FetchKeeps
  <1>6. ASSUME FetchFails
        PROVE  RecordsInv'
    BY <1>6, ScanKeeps DEF FetchFails
  <1>7. ASSUME UNCHANGED vars
        PROVE  RecordsInv'
    BY <1>7, ScanKeeps DEF vars
  <1> QED
    BY <1>1, <1>2, <1>3, <1>4, <1>5, <1>6, <1>7 DEF Next

\* Types hold in every state.
LEMMA TypesInvariant == Spec => []TypeOK
  <1>1. TypeOK /\ [Next]_vars => TypeOK'
    BY TypesInductive
  <1>2. Init => TypeOK
    BY RecordsInitial
  <1> QED
    BY <1>1, <1>2, PTL DEF Spec

\* So does the invariant.
LEMMA RecordsInvariant ==
    ASSUME TellsPublic
    PROVE  Spec => [](TypeOK /\ RecordsInv)
  <1>1. TypeOK /\ RecordsInv /\ [Next]_vars => (TypeOK /\ RecordsInv)'
    BY TypesInductive, RecordsInductive
  <1> QED
    BY <1>1, RecordsInitial, PTL DEF Spec

-----------------------------------------------------------------------------
(* The theorems. *)

\* Every variable has its type, whatever the server sends: what from_json, from_dict and
\* squash make of its metadata is metadata again, put sends no value without its IV, and
\* no key object of the application is lost.
THEOREM RecordsTypeCorrect == Spec => []TypeOK
  BY TypesInvariant

\* Whatever a key object has been through, puts, gets of other records, notifies and
\* scans: a get with it reads what was last put for its key, with the right key and IV,
\* and finds nothing only when there is nothing; unless cache() was called on a SharedKey,
\* or the server does not say what is public.
THEOREM ReadsAreRight ==
    ASSUME TellsPublic, ~CachesShared
    PROVE  Spec => []ReadsWhatWasPut
  <1>1. ASSUME TypeOK, RecordsInv
        PROVE  ReadsWhatWasPut
    <2> SUFFICES ASSUME NEW s \in Slots, keys[s] # None
                 PROVE  LET n == NameOf(keys[s]) IN
                        IF store[n] = None THEN latest[Intended(keys[s])] = None
                        ELSE store[n].value = latest[Intended(keys[s])] /\ Decrypts(keys[s], n)
      BY DEF ReadsWhatWasPut
    <2> DEFINE n == NameOf(keys[s])
    <2>1. PublicCached \in BOOLEAN /\ keys[s] \in AtKeys /\ ProperKey(keys[s])
      BY <1>1, SlotsAreFull DEF RecordsInv
    <2>2. /\ n \in Names /\ ProperName(n) /\ TheKey(n) = Intended(keys[s])
          /\ KindOf(n) = IF keys[s].type = "public" THEN "nothing" ELSE keys[s].type
      BY <2>1, NamesOfKeys
    <2>3. keys[s].type \in {"public", "self", "shared"}
      BY <2>1 DEF AtKeys
    <2> HIDE DEF n
    <2>4. IF store[n] = None THEN latest[Intended(keys[s])] = None
          ELSE store[n].value = latest[Intended(keys[s])]
      BY <1>1, <2>2 DEF RecordsInv, LatestFits
    <2>5. ASSUME store[n] # None
          PROVE  Decrypts(keys[s], n)
      <3>1. ProperRecord(n, store[n])
        BY <1>1, <2>2, <2>5 DEF RecordsInv, StoreFits
      <3>2. CASE keys[s].type = "public"
        BY <2>2, <3>1, <3>2 DEF ProperRecord, Decrypts
      <3>3. CASE keys[s].type # "public"
        BY <2>2, <2>3, <3>1, <3>3 DEF ProperRecord, Decrypts, IvFetched
      <3> QED
        BY <3>2, <3>3
    <2> QED
      BY <2>4, <2>5 DEF n
  <1> QED
    BY <1>1, RecordsInvariant, PTL

\* After delete, whichever key object names the record, no name of that key has one,
\* under the same hypotheses.
THEOREM DeletesAreComplete ==
    ASSUME TellsPublic, ~CachesShared
    PROVE  Spec => []DeletedIsGone
  <1>1. ASSUME TypeOK, RecordsInv
        PROVE  DeletedIsGone
    BY <1>1 DEF DeletedIsGone, RecordsInv, StoreFits, LatestFits
  <1> QED
    BY <1>1, RecordsInvariant, PTL

\* No sequence of calls leaves two records of one key, cached: and not, whatever key
\* objects cache() is called on.
THEOREM KeysHaveOneRecord ==
    ASSUME TellsPublic
    PROVE  Spec => []OneRecordPerKey
  <1>1. ASSUME TypeOK, RecordsInv
        PROVE  OneRecordPerKey
    BY <1>1, OneProperName DEF OneRecordPerKey, RecordsInv, StoreFits
  <1> QED
    BY <1>1, RecordsInvariant, PTL

\* A record's name and metadata agree with how its value was encrypted, whatever key
\* objects cache() is called on, if the server sends both flags they depend on.
THEOREM RecordsTellHowToRead ==
    ASSUME TellsPublic, TellsEncrypted
    PROVE  Spec => []RecordFitsItsName
  <1>1. ASSUME TypeOK, RecordsInv
        PROVE  RecordFitsItsName
    <2> SUFFICES ASSUME NEW n \in Names, store[n] # None
                 PROVE  /\ store[n].with = (IF KeyType(n) = "public" THEN "nothing" ELSE KeyType(n))
                        /\ store[n].isEncrypted <=> store[n].with # "nothing"
                        /\ store[n].with # "nothing" =>
                              store[n].under = IF store[n].iv = None THEN LegacyIv ELSE store[n].iv
      BY DEF RecordFitsItsName
    <2> QED
      BY <1>1 DEF RecordsInv, StoreFits, ProperRecord, KindOf
  <1> QED
    BY <1>1, RecordsInvariant, PTL

\* The key object get_at_keys or the prompt makes of a stored name names that record again,
\* in a get and in a delete, and decrypts it, whatever key objects cache() is called on.
THEOREM NamesNameThemselves ==
    ASSUME TellsPublic
    PROVE  Spec => []NamesComeBack
  <1>1. ASSUME TypeOK, RecordsInv
        PROVE  NamesComeBack
    <2> SUFFICES ASSUME NEW n \in Names, store[n] # None
                 PROVE  /\ NameOf(FromString(n)) = n
                        /\ TypedKey(n) # None
                        /\ NameOf(TypedKey(n)) = n /\ Built(TypedKey(n)) = n
                        /\ Decrypts(TypedKey(n), n)
      BY DEF NamesComeBack
    <2>1. ProperName(n) /\ ProperRecord(n, store[n])
      BY <1>1 DEF RecordsInv, StoreFits
    <2>2. /\ NameOf(FromString(n)) = n
          /\ TypedKey(n) \in AtKeys /\ TypedKey(n).type = KeyType(n)
          /\ NameOf(TypedKey(n)) = n /\ Built(TypedKey(n)) = n
      BY <2>1, KeysOfNames
    <2>3. Decrypts(TypedKey(n), n)
      <3>1. CASE KeyType(n) = "public"
        BY <2>1, <2>2, <3>1 DEF ProperRecord, KindOf, Decrypts
      <3>2. CASE KeyType(n) # "public"
        <4>1. KeyType(n) \in {"self", "shared"}
          BY <3>2 DEF KeyType
        <4> QED
          BY <2>1, <2>2, <4>1 DEF ProperRecord, KindOf, Decrypts, IvFetched
      <3> QED
        BY <3>1, <3>2
    <2> QED
      BY <2>2, <2>3, NothingAssumption
  <1> QED
    BY <1>1, RecordsInvariant, PTL

\* What was put for others under a name without cached: is where plookup and lookup look.
THEOREM OthersFindRecords ==
    ASSUME TellsPublic
    PROVE  Spec => []OthersFindIt
  <1>1. ASSUME TypeOK, RecordsInv
        PROVE  OthersFindIt
    <2> SUFFICES ASSUME NEW s \in {"public", "shared"}, ~keys[s].metadata.isCached,
                        latest[Intended(keys[s])] # None
                 PROVE  store[NameForOthers(keys[s])] # None
      BY DEF OthersFindIt
    <2>1. /\ s \in Slots /\ s \in Made /\ keys[s] # None
          /\ PublicCached \in BOOLEAN /\ keys[s] \in AtKeys /\ ProperKey(keys[s])
      BY <1>1, SlotsAreFull DEF RecordsInv, Made
    <2>2. store[NameOf(keys[s])] # None
      <3>1. /\ NameOf(keys[s]) \in Names /\ ProperName(NameOf(keys[s]))
            /\ TheKey(NameOf(keys[s])) = Intended(keys[s])
        BY <2>1, NamesOfKeys
      <3> QED
        BY <1>1, <3>1 DEF RecordsInv, LatestFits
    <2>3. keys[s].type = s
      BY <1>1, <2>1 DEF RecordsInv, KeysFit, InitialKey, NewKey
    <2>4. NameForOthers(keys[s]) = NameOf(keys[s])
      <3>1. CASE s = "public"
        <4>1. /\ keys[s].metadata.isCached = FALSE /\ keys[s].metadata.isPublic = TRUE
              /\ keys[s].with = NoOne
          BY <2>1, <2>3, <3>1 DEF ProperKey, AtKeys, Metadata
        <4> DEFINE name == [cached |-> FALSE, public |-> TRUE, with |-> NoOne]
        <4>2. Str(keys[s]) = name
          BY <4>1 DEF Str
        <4>3. NameForOthers(keys[s]) = name
          <5> DEFINE renamed == [name EXCEPT !.public = TRUE]
          <5>1. renamed = name
            <6>1. name \in Names /\ name.public = TRUE
              BY DEF Names
            <6> HIDE DEF name
            <6>2. renamed \in Names
              BY <6>1 DEF Names
            <6>3. /\ renamed.cached = name.cached /\ renamed.public = name.public
                  /\ renamed.with = name.with
              BY <6>1 DEF Names
            <6> HIDE DEF renamed
            <6> QED
              BY <6>1, <6>2, <6>3 DEF Names
          <5>2. NameForOthers(keys[s]) = [Str(keys[s]) EXCEPT !.public = TRUE]
            BY <2>3, <3>1 DEF NameForOthers
          <5> HIDE DEF name
          <5> QED
            BY <4>2, <5>1, <5>2
        <4>4. NameOf(keys[s]) = name
          BY <2>3, <3>1, <4>1 DEF NameOf, Built
        <4> QED
          BY <4>3, <4>4
      <3>2. CASE s = "shared"
        BY <2>3, <3>2 DEF NameForOthers, NameOf
      <3> QED
        BY <3>1, <3>2
    <2> QED
      BY <2>2, <2>4
  <1> QED
    BY <1>1, RecordsInvariant, PTL
=============================================================================
