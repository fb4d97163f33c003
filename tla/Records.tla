------------------------------ MODULE Records -------------------------------
(***************************************************************************)
(* Records of every kind under one name, the key objects an application    *)
(* names them with, and the commands AtClient makes of both: put, get,     *)
(* notify and delete of a PublicKey, a SelfKey and a SharedKey,            *)
(* get_at_keys, and the prompt of the REPL, where a record is named by its *)
(* text (at_client/atclient.py, common/keys.py, common/metadata.py,        *)
(* util/keystringutil.py, util/verbbuilder.py, examples/repl.py).          *)
(*                                                                         *)
(* A key object is mutable: put, get, notify and cache() change its        *)
(* metadata, and the name in the next command is made of the metadata.     *)
(* All records here belong to one atSign and have one name, so that a full *)
(* name is what is left: the prefixes, and the atSign it is shared with.   *)
(* Names that begin with "_" are left out, and "cached:" names of SelfKeys,*)
(* of which from_string makes no key and which no call here gives.         *)
(*                                                                         *)
(* A call is one step: its last command, between whose request and reply   *)
(* the key object does not change.  How the AES key of a SharedKey comes   *)
(* about is the matter of SharedKeys.                                      *)
(***************************************************************************)
EXTENDS Naturals

CONSTANTS
    me,        \* the atSign the records belong to
    other,     \* the atSign its SharedKey is shared with
    NoOne,     \* no atSign
    None,      \* Python's None; no record, no key object
    Cached,    \* the slots whose key object the application calls cache() on
    Sends,     \* the flags the server's metadata carries
    Timed,     \* the slots whose key object it may give a time to live
    MayFail,   \* may a command be refused, or its reply lost?
    MaxPuts    \* bound: how many values are put, and notified, in all

\* The key objects of the application: a PublicKey, a SelfKey, a SelfKey shared with
\* its own atSign, a SharedKey, and one that get_at_keys has returned.
Made == {"public", "self", "mine", "shared"}
Slots == Made \cup {"found"}

ASSUME AtSignAssumption == me # other /\ NoOne \notin {me, other}
ASSUME NoneAssumption == None \notin BOOLEAN /\ None \notin Nat
ASSUME CachedAssumption == Cached \subseteq {"public", "shared"}
ASSUME TimedAssumption == Timed \subseteq Made
ASSUME SendsAssumption == Sends \subseteq {"isPublic", "isCached", "isEncrypted"}
ASSUME FailAssumption == MayFail \in BOOLEAN
ASSUME BoundAssumption == MaxPuts \in Nat

VARIABLES
    store,     \* store[n]: the record with the full name n, or None
    latest,    \* latest[k]: the value last put for the key k, or None once it is gone
    puts,      \* how many values were put or notified: it numbers the values and the IVs
    keys,      \* keys[s]: the key object in slot s, or None
    fresh,     \* the slots whose key object no call has had yet
    scanned    \* the name get_at_keys is fetching the metadata of, or None

server == <<store, latest>>
vars == <<server, puts, keys, fresh, scanned>>

-----------------------------------------------------------------------------
(* Names, metadata, key objects. *)

\* cached:public:@with:name@me
Names == [cached : BOOLEAN, public : BOOLEAN, with : {me, other, NoOne}]

\* The keys an application has in mind: a name without what cache() adds to it.
TheKey(n) == [n EXCEPT !.cached = FALSE]

\* KeyStringUtil._evaluate
KeyType(n) ==
    IF n.public THEN "public"
    ELSE IF n.with \in {NoOne, me} THEN "self"
    ELSE "shared"

Ivs == 1..MaxPuts
LegacyIv == 0

\* Of the fields of Metadata: one that is a number, the flags that decide on a name or
\* on what is sent, and ivNonce.
Fields == {"ttl", "isPublic", "isCached", "isEncrypted", "iv"}
Metadata ==
    [ttl : {0, 1}, isPublic : BOOLEAN, isCached : BOOLEAN, isEncrypted : BOOLEAN,
     iv : Ivs \cup {None}]

AtKeys == [type : {"public", "self", "shared"}, with : {me, other, NoOne}, metadata : Metadata]

\* The constructors of PublicKey, SelfKey and SharedKey.
NewKey(type, with) ==
    [type |-> type, with |-> with,
     metadata |-> [ttl |-> 0, isPublic |-> type = "public", isCached |-> FALSE,
                   isEncrypted |-> type # "public", iv |-> None]]

\* Mutant: a key object that was made of a name does not know that the name is "cached:".
FromStringUncached(n) == NewKey(KeyType(n), IF n.public THEN NoOne ELSE n.with)

\* Keys.from_string
FromString(n) ==
    [NewKey(KeyType(n), IF n.public THEN NoOne ELSE n.with) EXCEPT !.metadata.isCached = n.cached]

\* Mutant: the prompt makes every key with Keys.from_string, and forgets cached.
TypedKeyUncached(n) == FromStringUncached(n)

\* SharedKey.from_string takes a name of two parts: with "cached:" there are three.
SharedKeyFromString(n) == IF n.cached THEN None ELSE NewKey("shared", n.with)

\* The key object /get and /delete make at the prompt.
TypedKey(n) == IF KeyType(n) = "shared" THEN SharedKeyFromString(n) ELSE FromString(n)

\* AtKey.__str__
Str(key) ==
    [cached |-> FALSE, public |-> key.metadata.isPublic,
     with |-> IF key.metadata.isPublic THEN NoOne ELSE key.with]

\* Mutant: a builder that forgets with_at_key's set_is_public.
BuiltWithoutPublic(key) ==
    [cached |-> key.metadata.isCached, public |-> FALSE, with |-> key.with]

\* The name in a command of UpdateVerbBuilder, LlookupVerbBuilder, DeleteVerbBuilder.
Built(key) ==
    [cached |-> key.metadata.isCached, public |-> key.metadata.isPublic, with |-> key.with]

\* The name under which put stores, and get looks, for a key of one's own.
NameOf(key) == IF key.type = "shared" THEN Str(key) ELSE Built(key)

\* The record plookup and lookup find for another atSign.
NameForOthers(key) == IF key.type = "public" THEN [Str(key) EXCEPT !.public = TRUE] ELSE Str(key)

\* Metadata.squash
Squash(first, second) ==
    [f \in Fields |-> IF first[f] # None THEN first[f] ELSE second[f]]

Sent(flag, value, default) == IF flag \in Sends THEN value ELSE default

\* Metadata.from_dict of what the server has for the record with name n.
FromDict(n) ==
    [ttl |-> store[n].ttl,
     isPublic |-> Sent("isPublic", n.public, FALSE),
     isCached |-> Sent("isCached", n.cached, FALSE),
     isEncrypted |-> Sent("isEncrypted", store[n].isEncrypted, TRUE),
     iv |-> store[n].iv]

\* Metadata.from_json: ttl is overwritten by ttln, which no put sends.
FromJson(n) == [FromDict(n) EXCEPT !.ttl = None]

\* A value, the key and the IV it was encrypted with, and the metadata sent along.
Records ==
    [value : 1..MaxPuts, with : {"nothing", "self", "shared"}, under : Ivs \cup {LegacyIv},
     iv : Ivs \cup {None}, ttl : {0, 1}, isEncrypted : BOOLEAN]

ASSUME NothingAssumption == None \notin Names /\ None \notin AtKeys /\ None \notin Records

TypeOK ==
    /\ store \in [Names -> Records \cup {None}]
    /\ latest \in [Names -> 1..MaxPuts \cup {None}]
    /\ puts \in 0..MaxPuts
    /\ keys \in [Slots -> AtKeys \cup {None}]
    /\ fresh \subseteq Made
    /\ scanned \in Names \cup {None}
    /\ \A s \in Made : keys[s] # None

InitialKey(s) ==
    CASE s = "public" -> NewKey("public", NoOne)
      [] s = "self" -> NewKey("self", NoOne)
      [] s = "mine" -> NewKey("self", me)
      [] s = "shared" -> NewKey("shared", other)
      [] s = "found" -> None

Init ==
    /\ store = [n \in Names |-> None]
    /\ latest = [n \in Names |-> None]
    /\ puts = 0
    /\ keys = [s \in Slots |-> InitialKey(s)]
    /\ fresh = Made
    /\ scanned = None

-----------------------------------------------------------------------------
(* What the application does with a key object before a call. *)

Cache(s) ==
    /\ s \in fresh \cap Cached
    /\ keys' = [keys EXCEPT ![s].metadata.isCached = TRUE]
    /\ UNCHANGED <<server, puts, fresh, scanned>>

SetTimeToLive(s) ==
    /\ s \in fresh \cap Timed
    /\ keys' = [keys EXCEPT ![s].metadata.ttl = 1]
    /\ UNCHANGED <<server, puts, fresh, scanned>>

-----------------------------------------------------------------------------
(* put and notify *)

\* The key the application has in mind: that of the object's class, whatever its
\* metadata say.
Intended(key) ==
    [cached |-> FALSE, public |-> key.type = "public",
     with |-> IF key.type = "public" THEN NoOne ELSE key.with]

\* put gives the key object an IV, unless it has one.
WithIv(key) ==
    IF key.type # "public" /\ key.metadata.iv = None
    THEN [key EXCEPT !.metadata.iv = puts + 1] ELSE key

\* Mutant: UpdateVerbBuilder does not hand iv_nonce on to the metadata it sends.
SentWithoutIv(key) ==
    [value |-> puts + 1,
     with |-> IF key.type = "public" THEN "nothing" ELSE key.type,
     under |-> IF key.type = "public" THEN LegacyIv ELSE key.metadata.iv,
     iv |-> None,
     ttl |-> key.metadata.ttl,
     isEncrypted |-> key.metadata.isEncrypted]

\* The value, encrypted, and Metadata.__str__.
SentRecord(key) ==
    [value |-> puts + 1,
     with |-> IF key.type = "public" THEN "nothing" ELSE key.type,
     under |-> IF key.type = "public" THEN LegacyIv ELSE key.metadata.iv,
     iv |-> key.metadata.iv,
     ttl |-> key.metadata.ttl,
     isEncrypted |-> key.metadata.isEncrypted]

\* A put whose command is refused changes the key object only; one whose reply is lost
\* has changed the record too.
Put(s) ==
    /\ keys[s] # None
    /\ puts < MaxPuts
    /\ puts' = puts + 1
    /\ LET key == WithIv(keys[s]) IN
          /\ keys' = [keys EXCEPT ![s] = key]
          /\ \/ /\ store' = [store EXCEPT ![NameOf(key)] = SentRecord(key)]
                /\ latest' = [latest EXCEPT ![Intended(key)] = puts + 1]
             \/ MayFail /\ UNCHANGED server
    /\ fresh' = fresh \ {s}
    /\ UNCHANGED scanned

\* A client that knows no ivNonce puts a SelfKey: the value is encrypted under the zero IV.
PutLegacy(s) ==
    /\ s \in {"self", "mine"}
    /\ puts < MaxPuts
    /\ puts' = puts + 1
    /\ LET n == Intended(InitialKey(s)) IN
          /\ store' = [store EXCEPT ![n] = [value |-> puts + 1, with |-> "self",
                                            under |-> LegacyIv, iv |-> None, ttl |-> 0,
                                            isEncrypted |-> TRUE]]
          /\ latest' = [latest EXCEPT ![n] = puts + 1]
    /\ UNCHANGED <<keys, fresh, scanned>>

\* notify puts a new IV in the key object, whatever comes of the command.
Notify(s) ==
    /\ keys[s] # None
    /\ keys[s].type = "shared"
    /\ puts < MaxPuts
    /\ puts' = puts + 1
    /\ keys' = [keys EXCEPT ![s].metadata.iv = puts + 1]
    /\ fresh' = fresh \ {s}
    /\ UNCHANGED <<server, scanned>>

-----------------------------------------------------------------------------
(* get *)

\* Mutant: without an ivNonce in the record, that of the key object is used.
IvFetchedOrOwn(key, n) ==
    IF store[n].iv # None THEN store[n].iv
    ELSE IF key.metadata.iv # None THEN key.metadata.iv ELSE LegacyIv

\* _iv_from_fetched
IvFetched(key, n) == IF store[n].iv # None THEN store[n].iv ELSE LegacyIv

\* Does what is read with the key object, from the record n, come out as it went in?
Decrypts(key, n) ==
    \/ key.type = "public" /\ store[n].with = "nothing"
    \/ key.type = store[n].with /\ IvFetched(key, n) = store[n].under

\* A get of one's own SelfKey or PublicKey brings the metadata of the record with it.
Refreshed(key, n) ==
    LET squashed == [key EXCEPT !.metadata = Squash(FromDict(n), key.metadata)]
    IN  IF key.type = "public" THEN [squashed EXCEPT !.metadata.isCached = n.cached] ELSE squashed

\* A get that raises leaves the key object alone: what changes nothing is no action.
Get(s) ==
    /\ keys[s] # None
    /\ LET n == NameOf(keys[s]) IN
          /\ store[n] # None
          /\ Decrypts(keys[s], n)
          /\ keys' = IF keys[s].type = "shared" THEN keys
                     ELSE [keys EXCEPT ![s] = Refreshed(@, n)]
    /\ fresh' = fresh \ {s}
    /\ UNCHANGED <<server, puts, scanned>>

-----------------------------------------------------------------------------
(* delete *)

\* Mutant: a delete by the name of the key object rather than of the builder.
DeleteByStr(s) ==
    /\ keys[s] # None
    /\ store' = [store EXCEPT ![Str(keys[s])] = None]
    /\ latest' = [latest EXCEPT ![Intended(keys[s])] = None]
    /\ fresh' = fresh \ {s}
    /\ UNCHANGED <<puts, keys, scanned>>

Delete(s) ==
    /\ keys[s] # None
    /\ store' = [store EXCEPT ![Built(keys[s])] = None]
    /\ latest' = [latest EXCEPT ![Intended(keys[s])] = None]
    /\ fresh' = fresh \ {s}
    /\ UNCHANGED <<puts, keys, scanned>>

\* /delete at the prompt.
PromptDelete(n) ==
    /\ store[n] # None
    /\ TypedKey(n) # None
    /\ store' = [store EXCEPT ![Built(TypedKey(n))] = None]
    /\ latest' = [latest EXCEPT ![TheKey(n)] = None]
    /\ UNCHANGED <<puts, keys, fresh, scanned>>

\* The server's: a record whose ttl is over.
Expire(n) ==
    /\ store[n] # None
    /\ store[n].ttl # 0
    /\ store' = [store EXCEPT ![n] = None]
    /\ latest' = [latest EXCEPT ![TheKey(n)] = None]
    /\ UNCHANGED <<puts, keys, fresh, scanned>>

-----------------------------------------------------------------------------
(* get_at_keys *)

\* scan: one of the names it brings back.
Scan(n) ==
    /\ scanned = None
    /\ store[n] # None
    /\ scanned' = n
    /\ UNCHANGED <<server, puts, keys, fresh>>

\* get_at_keys without metadata, as /scan calls it: one of the key objects it returns.
List(n) ==
    /\ store[n] # None
    /\ keys' = [keys EXCEPT !["found"] = FromString(n)]
    /\ UNCHANGED <<server, puts, fresh, scanned>>

\* Mutant: the metadata that come back replace those from_string has made.
FetchMetadataRaw ==
    /\ scanned # None
    /\ store[scanned] # None
    /\ keys' = [keys EXCEPT !["found"] = [FromString(scanned) EXCEPT !.metadata = FromJson(scanned)]]
    /\ scanned' = None
    /\ UNCHANGED <<server, puts, fresh>>

\* llookup:meta: of that name, and the key object made of both.
FetchMetadata ==
    /\ scanned # None
    /\ store[scanned] # None
    /\ LET key == FromString(scanned) IN
          keys' = [keys EXCEPT !["found"] =
                      [key EXCEPT !.metadata = Squash(key.metadata, FromJson(scanned))]]
    /\ scanned' = None
    /\ UNCHANGED <<server, puts, fresh>>

\* The record has gone since, or the command fails: get_at_keys raises.
FetchFails ==
    /\ scanned # None
    /\ store[scanned] = None \/ MayFail
    /\ scanned' = None
    /\ UNCHANGED <<server, puts, keys, fresh>>

-----------------------------------------------------------------------------
Next ==
    \/ \E s \in Slots : Put(s) \/ Notify(s) \/ Get(s) \/ Delete(s)
    \/ \E s \in Made : Cache(s) \/ SetTimeToLive(s) \/ PutLegacy(s)
    \/ \E n \in Names : PromptDelete(n) \/ Expire(n) \/ Scan(n) \/ List(n)
    \/ FetchMetadata \/ FetchFails

Spec == Init /\ [][Next]_vars

-----------------------------------------------------------------------------
\* Whatever calls came before, a get with any key object of the application finds the
\* value that was last put for that key, by this object or another, in clear; and it
\* finds nothing only if nothing was put, or what was put is gone.
ReadsWhatWasPut ==
    \A s \in Slots : keys[s] # None =>
        LET n == NameOf(keys[s]) IN
        IF store[n] = None THEN latest[Intended(keys[s])] = None
        ELSE store[n].value = latest[Intended(keys[s])] /\ Decrypts(keys[s], n)

\* What was deleted is gone, under each of its names.  (README.md, "Deleting data")
DeletedIsGone == \A n \in Names : latest[TheKey(n)] = None => store[n] = None

\* No key ever has two records: a put replaces, under the name it replaces.
OneRecordPerKey ==
    \A m, n \in Names :
        store[m] # None /\ store[n] # None /\ TheKey(m) = TheKey(n) => m = n

\* A record is of the kind its name tells, and its metadata tell how to read it: in clear
\* where others may read it, and nowhere else.
RecordFitsItsName ==
    \A n \in Names : store[n] # None =>
        /\ store[n].with = (IF KeyType(n) = "public" THEN "nothing" ELSE KeyType(n))
        /\ store[n].isEncrypted <=> store[n].with # "nothing"
        /\ store[n].with # "nothing" =>
              store[n].under = (IF store[n].iv = None THEN LegacyIv ELSE store[n].iv)

\* The name of each record names that record again: in the key object get_at_keys makes
\* of it, and at the prompt, which reads the value with it and deletes no other record.
NamesComeBack ==
    \A n \in Names : store[n] # None =>
        /\ NameOf(FromString(n)) = n
        /\ TypedKey(n) # None
        /\ NameOf(TypedKey(n)) = n /\ Built(TypedKey(n)) = n
        /\ Decrypts(TypedKey(n), n)

\* Another atSign that looks a key up by its own name for it finds it, unless the owner
\* has called cache() on it.
OthersFindIt ==
    \A s \in {"public", "shared"} :
        LET key == keys[s] IN
        ~key.metadata.isCached /\ latest[Intended(key)] # None => store[NameForOthers(key)] # None
=============================================================================
