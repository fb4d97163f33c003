----------------------------- MODULE SharedKeys -----------------------------
(***************************************************************************)
(* How two atSigns come to share an AES key, and what is read with it      *)
(* (at_client/atclient.py).  The sharer's clients put, notify, get and     *)
(* delete one SharedKey; the first that finds no key creates one and saves *)
(* it twice on the sharer's atServer: encrypted for the sharer, and        *)
(* encrypted for the recipient.  The recipient's client has two threads:   *)
(* the one that calls get, and the event loop that calls handle_event.     *)
(* They share the keys the client has cached.                              *)
(*                                                                         *)
(* A ciphertext is the AES key it was made with; its IV travels with it    *)
(* and is left out, and so are texts.  Encrypting a key with RSA and      *)
(* decrypting it gives the key back.  That a command ends with the reply   *)
(* to itself or with an exception is what AtConnection promises.           *)
(***************************************************************************)
EXTENDS Naturals

CONSTANTS
    Sharers,     \* the sharer's clients, each with one thread
    getter,      \* the recipient's thread that calls get
    eventLoop,   \* the recipient's thread that calls handle_event
    Keys,        \* bound: the AES keys generate_aes_key_base64 may return
    Nothing,     \* no record, no cached key, no key obtained yet
    MaxCalls,    \* bound: how many calls the sharers make in all
    Faults       \* what a command may end with: subset of {"error", "lost"}

Readers == {getter, eventLoop}
Threads == Sharers \cup Readers

ASSUME ThreadsAssumption == Sharers \cap Readers = {} /\ getter # eventLoop
ASSUME NothingAssumption == Nothing \notin Keys
ASSUME BoundAssumption == MaxCalls \in Nat
ASSUME FaultsAssumption == Faults \subseteq {"error", "lost"}

VARIABLES
    ours,      \* record shared_key.recipient@sharer: the key encrypted for the sharer
    theirs,    \* record @recipient:shared_key@sharer: the key encrypted for the recipient
    value,     \* record @recipient:name@sharer: a ciphertext
    inbox,     \* notifications on their way to, or in the queue of, the recipient
    cached,    \* self.keys["@recipient:shared_key@sharer"] of the recipient's client
    usable,    \* has the recipient's client its connection?
    created,   \* the AES keys that were generated: no two are equal
    calls,     \* how many calls the sharers have made
    pc,        \* pc[t]: the command thread t is at
    op,        \* op[t]: the method thread t is in, or called last
    key,       \* key[t]: the AES key that call uses
    cipher,    \* cipher[t]: the ciphertext that call decrypts
    status     \* status[t]: how the last call of t ended

server == <<ours, theirs, value, inbox>>
client == <<cached, usable>>
bounds == <<created, calls>>
locals == <<op, key, cipher>>
vars == <<server, client, bounds, pc, locals, status>>

-----------------------------------------------------------------------------
Notifications == [kind : {"sharedKey", "update"}, with : Keys]

TypeOK ==
    /\ ours \in Keys \cup {Nothing}
    /\ theirs \in Keys \cup {Nothing}
    /\ value \in Keys \cup {Nothing}
    /\ inbox \subseteq Notifications
    /\ cached \in Keys \cup {Nothing}
    /\ usable \in BOOLEAN
    /\ calls \in 0..MaxCalls
    /\ created \subseteq Keys
    /\ pc \in [Threads -> {"idle", "llookup", "plookup", "saveOurs", "saveTheirs",
                           "command", "lookup", "decrypt"}]
    /\ op \in [Threads -> {"none", "put", "notify", "get", "delete", "event"}]
    /\ key \in [Threads -> Keys \cup {Nothing}]
    /\ cipher \in [Threads -> Keys \cup {Nothing}]
    /\ status \in [Threads -> {"none", "returned", "raised"}]
    /\ \A w \in Sharers :
          pc[w] \in {"saveOurs", "saveTheirs"} \/ (pc[w] = "command" /\ op[w] # "delete")
              => key[w] # Nothing

Init ==
    /\ ours = Nothing
    /\ theirs = Nothing
    /\ value = Nothing
    /\ inbox = {}
    /\ cached = Nothing
    /\ usable = TRUE
    /\ created = {}
    /\ calls = 0
    /\ pc = [t \in Threads |-> "idle"]
    /\ op = [t \in Threads |-> "none"]
    /\ key = [t \in Threads |-> Nothing]
    /\ cipher = [t \in Threads |-> Nothing]
    /\ status = [t \in Threads |-> "none"]

-----------------------------------------------------------------------------
At(t, label) == pc[t] = label
Goto(t, label) == pc' = [pc EXCEPT ![t] = label] /\ UNCHANGED status
Finish(t, how) == pc' = [pc EXCEPT ![t] = "idle"] /\ status' = [status EXCEPT ![t] = how]

Begin(t, method, label) ==
    /\ At(t, "idle")
    /\ pc' = [pc EXCEPT ![t] = label]
    /\ op' = [op EXCEPT ![t] = method]
    /\ status' = [status EXCEPT ![t] = "none"]

\* What follows a command the server has carried out: its reply, or an exception when
\* the reply is lost.  Nothing is undone, and nothing is tried again.
Replied(t, label) ==
    \/ IF label = "idle" THEN Finish(t, "returned") ELSE Goto(t, label)
    \/ "lost" \in Faults /\ Finish(t, "raised")

-----------------------------------------------------------------------------
(* The sharer. *)

\* put, notify and get first look for the shared key; delete needs none.
Call(w) ==
    /\ calls < MaxCalls
    /\ calls' = calls + 1
    /\ \/ \E method \in {"put", "notify", "get"} : Begin(w, method, "llookup")
       \/ Begin(w, "delete", "command")
    /\ key' = [key EXCEPT ![w] = Nothing]
    /\ cipher' = [cipher EXCEPT ![w] = Nothing]
    /\ UNCHANGED <<server, client, created>>

\* get_encryption_key_shared_by_me: the key is there.
KeyFound(w) ==
    /\ At(w, "llookup")
    /\ ours # Nothing
    /\ key' = [key EXCEPT ![w] = ours]
    /\ Goto(w, "command")
    /\ UNCHANGED <<server, client, bounds, op, cipher>>

\* Mutant: any error is taken for "key not found".
KeyNotFoundOnAnyError(w) ==
    /\ At(w, "llookup")
    /\ ours = Nothing \/ "error" \in Faults
    /\ Goto(w, "plookup")
    /\ UNCHANGED <<server, client, bounds, locals>>

\* AtKeyNotFoundException, and no other error: create_shared_encryption_key.
KeyNotFound(w) ==
    /\ At(w, "llookup")
    /\ ours = Nothing
    /\ Goto(w, "plookup")
    /\ UNCHANGED <<server, client, bounds, locals>>

\* Mutant: create_shared_encryption_key does not return the key.
CreateKeyForgets(w) ==
    /\ At(w, "plookup")
    /\ \E k \in Keys \ created : created' = created \cup {k}
    /\ Goto(w, "saveOurs")
    /\ UNCHANGED <<server, client, calls, locals>>

\* The recipient's public key is found: a new AES key, encrypted twice.
CreateKey(w) ==
    /\ At(w, "plookup")
    /\ \E k \in Keys \ created :
          /\ created' = created \cup {k}
          /\ key' = [key EXCEPT ![w] = k]
    /\ Goto(w, "saveOurs")
    /\ UNCHANGED <<server, client, calls, op, cipher>>

\* "save encrypted shared key for us"
SaveOurs(w) ==
    /\ At(w, "saveOurs")
    /\ ours' = key[w]
    /\ Replied(w, "saveTheirs")
    /\ UNCHANGED <<theirs, value, inbox, client, bounds, locals>>

\* "save encrypted shared key for them": the server tells the recipient.
SaveTheirs(w) ==
    /\ At(w, "saveTheirs")
    /\ theirs' = key[w]
    /\ inbox' = inbox \cup {[kind |-> "sharedKey", with |-> key[w]]}
    /\ Replied(w, "command")
    /\ UNCHANGED <<ours, value, client, bounds, locals>>

\* The update of put, of which the server tells the recipient.
Update(w) ==
    /\ At(w, "command")
    /\ op[w] = "put"
    /\ value' = key[w]
    /\ inbox' = inbox \cup {[kind |-> "update", with |-> key[w]]}
    /\ Replied(w, "idle")
    /\ UNCHANGED <<ours, theirs, client, bounds, locals>>

\* The notify of notify, which changes no record.
Notify(w) ==
    /\ At(w, "command")
    /\ op[w] = "notify"
    /\ inbox' = inbox \cup {[kind |-> "update", with |-> key[w]]}
    /\ Replied(w, "idle")
    /\ UNCHANGED <<ours, theirs, value, client, bounds, locals>>

Delete(w) ==
    /\ At(w, "command")
    /\ op[w] = "delete"
    /\ value' = Nothing
    /\ Replied(w, "idle")
    /\ UNCHANGED <<ours, theirs, inbox, client, bounds, locals>>

\* The lookup of get, by the sharer (llookup:all) or the recipient (lookup:all).
Fetch(t) ==
    /\ At(t, "command")
    /\ op[t] = "get"
    /\ t \in Readers => usable
    /\ value # Nothing
    /\ cipher' = [cipher EXCEPT ![t] = value]
    /\ Goto(t, "decrypt")
    /\ UNCHANGED <<server, client, bounds, op, key>>

\* With another key the padding is wrong, or the text is.
Decrypt(t) ==
    /\ At(t, "decrypt")
    /\ Finish(t, IF key[t] = cipher[t] THEN "returned" ELSE "raised")
    /\ UNCHANGED <<server, client, bounds, locals>>

-----------------------------------------------------------------------------
(* The recipient. *)

\* get_encryption_key_shared_by_other: the cached key, or the record.
KeyCached(t, label) ==
    /\ cached # Nothing
    /\ Begin(t, IF t = getter THEN "get" ELSE "event", label)
    /\ key' = [key EXCEPT ![t] = cached]

KeyNotCached(t) ==
    /\ cached = Nothing
    /\ Begin(t, IF t = getter THEN "get" ELSE "event", "lookup")
    /\ key' = [key EXCEPT ![t] = Nothing]

Get ==
    /\ KeyCached(getter, "command") \/ KeyNotCached(getter)
    /\ cipher' = [cipher EXCEPT ![getter] = Nothing]
    /\ UNCHANGED <<server, client, bounds>>

LookupKey(t) ==
    /\ At(t, "lookup")
    /\ usable
    /\ theirs # Nothing
    /\ key' = [key EXCEPT ![t] = theirs]
    /\ cached' = theirs
    /\ Goto(t, IF t = getter THEN "command" ELSE "decrypt")
    /\ UNCHANGED <<server, usable, bounds, op, cipher>>

\* handle_event, SHARED_KEY_NOTIFICATION.  The servers between them do not promise to
\* keep the order of notifications.
HandleSharedKey ==
    /\ At(eventLoop, "idle")
    /\ \E n \in inbox :
          /\ n.kind = "sharedKey"
          /\ inbox' = inbox \ {n}
          /\ cached' = n.with
    /\ UNCHANGED <<ours, theirs, value, usable, bounds, pc, locals, status>>

\* handle_event, UPDATE_NOTIFICATION.
HandleUpdate ==
    /\ \E n \in inbox :
          /\ n.kind = "update"
          /\ inbox' = inbox \ {n}
          /\ cipher' = [cipher EXCEPT ![eventLoop] = n.with]
    /\ KeyCached(eventLoop, "decrypt") \/ KeyNotCached(eventLoop)
    /\ UNCHANGED <<ours, theirs, value, client, bounds>>

\* A new AtClient, at the application's discretion: load_keys knows no shared key.
NewClient ==
    /\ \A t \in Readers : At(t, "idle")
    /\ usable' = TRUE
    /\ cached' = Nothing
    /\ UNCHANGED <<server, bounds, pc, locals, status>>

-----------------------------------------------------------------------------
\* A record that is not there: AtKeyNotFoundException.
Missing(t) ==
    /\ \/ At(t, "lookup") /\ theirs = Nothing
       \/ At(t, "command") /\ op[t] = "get" /\ value = Nothing
    /\ Finish(t, "raised")
    /\ UNCHANGED <<server, client, bounds, locals>>

\* Mutant: the key is used although it could not be saved for the sharer.
CommandFailsIgnored(t) ==
    /\ pc[t] \notin {"idle", "decrypt"}
    /\ "error" \in Faults
    /\ IF At(t, "saveOurs") THEN Goto(t, "saveTheirs") ELSE Finish(t, "raised")
    /\ UNCHANGED <<server, client, bounds, locals>>

\* The server refuses a command, or it never gets there.  A client that has lost its
\* connection gets no other: AtClient connects in its constructor only.  What a
\* sharer's client knows is in its locals, so that a new one is as good as the old.
CommandFails(t) ==
    /\ pc[t] \notin {"idle", "decrypt"}
    /\ \/ "error" \in Faults /\ UNCHANGED usable
       \/ "lost" \in Faults /\ usable' = IF t \in Readers THEN FALSE ELSE usable
       \/ t \in Readers /\ ~usable /\ UNCHANGED usable
    /\ Finish(t, "raised")
    /\ UNCHANGED <<server, cached, bounds, locals>>

Share(w) ==
    \/ KeyFound(w) \/ KeyNotFound(w) \/ CreateKey(w)
    \/ SaveOurs(w) \/ SaveTheirs(w)
    \/ Update(w) \/ Notify(w) \/ Delete(w)

Next ==
    \/ \E w \in Sharers : Call(w) \/ Share(w)
    \/ \E t \in Readers : LookupKey(t)
    \/ \E t \in Threads : Fetch(t) \/ Decrypt(t) \/ Missing(t) \/ CommandFails(t)
    \/ Get \/ HandleSharedKey \/ HandleUpdate
    \/ NewClient

Spec == Init /\ [][Next]_vars

\* Two clients that find no key at the same time create one each, and each saves its own:
\* nothing in the code keeps them apart.  What follows is about behaviours in which it
\* does not happen, however many clients there are and whatever else they do together.
Creates(w) == pc[w] \in {"plookup", "saveOurs", "saveTheirs"}
Apart == \A v, w \in Sharers : Creates(v) /\ Creates(w) => v = w

ApartSpec == Init /\ [][Next /\ Apart']_vars

-----------------------------------------------------------------------------
\* Nothing is decrypted with a key it was not encrypted with: not a value, not a
\* notification, by the sharer or the recipient, whatever failed before and in
\* whatever order notifications come.  (Under ApartSpec.)
RightKey == \A t \in Threads : At(t, "decrypt") => key[t] = cipher[t]

\* The two records of the shared key, once both exist, hold the same key.
KeysAgree == theirs # Nothing => theirs = ours

\* A key the recipient has cached, or will be told of, is the one on the server.
CacheIsFresh ==
    /\ cached # Nothing => cached = theirs
    /\ \A n \in inbox : n.kind = "sharedKey" => n.with = theirs

\* Why: there is one key, the one saved for the sharer, and everything that is a key
\* or was encrypted with one agrees with it; while a key is being created there is
\* none.  (The inductive invariant.)
IsOurKey(k) == k # Nothing /\ k = ours
OneKey ==
    /\ KeysAgree /\ CacheIsFresh
    /\ value # Nothing => value = ours
    /\ \A n \in inbox : n.with = ours
    /\ \A w \in Sharers :
          /\ pc[w] \in {"plookup", "saveOurs"} => ours = Nothing
          /\ At(w, "saveTheirs") => IsOurKey(key[w]) /\ theirs = Nothing
    /\ \A t \in Threads :
          /\ At(t, "command") /\ op[t] # "delete" => IsOurKey(key[t])
          /\ At(t, "decrypt") => IsOurKey(key[t]) /\ IsOurKey(cipher[t])
    /\ At(eventLoop, "lookup") => IsOurKey(cipher[eventLoop])
    /\ pc[eventLoop] \in {"idle", "lookup", "decrypt"}
    /\ pc[getter] \in {"idle", "lookup", "command", "decrypt"}

\* What a put has returned for can be read by the recipient, unless it was deleted.
\* (README.md, "Using SharedKey": put by bob, then get by alice.)
PutIsReadable ==
    \A w \in Sharers :
        At(w, "idle") /\ op[w] = "put" /\ status[w] = "returned" /\ value # Nothing
            => theirs = value
=============================================================================
