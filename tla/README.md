# A verification development of at_python

`at_client` is the Python client of the atProtocol: it connects an application
to an *atServer*, the store of one *atSign* (`@alice`), puts and gets encrypted
records there, and receives notifications over a second connection. This
directory holds TLA+ models of its parts, the TLC configurations that check
them, and proofs, checked by TLAPS, of the theorems that matter most.

Paths are relative to the repository (`at_client/...`, `examples/...`).
`PROJECT.json` maps every definition to the lines it models and lists the
runs, hazards, findings and theorems.

## 1. Inventory

| Part | State | Operations | What makes it correct | Module |
|---|---|---|---|---|
| **Connection** — `connections/atconnection.py`, `atsecondaryconnection.py`, `response.py` | the socket, `_connected`, the byte stream | `connect`, `disconnect`, `write`, `read`, `execute_command` with its retry, `parse_raw_response` | a call ends with the reply to its own command or an exception; a failed call leaves no reply behind for the next; a connection that counts as up is not one the client closed; every call ends | `AtConnection`, which implements `RequestReply` |
| **Root lookup** — `atrootconnection.py`, `address.py` | a singleton connection | `find_secondary` | as above, and it connects again when the connection is down | `AtConnection` with `Reconnects`; its "null" answer in `Onboarding`; the parsing of the address is not modelled |
| **Monitor threads** — `atmonitorconnection.py`, `AtClient.start_monitor/stop_monitor` | `running`, `should_be_running`, two locks, two heartbeat times, an event, the socket | `start_monitor`, `stop_monitor`, `_run`, `_start_heart_beat`, `stop_heart_beat` | one reader at a time; no lock left held; a broken connection leads to a restart, and the restarted reader receives something; the heartbeat can be stopped | `AtMonitorConnection` |
| **Monitor feed** — `_run`'s treatment of a line, `socketutil.py`, the event queue | the server's log, the lines in flight, `last_received_time`, the queue | classify a line, queue its event, resume after a loss | no notification lost (but one of the same millisecond as one received), none twice, all in order | `MonitorFeed`, which implements `Feed` |
| **Event loop** — `AtClient.handle_event`, the loop of `examples/repl.py` | the queue, the client's keys | one handler per event type | every update shown or reported, in order; one bad event does not end the loop | `MonitorFeed` (queue), `SharedKeys` (keys) |
| **Shared keys** — `AtClient.put/get/notify/delete` of a `SharedKey` | two records of one AES key on the server, the recipient's cache | look the key up, create it, save it twice, encrypt, decrypt | nothing is decrypted with a key it was not encrypted with; the two records agree; a put can be read | `SharedKeys` |
| **Records** — `AtClient.put/get/notify/delete` of every kind of key, `get_at_keys`, the prompt of `examples/repl.py` | the records on the server, the metadata of the application's key objects | one command each, named by the key object, which the call may change | what is read is what was last put for the key, whichever key object is used; what is deleted is gone; no key has two records | `Records` |
| **Key names, metadata, command builders** — `common/keys.py`, `atsign.py`, `keystringutil.py`, `metadata.py`, `verbbuilder.py` | values | parse, format, squash, build | a key survives the way to its name and back; metadata survives the server, the squash and the command | operators of `Records`, for the parts a name is made of; formats are left out |
| **Authentication, keys file, onboarding** — `authutil.py`, `keysutil.py`, `onboardingutil.py`, `examples/onboarding.py` | the keys on disk, the PKAM key on the server, the CRAM secret | challenge and response; the onboarding sequence | a crash between two steps leaves an atSign that can still be used; it is owned by one key set, for good | `Onboarding`, which implements `Ownership`; whether a connection has passed PKAM is also in `AtMonitorConnection` |
| **Registration** — `registerutil.py`, `examples/register.py` | the task, its result, its retry counter, the parameters of the flow | a sequence of HTTP calls with retries, then the onboarding | it ends, with the secret of its own atSign or an error that was retried | `Registration`; `Activation` is the two together |
| **Cryptography** — `encryptionutil.py` | none | a library's algorithms | taken as right: decrypting with the key of encryption gives the text back, with another it does not | not modelled |
| **Exceptions** — `atexception.py` | none | error code to class | those that change the control flow are cases of `AtConnection` and `SharedKeys` | partly |
| **Command line tools** — `examples/get.py`, `share.py`, `delete.py`, `scan.py` | none | argument parsing around one call of `AtClient` | | the calls are in `Records`; the arguments are not modelled |
| **Unused code** — `AtNotification`, `syncdecorator.py` | | nobody calls it | | not modelled |

**How they interact.** `AtClient` asks the root connection for the address of
its atServer, opens a secondary connection and authenticates. All its
operations are sequences of `execute_command` on that connection, which has no
lock. `start_monitor` constructs one `AtMonitorConnection`; its constructor
starts the heartbeat thread, and the calling thread becomes the reader.
The reader turns lines into events on a `Queue`; another application thread
(the event loop of the REPL) takes them and calls `handle_event`, which decrypts
and, when it does not have the key, issues a command on the *application's*
connection. So there are up to four threads — prompt, reader, heartbeat, event
loop — and they meet in: the application's connection (prompt and event loop),
the monitor connection and its flags (reader, heartbeat, application), the queue
(reader and event loop), the cached keys (prompt and event loop).

**What is hard.** Replies have no identifiers, so that position in a stream is
all that ties a reply to a command; timeouts, broken sockets and the retry
disturb positions. The monitor is restarted by a thread that judges it from
outside, by flags and times it reads without a lock. A lost connection must
neither lose nor repeat notifications. A key is saved in two commands, of which
the second may fail. An onboarding may die between any two of a dozen steps, and
is run again. The hazards are listed one by one, with their lines, in
`PROJECT.json`.

## 2. The modules

### `RequestReply` — what a connection promises

The abstract specification: a set of pending calls, each with the number of its
command. A call is begun (`Begin`), ends with the answer to *its* command
(`Answer`), or ends with an exception (`Fail`). No socket, no stream, no retry.

### `AtConnection` — one connection and the threads that call it

| Model | Code |
|---|---|
| `connected`, `sock` | `_connected`, `_secure_root_socket` and the state of its TCP connection (`eof`: closed by the server; `reset`: broken; `closed`: by `disconnect`) |
| `stream` | TLS records on their way to the client, each a sequence of units: a reply line, `@`, `alice` |
| `requests` | commands on their way to the server |
| `buf` | the local `response` of `read()` |
| `Call` | the entry of `execute_command`, and the decision of `find_secondary` to connect |
| `AlreadyConnected`, `OpenSocket`, `OpenFails`, `GreetFails` | `connect()`, which reads the greeting |
| `Write`, `WriteFails` | `write()` |
| `ReadChunk`, `EndsRead`, `ReadFails` | the loop of `read()`, and the handler of `execute_command` that disconnects |
| `ParseReply`, `ParseRefused`, `ParseRetry`, `ParseInvalid` | `parse_raw_response`, `raise_exception`, and the retry after AT0021 |
| `ServerReplies`, `PeerCloses`, `PeerResets` | the peer (external) |

A unit carries the number of the command it answers. The protocol does not:
the number is there for the properties only and no action reads it.
Bodies of replies are four cases, `data`, `error`, `refused` (AT0021) and
`malformed`, which are the ones the code tells apart.

### `AtMonitorConnection` — the threads around the monitor connection

Every thread has a program counter; sections under `should_be_running_lock` are
single steps, because nothing in them can block; `running_lock` is explicit,
because the code holds it across waits and releases it more often than it
acquires it. `threading.Lock` has no owner, so `Release` by any thread
succeeds when the lock is held, and raises when it is not.

`connect()` and `disconnect()` are called by all of these threads, with no lock
around them, and are as many steps as they have effects: `connect` looks at
`_connected`, assigns the new socket (line 98), sets `_connected` (104) and waits
for the prompt (105); `disconnect` closes the newest socket (116) and clears
`_connected` (120). When one thread's 116 and 120 come between another's 98 and
104, `_connected` is left set over a closed socket; when 98 and 104 come between 116
and 120, it is left clear beside an open one. Both are reached, and
`HeartbeatTakesOver` and `ClosedIsNoticed` say what must come of them.

| Model | Code |
|---|---|
| `ConnectSkips`, `ConnectBegins`, `SocketOpened`, `SocketFails`, `SetConnected`, `Greeted` | `AtConnection.connect` |
| `Close`, `ClearConnected` | `AtConnection.disconnect` |
| `ClientStart`, `ClientConnect`, `Authenticate`, `ClientCheck`, `ClientStop` | `AtClient.start_monitor`, with the commands of `authenticate_with_pkam`, and `stop_monitor` |
| `Stop` (`StopFlag`, `Times`) | `stop_monitor` |
| `Start` (`Times`, `StartFlag`, `Claim`, `ClaimSet`, `MonitorConnect`, `Clear`) | `start_monitor` up to `_run` |
| `Run` (`SendMonitor`, `Loop`, `ReadLine`, `ReadFails`, `Broken`) | `_run` |
| `Beat` (`Poll`, `BeatMissed`, `BeatSent`, `BeatNothing`, `Await*`, `RestartFailed`) | `_start_heart_beat` and the waiting loop of the restart |
| `reading[t]` is `"newest"` or `"older"`, `Abandon`, `ReadOlder` | the socket a blocked `recv` belongs to: one that is closed, or replaced, under it does not wake it |
| `gap` | `_last_heartbeat_sent_time` against `_last_heartbeat_ack_time`: equal, acknowledged, unacknowledged for less or no less than the interval |

Time is abstracted to `gap`; a wait may last any time, which covers every
scheduling of the real sleeps.

### `MonitorFeed` — from the server's log to the application

| Model | Code |
|---|---|
| `log`, `clock`, `Arrives`, `Chatter`, `Replay` | the atServer (external, as `_run` and `start_monitor(last_received_time)` use it); its clock may tick before a notification and before a line of statistics |
| `ReadLine`, `Classify`, `EventOf`, `ReadEof` | one iteration of the loop of `_run` |
| `last_received_time` | the variable of that name, which statistics set as notifications do |
| `received`, `stamps` | for the properties only: the notifications, and the times of the statistics, that were received |
| `NewClient` | a new `AtClient` whose `start_monitor` passes the last time |
| `HeartbeatRestarts` | the heartbeat's restart, whose connection is not authenticated and receives one error line |
| `HandleUpdate`, `HandleUpdateHangs`, `HandleEmptyUpdate`, `HandleLegacyUpdate`, `HandleDecrypted`, `HandleOther` | `handle_event` and the loop of `examples/repl.py` |

`Feed` is what a monitor promises, seen from outside: notifications are received
one after another in the order they arrived in, none twice, and none left out but
one that has the same `epochMillis` as an earlier one, or a line of statistics, that
was received; updates are
shown in the order they were received in. It knows of no connection.
`ImplementsFeed` takes the server's log for what arrived.

The server is taken to send `epochMillis` with every notification and to replay
those with a later time than it is asked for. Any number of notifications may
arrive in one millisecond, and statistics (`id` -1) may have that millisecond too,
or one of their own. When the connection is lost between two of these lines, a
notification that is the second is not sent again: no model could promise it, and what `NoneIsLost`, `Feed`
and `EveryNotificationIsReceived` say is that nothing else is ever lost. The kinds of notification are
those `_run` and `handle_event` distinguish; their contents are left out. An update
without a value ends in `handle_event` without a word (line 434), one without
`ivNonce` ends the event loop, and the lookup of a key on a connection that the
server has closed never returns (`HandleUpdateHangs`, which may happen at any lookup):
`EveryUpdateIsHandled` is about the other updates, as long as neither of the last two has
stopped the loop.

### `SharedKeys` — one AES key for two atSigns

| Model | Code |
|---|---|
| `ours`, `theirs` | the records `shared_key.recipient@sharer` and `@recipient:shared_key@sharer` |
| `value`, `inbox` | the record that is shared; notifications in transit or queued |
| `cached` | the recipient's `self.keys[...]` |
| `KeyFound`, `KeyNotFound`, `CreateKey`, `SaveOurs`, `SaveTheirs` | `get_encryption_key_shared_by_me`, `create_shared_encryption_key` |
| `Update`, `Notify`, `Delete`, `Fetch`, `Decrypt` | `put`, `notify`, `delete`, `get` of a `SharedKey` |
| `KeyCached`, `KeyNotCached`, `LookupKey` | `get_encryption_key_shared_by_other` |
| `HandleSharedKey`, `HandleUpdate` | `handle_event` |
| `CommandFails`, `Replied`, `Missing` | what `execute_command` may end with: refused, sent and lost, carried out and its reply lost, "not found" |

A ciphertext *is* the key it was made with. That every command ends with its own
reply or an exception is what `AtConnection` shows for threads that take turns, and
is assumed here, also of the application's thread and the event thread that share the
recipient's connection (`connection_threads` shows what happens when they do not):
each command is one step, followed by its reply or by its loss. Notifications
are a set: between servers they may overtake one another. IVs, texts, RSA
and the copies a recipient's server may keep (`ttr`) are left out.

### `Records` — records of every kind, and the key objects that name them

| Model | Code |
|---|---|
| `store` | the records of one atSign that have one name, by full name: `cached:`, `public:`, `@with:` or none of them |
| `latest` | for the properties only: the value the application last put for a key, or `None` |
| `keys` | the key objects of an application: a `PublicKey`, two `SelfKey`s, a `SharedKey`, and one that `get_at_keys` made of a name |
| `KeyType`, `FromString` | `KeyStringUtil._evaluate`, `Keys.from_string` |
| `Str`, `Built`, `NameOf` | `AtKey.__str__`, the names the builders make, and which of them a call uses |
| `TypedKey`, `SharedKeyFromString`, `PromptDelete` | the branches of `/get` and `/delete` of `examples/repl.py`, and `SharedKey.from_string` |
| `FromDict`, `FromJson`, `Squash`, `Refreshed` | `Metadata`, and what `get` makes of the key object's metadata |
| `SentRecord`, `WithIv`, `IvFetched`, `Decrypts` | what `put` sends, and how `get` finds the IV |
| `Put`, `Notify`, `Get`, `Delete`, `List`, `Scan`, `FetchMetadata`, `FetchFails` | the methods of `AtClient`; `get_at_keys` is one step without metadata (`List`) and two with them, as records may come and go between its commands |
| `Cache`, `SetTimeToLive` | `cache()` and `set_time_to_live()`, before the object is first used |
| `PutLegacy`, `Expire` | another client without `ivNonce`; the server's expiry (external) |

A value is its number, and what it was encrypted with is the kind of key and the
IV. Of the fields of `Metadata` one number, the flags that decide on names and
on what is sent, and `ivNonce` are kept; the others behave as one of these. The
atSigns are this client's and one other; namespaces are part of the name.

### `Onboarding` — from the CRAM secret to keys that open the server

| Model | Code |
|---|---|
| `known`, `RootLearns`, `Lookup`, `retry_secondary_connection` | `find_secondary` in `examples/onboarding.py`, and the retries for an atServer that is not up yet |
| `Connect`, `Reconnect` | the first `connect()`, and the second after two seconds; `"deaf"` is a connection whose greeting could not be read and which counts as up |
| `atSecret`, `pkam`, `published` | the records `privatekey:at_secret`, `privatekey:at_pkam_publickey`, `public:publickey` of the server |
| `file`, `OpenFile`, `WriteFile`, `Load` | `KeysUtil.save_keys`, in two steps, as `open(..., "w")` empties the file before anything is written, and `load_keys` |
| `Cram`, `Pkam` | `AuthUtil.authenticate_with_cram`, `authenticate_with_pkam` |
| `Generate`, `StorePkam`, `StorePublic`, `DeleteSecret` | `OnboardingUtil`, called by `main` in this order |
| `Fails`, `Replied` | a run that dies between two steps; a command that was carried out and whose reply is lost |

`Ownership` is what it promises: nobody owns the atSign, then one key set
does, in one step, and no other ever after.

### `Registration` — an atSign and its secret from the registrar

| Model | Code |
|---|---|
| `process_flow`, `task`, `retry_count`, `result`, `params` | the variables of `RegistrationFlow.start` and of the tasks |
| `GetFreeAtsign`, `RegisterAtsign`, `GetAtsignV3`, `ActivateAtsignV3`, `OtpVerified`, `OtpIncorrect`, `OtpFollowUp`, `OtpOtherMessage`, `CallFails` | `run()` of each task, by the answer of the registrar |
| `Retry`, `NextTask`, `GiveUp` | what `start()` does after a run |
| `Succeeded`, `Updated`, `Failed` | what a run sets of the result, which the task keeps for all its runs |

### `Activation` — the two together

`examples/register.py`: a registration that is done starts an onboarding with the
atSign and the secret it has got; when that dies, the user runs
`examples/onboarding.py`.

### MC and proof modules

`MC*` modules name model values, sets of threads and symmetry for TLC.
The `*_proofs` modules hold the theorems; those of `Onboarding` and `Registration`
are in `Activation_proofs`, which makes them of the lemmas in
`Onboarding_proofs` and `Registration_proofs`. Operators
whose comment begins with "Mutant:" are no part of any specification: each is a
plausible bug in the definition after it, and is used to make sure that some
property notices.

## 3. What TLC checks

| Run | Configuration | Shows |
|---|---|---|
| `connection` | one caller, 3 commands, whole records, both values of `retry_on_exception`, every fault | `ReplyMatchesCommand`, `CleanStream`, `InStep`, `ClosedMeansDisconnected`; the module implements `RequestReply`; every call ends unless the server has closed the connection |
| `connection_short_reads` | a record may be read in parts | *violated*: a reply is taken for the next command's |
| `connection_threads` | prompt and event loop on one connection | *violated*: one thread gets the other's reply |
| `monitor` | one `start_monitor`, one thread that stops, a heartbeat that may be stopped, every fault | one reader, `running` says so, the lock always has a holder; when a reader breaks somebody makes a new socket, or the heartbeat says that the restart failed; `_connected` over a closed socket does not last; the heartbeat can be stopped |
| `monitor_unserved` | a connection that breaks; `MCAtMonitorConnectionUnserved` keeps the history: a reader was served, its read failed, it announced the restart (line 229) | *violated*: the reader that follows is sent nothing |
| `monitor_silent` | silent network; a thread that has set `running` and does not clear it in time, be it blocked in `recv` or (in TLC's shortest trace) about to connect | *violated*: the restart raises on a second `release()` |
| `shared_keys` | two clients of the sharer that do not create a key at the same time (`ApartSpec`), 4 calls, 3 keys, commands that fail before and after they take effect | `RightKey`, `KeysAgree`, `CacheIsFresh`, `OneKey` |
| `shared_keys_partial` | a command is refused | *violated*: later puts succeed and cannot be read |
| `feed` | 3 notifications of 3 kinds and 1 other line, statistics or an answer to a heartbeat, some in one millisecond, 1 loss | none lost but those in a millisecond of which another line was received; the module implements `Feed`: none twice, no other left out, all in order, through to the application; every notification received and every update handled in the end |
| `records` | every kind of key, `cache()` on the `PublicKey`, `ttl` on one `SelfKey`, 3 values, refused commands | `ReadsWhatWasPut`, `DeletedIsGone`, `OneRecordPerKey`, `RecordFitsItsName`, `NamesComeBack`, `OthersFindIt` |
| `activation` | both flows, 2 atSigns, two onboardings that may overlap but are not both past CRAM (`ApartActivationSpec`), 3 key sets, 2 faults | `SecretFits`, `GivesUpAfterRetries`, `SecretGoneMeansUsable`; the onboarding implements `Ownership`; a registration that does not end with an error leads to an atSign that can be used |
| `records_cached` | `cache()` on the `SharedKey` | *violated*: what was deleted is still there |

**Bounds.** *Connection*: the state between two commands is the same whatever
their number, so that a third command shows all that a first (on a new
connection) and second (on one that failed or was retried) can leave behind;
the proofs remove the bound, and carry the properties from one caller to any
number of callers that take turns. *Monitor*: two application threads and the
heartbeat are the threads there are; the one start is what the REPL does (see
"known limits" below). *Shared keys*: four calls are a create that fails, a
create that succeeds, a use and a delete, each by either client; three keys are one more than two
creations need before one succeeds, and the proofs remove both bounds. *Feed*: an
order needs two notifications and a loss between them, and three give
one that is received, one in flight and one still to come. What arrives before the
first client is replayed to it, so that one loss may come before, in the midst of, or
after a replay. The one other line may have the millisecond of the notification
before it, of the one after it, or one of its own. `"sharedKey"`, `"delete"` and
`"strange"` notifications make events that end at once, as `HandleOther` takes them and
nothing depends on their type; the other line makes such an event too, and they are
left out of that run, as is the `"unreadable"` line, which `HeartbeatRestarts` sends.
The proofs remove all of these bounds. *Records*: three values are one in the record, one that replaces
it by another key object, and one more for a key object that has seen both; as
names do not depend on values, a fourth gives no new name. *Activation*: a fault
ends a run, or leaves a file half written; two faults give a run that dies while
it makes good what another has left, and three key sets are one per run. The
proofs remove both bounds; that no two onboardings are past CRAM at the same time
stays (see "known limits").

`CHECK_DEADLOCK FALSE` in every configuration: an application that issues no
more calls is not a deadlock. What must not stop is stated as liveness.

**Fairness.** `AtConnection`: the threads run and the server answers what it
received; nobody is obliged to call and nothing to fail. `AtMonitorConnection`:
each thread inside a method takes steps, with *strong* fairness, as a lock that
is free again and again is had in the end; and a server that the heartbeat tries
again and again is reached in the end (the code tries for ever, and promises
nothing if the server stays away). A `recv` on a socket closed under it is *not*
obliged to end: nothing in the code makes it. `MonitorFeed`: reader and event
loop run; a closed connection is found to be so (the heartbeat misses its
answer after a minute); a lookup of the event loop returns, or hangs for ever, as
it may; the application whose monitor was lost makes a new
client — the only way the code offers to be served again. `Activation`: calls of the registrar and
prompts end, each run goes on (into CRAM only when no other is past it), the root server learns of the atSign, and a user
whose onboarding has died runs it again (an assumption about the user: the code
itself retries nothing that works, see "known limits"). Faults are never obliged to
happen, and there are at most `MaxFaults`.

## 4. What is proved

All theorems hold for every number of commands, keys and calls, for every set of
faults, and (where said) for every number of threads. No fairness is used.

* `AtConnection_proofs`
  * `TypeCorrect`: `TypeOK`, any number of threads, short reads or not.
  * `StaysInStep`, `RepliesMatch`, `StreamIsClean`: for any number of threads that
    take turns (`SerialSpec`: no two are inside `execute_command` at once) and whole
    records (`~ShortReads`). One thread is a case of it (`OneCallerTakesTurns`), and
    so is a lock around `execute_command`: it is what a shared connection
    lacks. `ReplyMatchesCommand` is not inductive: that the next reply is right
    depends on what is in the stream now. `InStep` says it: outside a read nothing is
    on its way in either direction, and in a read it is the command, or one record
    with the whole reply. The lemma `WholeRead` shows that one read then takes the
    record whole and ends; that the handler disconnects whenever a read raises keeps
    `InStep` through every failure (`TurnInStep`, from where the thread whose turn it
    is stands; `TurnLeavesInStep` adds the others). Both hypotheses are needed: the
    runs `connection_threads` and `connection_short_reads` drop one each.
  * `ClosedIsDisconnected`: any number of threads, short reads or not.
  * `ConnectionKeepsPromise`: under the same hypotheses `AtConnection` implements
    `RequestReply`. Inner
    steps stutter (`InnerStep`), a returned reply is an `Answer` because of
    `InStep` (`EndsWithAnswer`), and so is the exception made of the server's own
    error line; every other exception is a `Fail` (`EndsWithFailure`).
* `SharedKeys_proofs`
  * `TypeCorrect`: any number of the sharer's clients.
  * `OneKeyInUse`, `DecryptsWithRightKey`, `RecordsAgree`, `CacheStaysFresh`: for any
    number of the sharer's clients, of which no two create a key at the same time
    (`ApartSpec`); one client is a case of it (`OneClientIsApart`). `RightKey` speaks of the moment of decryption only; `OneKey` adds
    where the key and the ciphertext come from — records, cache,
    notifications, and locals of calls that are under way — and that while a key
    is being created no other exists. That is where the hypothesis is used: two
    clients that both find no key would save one each, and the four properties
    fail. As soon as one key is saved, no client creates another.

* `MonitorFeed_proofs`: for logs of any length, any times of the notifications and of
  other lines, any number of losses, replays and other lines.
  * `FeedTypeCorrect`: `TypeOK`.
  * `NothingIsLost`: `NoneIsLost` speaks of single notifications and is not
    inductive. `FeedInStep` says how they lie: in the log the times grow
    (`LogInOrder`); what was received is in order and no later than
    `last_received_time`, which is the time of a line that was received
    (`ReceivedInOrder`); the lines on their way are no
    earlier than that, in order, and later in the log than anything received
    (`StreamInOrder`); in the queue the decrypted updates come before those that
    are not yet, both in order (`QueueInOrder`). `TimesTell` connects times with
    what was seen: when a notification is no later than `last_received_time`, it,
    or an earlier one of its time, or statistics of its time were received, and when it
    is no later than the `n`th line, one of these was received or is among the first `n`
    lines (`Seen`). That is why a client may resume by time: whatever it does not
    ask for is `Passed` (`NextClientAsks`), and what the server sends again is the
    log from some place on (`ReplayIsTheRest`). There is one lemma for each
    action (`ArrivesInStep`, `ChatterInStep`, `LossesInStep`, `ClosedInStep`,
    `NewClientInStep`, `ReadInStep`), and `HandledInOrder` shows that the second
    turn of an update through the queue overtakes nothing.
  * `FeedKeepsPromise`: `MonitorFeed` implements `Feed`. `ReadLine` is a
    `Receive` (by `TimesTell`, what it leaves out has the time of
    something received), or for statistics a `Hear`, or a stutter, `HandleDecrypted` a `Show`, everything else but
    `Arrives` a stutter.
* `AtMonitorConnection_proofs`: for any threads and faults, whether the heartbeat can
  be stopped or not.
  * `MonitorTypeCorrect`, `LockIsHeldBySomebody`: `TypeOK` and `LockHasHolder`, however
    often the monitor is started. That `_connected` agrees with the socket is no
    theorem: it does not always (section 2).
  * `OneReader`, `ReaderKeepsRunning`: `AtMostOneReader` and `OwnerIsRunning`, for
    one call of `AtClient.start_monitor` (`MaxStarts <= 1`) and any number of
    `stop_monitor`. `running_lock` does not exclude: the heartbeat's wait may
    release it while the reader's thread holds it. `MonitorInv` says why
    that does no harm: it waits for a reader only once somebody has set
    `running`, and until the one start has, its lock is its own
    (`FirstStarter`, `ClaimsAlone`); so whoever finds `running` clear is alone in
    setting it (`ClaimsStopped`). `StepKinds` sorts the steps of all threads
    into eight kinds, so that each property is argued once per kind. With a
    second start both fail.
* `Activation_proofs`, from the lemmas in `Onboarding_proofs` and
  `Registration_proofs`: for any atSigns, key sets and number of faults.
  * `ActivationTypeCorrect`: `ActivationTypeOK`, any number of onboardings at the same
    time.
  * `SecretIsTheAtSigns`, `ErrorsAreRetried`: `SecretFits` and
    `GivesUpAfterRetries`, by `FlowInStep`, which says what the result of each
    task may hold when a status or an exception of an earlier run is still in it.
  * `SecretStaysUntilUsable`, `AtSignOwnedOnce`: `SecretGoneMeansUsable`, and that
    `Onboarding` implements `Ownership`, for any number of onboardings of which no two
    are past CRAM at the same time (`ApartActivation`); onboardings one after the other are a
    case of it (`OneAtATimeIsApart`). The argument is `RunInStep`: a run past CRAM has
    the secret still there, and what it has done so far agrees with its keys
    (`RunStepInStep`). A run that is not past it changes nothing another sees
    (`OpenedTouches`), so that a run may be killed and started again, or wait before
    CRAM, while another one finishes. With two past CRAM at a time both fail.

* `Records_proofs`: for any number of puts, commands that fail or not, and any key
  objects with a time to live.
  * `RecordsTypeCorrect`: `TypeOK`, whatever flags the server sends and whichever key
    objects `cache()` is called on: `RefreshTyped` and `FetchTyped` show that squashing
    two metadata gives metadata, `IvIsGiven` and `SentTyped` that no value that needs an
    IV is sent without.
  * `KeysHaveOneRecord`, `NamesNameThemselves`, `OthersFindRecords`: `OneRecordPerKey`,
    `NamesComeBack` and `OthersFindIt`, whichever key objects `cache()` is called on,
    when the server sends `isPublic` (`TellsPublic`); `RecordsTellHowToRead`:
    `RecordFitsItsName`, when it sends `isEncrypted` too (`TellsEncrypted`);
    `ReadsAreRight`, `DeletesAreComplete`: `ReadsWhatWasPut` and `DeletedIsGone`, when
    it sends `isPublic` and `cache()` is called on no `SharedKey` (`~CachesShared`).
    No theorem needs `isCached` to be sent. `records_cached` and `Sends = {}` show that
    the hypotheses are needed.
  * None of these is inductive: the name in the next command
    is made of a key object's flags, and these came from a record that was named by
    another object. `RecordsInv` says what holds these together: a key object's flags
    fit its class (`KeysFit`); whether the public key is cached is the same in all
    its objects and in its name (`PublicCached`), because `cache()` is called before
    anything public is stored or found (`FreshFits`); so each key has one proper name
    (`OneProperName`), and under it lies what was last put (`LatestFits`), in a
    record of the kind the name tells (`StoreFits`). `RefreshIsProper` shows that
    squashing the server's metadata into the object's leaves it proper,
    `KeysOfNames` that the way to a name and back does, `DeleteKeeps` that a delete
    which misses its record harms no other.

**Only model-checked**: the liveness properties (liveness under fairness and
`ENABLED` are beyond the prover).
No module declares a `RECURSIVE` operator.

## 5. Findings

Each is a run that ends in a counterexample, and an entry of `PROJECT.json`
with the line it contradicts.

1. `read()` stops at the first newline or lone `@`: what is left of a reply is
   the next command's reply (`connection_short_reads`).
2. Prompt and event loop of the REPL share a connection that has no lock
   (`connection_threads`).
3. After a reader's connection has broken the heartbeat's restart does not authenticate
   (`monitor_unserved`).
4. The wait of the restart releases `running_lock` once per round, and raises in the
   second when `running` is still set (`monitor_silent`).
5. A shared key saved only for the sharer is used ever after
   (`shared_keys_partial`).
6. A `SharedKey` after `cache()` is put under `@bob:key@alice` and deleted under
   `cached:@bob:key@alice` (`records_cached`).

**Known limits of the properties that hold.** Two clients of one sharer
that create a key at the same time violate `RightKey`; a second `start_monitor` by the application after a restart can
violate `AtMostOneReader` and `OwnerIsRunning`, as it meets a lock that was
released twice; a notification that comes after another line with the same `epochMillis`,
a notification or statistics, is lost when the connection breaks between them, as
the server replays only later times. `ClosedIsNoticed` has a hypothesis: while `running` is set some
thread has set it and will clear it. Without it TLC finds that the monitor can be dead for
good: one thread's `close()` between another's lines 98 and 104 leaves `_connected` set over a
closed socket; the heartbeat's second release of `running_lock` makes the release at line 101
raise in the thread that has just set `running`, so that `running` stays set and
nobody reads; no heartbeat can be sent on the closed socket, so that none is ever late, and
the heartbeat thread waits for ever. A server that does not send `isPublic` with its metadata (`Sends = {}`)
violates `ReadsWhatWasPut`, as a `PublicKey` that was read loses its flag.
At the end of file `read()` never returns: `CommandCompletesUnlessEof` leaves that
case out. Two onboardings of one atSign that are past CRAM at the same time violate
`SecretGoneMeansUsable`: one may be about to overwrite the keys file when
the other deletes the secret.
They are hazards in `PROJECT.json`; no line of the repository promises
otherwise.

**Met while modelling, and in the models as they are.** The 50 retries of the root
lookup are called with the text of the url and end in an `AttributeError` at once
(`retry_secondary_connection`). `bool()` of the registrar's "confirmation" parameter
is always true. The password that is asked for after the last wrong one is
never sent; a task that gives up without an exception raises `None`, a `TypeError`
(`GiveUp`). At the prompt a `cached:` name of a `SharedKey` makes no key
(`SharedKeyFromString`), and the prompt does not append the atSign to a name;
`/put` is left out, as it asks `str` for a `length()` it does not have and
always fails.

## 6. What is not modelled, and why

Texts and the algorithms of the cryptography (a library's); printing,
logging and argument parsing; the wording of errors; the root server's address
format; TLS itself, below the records it delivers; names that begin with
`_`, which `scan` hides; the form of the registrar's requests and answers, and an
answer to an activation that is lost after the registrar has acted on it, as nothing
says what the registrar does with the same activation twice; the copies a
recipient's server caches; `AtNotification` and `synchronized`, which nothing calls.

## 7. Plan

Done: `RequestReply` and `AtConnection` with proofs; `SharedKeys` with proofs;
`AtMonitorConnection` with proofs; `MonitorFeed` and `Feed` with proofs; `Records`
with proofs; `Onboarding`, `Ownership`, `Registration` and `Activation` with proofs.

Next: hidden names in `Records` (names that begin with `_`, which
`get_at_keys` asks for and whose key objects name another record).
