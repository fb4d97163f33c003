------------------------------ MODULE Onboarding ------------------------------
(***************************************************************************)
(* The activation of an atSign (examples/onboarding.py, with AuthUtil,     *)
(* KeysUtil and OnboardingUtil): authenticate with the CRAM secret, make   *)
(* keys, save them to the keys file, give the server the PKAM key,         *)
(* authenticate with the keys that are in the file, publish the encryption *)
(* key, delete the secret.  A run may die between any two steps, in the    *)
(* middle of writing the file, and with a command carried out whose reply  *)
(* is lost; the user then runs it again.                                   *)
(*                                                                         *)
(* The PKAM pair, the encryption pair and the self key of one run are one  *)
(* key set, the value of the file as of the records with its public keys.  *)
(* The challenges of from, cram and pkam tell whether the secret or the    *)
(* private key is the one the server knows, and no more.  The server has   *)
(* done with the commands of a run when the next one begins.               *)
(***************************************************************************)
EXTENDS Naturals

CONSTANTS
    Processes,   \* the runs of main that may be under way at the same time
    KeySets,     \* bound: what the generate_ functions may return
    Absent,      \* no file, no record, no keys
    Torn,        \* a file that was opened for writing and has not been written
    MaxFaults    \* bound: how often a command fails or a run is killed

ASSUME KeysAssumption == Absent \notin KeySets /\ Torn \notin KeySets /\ Absent # Torn
ASSUME FaultsAssumption == MaxFaults \in Nat

VARIABLES
    known,       \* does the root server know the address of the atServer?
    atSecret,    \* is the record privatekey:at_secret there?
    pkam,        \* the record privatekey:at_pkam_publickey
    published,   \* the record public:publickey
    file,        \* the keys file of the atSign, in the canonical location
    generated,   \* the key sets that were made: no two are equal
    faults,      \* how many faults there were
    pc,          \* pc[p]: the step run p is at
    given,       \* given[p]: is the secret of its arguments that of the atSign?
    conn,        \* conn[p]: its connection; "deaf" when the greeting could not be read
    keys,        \* keys[p]: what it has made
    keys1        \* keys1[p]: what it has loaded from the file

server == <<known, atSecret, pkam, published>>
bounds == <<generated, faults>>
locals == <<given, conn, keys, keys1>>
vars == <<server, file, bounds, pc, locals>>

-----------------------------------------------------------------------------
Steps == {"lookup", "connect", "reconnect", "cram", "generate", "open", "write", "storePkam",
          "load", "pkam", "storePublic", "delete"}

TypeOK ==
    /\ known \in BOOLEAN /\ atSecret \in BOOLEAN
    /\ pkam \in KeySets \cup {Absent}
    /\ published \in KeySets \cup {Absent}
    /\ file \in KeySets \cup {Absent, Torn}
    /\ generated \subseteq KeySets
    /\ faults \in 0..MaxFaults
    /\ pc \in [Processes -> Steps \cup {"idle", "done"}]
    /\ given \in [Processes -> BOOLEAN]
    /\ conn \in [Processes -> {"none", "up", "deaf"}]
    /\ keys \in [Processes -> KeySets \cup {Absent}]
    /\ keys1 \in [Processes -> KeySets \cup {Absent}]
    /\ \A p \in Processes :
          pc[p] \in {"open", "write", "storePkam", "load", "pkam", "storePublic", "delete"}
              => keys[p] \in generated

Init ==
    /\ known = FALSE
    /\ atSecret = TRUE
    /\ pkam = Absent
    /\ published = Absent
    /\ file = Absent
    /\ generated = {}
    /\ faults = 0
    /\ pc = [p \in Processes |-> "idle"]
    /\ given = [p \in Processes |-> FALSE]
    /\ conn = [p \in Processes |-> "none"]
    /\ keys = [p \in Processes |-> Absent]
    /\ keys1 = [p \in Processes |-> Absent]

-----------------------------------------------------------------------------
At(p, label) == pc[p] = label
Goto(p, label) == pc' = [pc EXCEPT ![p] = label]

Fault == faults < MaxFaults /\ faults' = faults + 1

\* What follows a command the server has carried out: the next step, or the end of the
\* run when the reply is lost.  Nothing is undone.
Replied(p, label) ==
    \/ Goto(p, label) /\ UNCHANGED faults
    \/ Fault /\ Goto(p, "idle")

\* The root server, or the atServer, comes up some time after the registration.
RootLearns ==
    /\ ~known
    /\ known' = TRUE
    /\ UNCHANGED <<atSecret, pkam, published, file, bounds, pc, locals>>

Start(p, right) ==
    /\ pc[p] \in {"idle", "done"}
    /\ Goto(p, "lookup")
    /\ given' = [given EXCEPT ![p] = right]
    /\ conn' = [conn EXCEPT ![p] = "none"]
    /\ keys' = [keys EXCEPT ![p] = Absent]
    /\ keys1' = [keys1 EXCEPT ![p] = Absent]
    /\ UNCHANGED <<server, file, bounds>>

\* It is called with the text of the url, of which it asks the host: the AttributeError
\* ends the run before the first retry.
retry_secondary_connection(p) == Goto(p, "idle")

\* find_secondary, which raises AtSecondaryNotFoundException for "null".
Lookup(p) ==
    /\ At(p, "lookup")
    /\ IF known THEN Goto(p, "connect") ELSE retry_secondary_connection(p)
    /\ UNCHANGED <<server, file, bounds, locals>>

Connect(p) ==
    /\ At(p, "connect")
    /\ \/ /\ conn' = [conn EXCEPT ![p] = "up"]
          /\ Goto(p, "cram")
          /\ UNCHANGED faults
       \/ /\ Fault
          /\ \E how \in {"none", "deaf"} : conn' = [conn EXCEPT ![p] = how]
          /\ Goto(p, "reconnect")
    /\ UNCHANGED <<server, file, generated, given, keys, keys1>>

\* After two seconds, connect() again.  It does nothing for a connection whose greeting
\* could not be read, as _connected was set before.
Reconnect(p) ==
    /\ At(p, "reconnect")
    /\ conn' = [conn EXCEPT ![p] = IF @ = "deaf" THEN "deaf" ELSE "up"]
    /\ Goto(p, "cram")
    /\ UNCHANGED <<server, file, bounds, given, keys, keys1>>

\* Mutant: authenticate_with_cram does not look at the reply.
CramUnchecked(p) ==
    /\ At(p, "cram")
    /\ Goto(p, "generate")
    /\ UNCHANGED <<server, file, bounds, locals>>

\* authenticate_with_cram: from, the digest of secret and challenge, cram.
Cram(p) ==
    /\ At(p, "cram")
    /\ Goto(p, IF conn[p] = "up" /\ given[p] /\ atSecret THEN "generate" ELSE "idle")
    /\ UNCHANGED <<server, file, bounds, locals>>

\* Mutant: what was generated is not handed on.
GenerateForgets(p) ==
    /\ At(p, "generate")
    /\ \E k \in KeySets \ generated : generated' = generated \cup {k}
    /\ Goto(p, "open")
    /\ UNCHANGED <<server, file, faults, locals>>

Generate(p) ==
    /\ At(p, "generate")
    /\ \E k \in KeySets \ generated :
          /\ generated' = generated \cup {k}
          /\ keys' = [keys EXCEPT ![p] = k]
    /\ Goto(p, "open")
    /\ UNCHANGED <<server, file, faults, given, conn, keys1>>

\* Mutant: a file that is there already is not overwritten.
OpenFileExclusively(p) ==
    /\ At(p, "open")
    /\ IF file = Absent THEN file' = Torn /\ Goto(p, "write") ELSE UNCHANGED file /\ Goto(p, "idle")
    /\ UNCHANGED <<server, bounds, locals>>

\* save_keys: open(file_path, "w") leaves nothing of what was in the file.
OpenFile(p) ==
    /\ At(p, "open")
    /\ file' = Torn
    /\ Goto(p, "write")
    /\ UNCHANGED <<server, bounds, locals>>

WriteFile(p) ==
    /\ At(p, "write")
    /\ file' = keys[p]
    /\ Goto(p, "storePkam")
    /\ UNCHANGED <<server, bounds, locals>>

StorePkam(p) ==
    /\ At(p, "storePkam")
    /\ pkam' = keys[p]
    /\ Replied(p, "load")
    /\ UNCHANGED <<known, atSecret, published, file, generated, locals>>

\* load_keys of a file another run is writing raises.
Load(p) ==
    /\ At(p, "load")
    /\ IF file \in KeySets
       THEN keys1' = [keys1 EXCEPT ![p] = file] /\ Goto(p, "pkam")
       ELSE UNCHANGED keys1 /\ Goto(p, "idle")
    /\ UNCHANGED <<server, file, bounds, given, conn, keys>>

\* authenticate_with_pkam: from, the signature of the challenge, pkam.
Pkam(p) ==
    /\ At(p, "pkam")
    /\ Goto(p, IF keys1[p] = pkam THEN "storePublic" ELSE "idle")
    /\ UNCHANGED <<server, file, bounds, locals>>

\* Mutant: the encryption key is published only if there is none yet.
StorePublicOnce(p) ==
    /\ At(p, "storePublic")
    /\ published' = IF published = Absent THEN keys[p] ELSE published
    /\ Replied(p, "delete")
    /\ UNCHANGED <<known, atSecret, pkam, file, generated, locals>>

StorePublic(p) ==
    /\ At(p, "storePublic")
    /\ published' = keys[p]
    /\ Replied(p, "delete")
    /\ UNCHANGED <<known, atSecret, pkam, file, generated, locals>>

DeleteSecret(p) ==
    /\ At(p, "delete")
    /\ atSecret' = FALSE
    /\ Replied(p, "done")
    /\ UNCHANGED <<known, pkam, published, file, generated, locals>>

\* The run is killed, or a command is refused, or it never gets to the server: any
\* exception ends main.
Fails(p) ==
    /\ pc[p] \in Steps
    /\ Fault
    /\ Goto(p, "idle")
    /\ UNCHANGED <<server, file, generated, locals>>

Main(p) ==
    \/ Lookup(p) \/ Connect(p) \/ Reconnect(p) \/ Cram(p)
    \/ Generate(p) \/ OpenFile(p) \/ WriteFile(p)
    \/ StorePkam(p) \/ Load(p) \/ Pkam(p)
    \/ StorePublic(p) \/ DeleteSecret(p)

Next ==
    \/ RootLearns
    \/ \E p \in Processes : Main(p) \/ Fails(p) \/ \E right \in BOOLEAN : Start(p, right)

\* Is run p past CRAM?  Only then does it touch the file and the records.
Opened(p) ==
    pc[p] \in {"generate", "open", "write", "storePkam", "load", "pkam", "storePublic", "delete"}

\* No two runs are past CRAM at the same time, however they overlap otherwise.
Apart == \A p, q \in Processes : Opened(p) /\ Opened(q) => p = q

-----------------------------------------------------------------------------
\* Can an AtClient be made, and can it read what others share with the atSign?
Usable == file \in KeySets /\ file = pkam /\ file = published

\* The CRAM secret is not deleted before the keys in the file open the server and belong
\* to the key that is published, and the file is not touched after it: whatever failed,
\* and however often main was run, there is a way into the atServer.  (Of two runs that
\* are past CRAM at the same time, one may be about to overwrite the file when the other
\* deletes the secret: hence Apart.)
SecretGoneMeansUsable == ~atSecret => Usable

\* Why: once a run is past CRAM the secret is there until it deletes it, and what it has
\* done so far agrees with its keys.  (The inductive invariant.)
Onboards(p) ==
    /\ Opened(p) => atSecret
    /\ pc[p] \in {"storePkam", "load", "pkam", "storePublic", "delete"} => file = keys[p]
    /\ pc[p] \in {"load", "pkam", "storePublic", "delete"} => pkam = keys[p]
    /\ pc[p] = "delete" => published = keys[p]
RunInStep == SecretGoneMeansUsable /\ \A p \in Processes : Onboards(p)

\* The atSign comes to be owned by one key set, in one step: the delete of the secret.
Owner ==
    IF atSecret THEN Absent
    ELSE IF Usable THEN file ELSE Torn

OneOwner == INSTANCE Ownership WITH owner <- Owner, Nobody <- Absent
=============================================================================
