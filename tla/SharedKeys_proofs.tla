------------------------- MODULE SharedKeys_proofs --------------------------
(***************************************************************************)
(* Proofs about SharedKeys, for every value of its constants.  TypeOK      *)
(* needs nothing but the assumptions of the module; the rest holds as long *)
(* as no two clients of the sharer create a key at the same time, and so   *)
(* of a sharer with one client, whatever fails.                            *)
(***************************************************************************)
EXTENDS SharedKeys, TLAPS

-----------------------------------------------------------------------------
(* Types. *)

\* The variables have their types when nothing has been shared yet.
LEMMA TypeInitial == Init => TypeOK
  BY BoundAssumption DEF Init, TypeOK, Threads

\* One step per action of the sharer, of the recipient, and of failure.
LEMMA TypeInductive == TypeOK /\ [Next]_vars => TypeOK'
  <1> SUFFICES ASSUME TypeOK, [Next]_vars PROVE TypeOK'
    OBVIOUS
  <1> USE BoundAssumption, NothingAssumption, ThreadsAssumption DEF TypeOK, Threads, Readers, At
  <1>1. ASSUME NEW w \in Sharers, Call(w) PROVE TypeOK'
    BY <1>1 DEF Call, Begin, server, client
  <1>2. ASSUME NEW w \in Sharers, KeyFound(w) \/ KeyNotFound(w) PROVE TypeOK'
    BY <1>2 DEF KeyFound, KeyNotFound, Goto, server, client, bounds, locals
  <1>3. ASSUME NEW w \in Sharers, CreateKey(w) PROVE TypeOK'
    BY <1>3 DEF CreateKey, Goto, server, client
  <1>4. ASSUME NEW w \in Sharers, SaveOurs(w) PROVE TypeOK'
    BY <1>4 DEF SaveOurs, Replied, Goto, Finish, client, bounds, locals
  <1>5. ASSUME NEW w \in Sharers, SaveTheirs(w) PROVE TypeOK'
    BY <1>5 DEF SaveTheirs, Replied, Goto, Finish, client, bounds, locals, Notifications
  <1>6. ASSUME NEW w \in Sharers, Update(w) \/ Notify(w) PROVE TypeOK'
    BY <1>6 DEF Update, Notify, Replied, Goto, Finish, client, bounds, locals, Notifications
  <1>7. ASSUME NEW w \in Sharers, Delete(w) PROVE TypeOK'
    BY <1>7 DEF Delete, Replied, Goto, Finish, client, bounds, locals
  <1>8. ASSUME NEW t \in Threads, Fetch(t) \/ Decrypt(t) PROVE TypeOK'
    BY <1>8 DEF Fetch, Decrypt, Goto, Finish, server, client, bounds, locals
  <1>9. ASSUME NEW t \in Threads, Missing(t) PROVE TypeOK'
    BY <1>9 DEF Missing, Finish, server, client, bounds, locals
  <1>10. ASSUME NEW t \in Threads, CommandFails(t) PROVE TypeOK'
    <2>1. usable' \in BOOLEAN
      BY <1>10 DEF CommandFails
    <2> QED
      BY <1>10, <2>1 DEF CommandFails, Finish, server, bounds, locals
  <1>11. ASSUME NEW t \in Readers, LookupKey(t) PROVE TypeOK'
    BY <1>11 DEF LookupKey, Goto, server, bounds
  <1>12. CASE Get
    BY <1>12 DEF Get, KeyCached, KeyNotCached, Begin, server, client, bounds
  <1>13. CASE HandleSharedKey
    BY <1>13 DEF HandleSharedKey, Notifications, bounds, locals
  <1>14. CASE HandleUpdate
    BY <1>14 DEF HandleUpdate, KeyCached, KeyNotCached, Begin, Notifications, client, bounds
  <1>15. CASE NewClient
    BY <1>15 DEF NewClient, server, bounds, locals
  <1>16. CASE UNCHANGED vars
    BY <1>16 DEF vars, server, client, bounds, locals
  <1> QED
    BY <1>1, <1>2, <1>3, <1>4, <1>5, <1>6, <1>7, <1>8, <1>9, <1>11, <1>12, <1>13, <1>14,
       <1>15, <1>16, <1>10 DEF Next, Share

\* Every variable keeps its type, whatever the sharers' clients do at the same time and
\* whatever fails.
THEOREM TypeCorrect == Spec => []TypeOK
  BY TypeInitial, TypeInductive, PTL DEF Spec

-----------------------------------------------------------------------------
(* One key, under the hypothesis that no two clients create one at the same time. *)

\* What the invariant says of a thread depends on where the thread is, on its locals
\* and on the records; a step that leaves all of these alone preserves it.
LEMMA OneKeyInductive == TypeOK /\ OneKey /\ Apart /\ [Next /\ Apart']_vars => OneKey' /\ Apart'
  <1> SUFFICES ASSUME TypeOK, OneKey, Apart, [Next]_vars PROVE OneKey'
    BY DEF Apart, Creates, vars
  <1> USE NothingAssumption, ThreadsAssumption
      DEF TypeOK, OneKey, KeysAgree, CacheIsFresh, IsOurKey, Threads, Readers, At
  <1>1. ASSUME NEW w \in Sharers, Call(w) PROVE OneKey'
    <2>1. /\ At(w, "idle")
          /\ UNCHANGED <<ours, theirs, value, inbox, cached>>
          /\ \A t \in Threads \ {w} : pc'[t] = pc[t] /\ op'[t] = op[t]
                                      /\ key'[t] = key[t] /\ cipher'[t] = cipher[t]
      BY <1>1 DEF Call, Begin, server, client
    <2>2. pc'[w] = "llookup" \/ (pc'[w] = "command" /\ op'[w] = "delete")
      BY <1>1 DEF Call, Begin
    <2>3. \A t \in Threads :
             /\ At(t, "command")' /\ op'[t] # "delete" => IsOurKey(key[t])'
             /\ At(t, "decrypt")' => IsOurKey(key[t])' /\ IsOurKey(cipher[t])'
      BY <2>1, <2>2
    <2>4. \A v \in Sharers :
             /\ pc'[v] \in {"plookup", "saveOurs"} => ours' = Nothing
             /\ At(v, "saveTheirs")' => IsOurKey(key[v])' /\ theirs' = Nothing
      BY <2>1, <2>2
    <2> QED
      BY <2>1, <2>3, <2>4
  <1>2. ASSUME NEW w \in Sharers, KeyFound(w) \/ KeyNotFound(w) PROVE OneKey'
    BY <1>2 DEF KeyFound, KeyNotFound, Goto, server, client, bounds, locals
  <1>3. ASSUME NEW w \in Sharers, CreateKey(w) PROVE OneKey'
    BY <1>3 DEF CreateKey, Goto, server, client
  <1>4. ASSUME NEW w \in Sharers, SaveOurs(w) PROVE OneKey'
    BY <1>4 DEF SaveOurs, Replied, Goto, Finish, client, bounds, locals, Notifications,
                Apart, Creates
  <1>5. ASSUME NEW w \in Sharers, SaveTheirs(w) PROVE OneKey'
    BY <1>5 DEF SaveTheirs, Replied, Goto, Finish, client, bounds, locals, Notifications,
                Apart, Creates
  <1>6. ASSUME NEW w \in Sharers, Update(w) \/ Notify(w) PROVE OneKey'
    BY <1>6 DEF Update, Notify, Replied, Goto, Finish, client, bounds, locals
  <1>7. ASSUME NEW w \in Sharers, Delete(w) PROVE OneKey'
    BY <1>7 DEF Delete, Replied, Goto, Finish, client, bounds, locals
  <1>8. ASSUME NEW t \in Threads, Fetch(t) \/ Decrypt(t) PROVE OneKey'
    BY <1>8 DEF Fetch, Decrypt, Goto, Finish, server, client, bounds, locals
  <1>9. ASSUME NEW t \in Threads, Missing(t) PROVE OneKey'
    BY <1>9 DEF Missing, Finish, server, client, bounds, locals
  <1>10. ASSUME NEW t \in Threads, CommandFails(t) PROVE OneKey'
    <2>1. /\ UNCHANGED <<server, cached, bounds, locals>>
          /\ pc' = [pc EXCEPT ![t] = "idle"]
      BY <1>10 DEF CommandFails, Finish
    <2> QED
      BY <2>1 DEF server, bounds, locals
  <1>11. ASSUME NEW t \in Readers, LookupKey(t) PROVE OneKey'
    BY <1>11 DEF LookupKey, Goto, server, bounds
  <1>12. CASE Get
    BY <1>12 DEF Get, KeyCached, KeyNotCached, Begin, server, client, bounds
  <1>13. CASE HandleSharedKey
    BY <1>13 DEF HandleSharedKey, bounds, locals
  <1>14. CASE HandleUpdate
    BY <1>14 DEF HandleUpdate, KeyCached, KeyNotCached, Begin, Notifications, client, bounds
  <1>15. CASE NewClient
    BY <1>15 DEF NewClient, server, bounds, locals
  <1>16. CASE UNCHANGED vars
    BY <1>16 DEF vars, server, client, bounds, locals
  <1> QED
    BY <1>1, <1>2, <1>3, <1>4, <1>5, <1>6, <1>7, <1>8, <1>9, <1>10, <1>11, <1>12, <1>13,
       <1>14, <1>15, <1>16 DEF Next, Share

\* Clients that do not create keys at the same time do what clients do.
LEMMA ApartIsSpec == ApartSpec => Spec
  <1>1. [Next /\ Apart']_vars => [Next]_vars
    OBVIOUS
  <1> QED
    BY <1>1, PTL DEF ApartSpec, Spec

\* The clients of a sharer, however many, never have two keys in use, if no two create one
\* at the same time: whatever is saved, cached, sent or used agrees with the record saved
\* for the sharer.
THEOREM OneKeyInUse == ApartSpec => []OneKey
  <1>1. Init => OneKey /\ Apart
    BY DEF Init, OneKey, KeysAgree, CacheIsFresh, Threads, Readers, At, Apart, Creates
  <1>2. TypeOK /\ OneKey /\ Apart /\ [Next /\ Apart']_vars => OneKey' /\ Apart'
    BY OneKeyInductive
  <1> QED
    BY <1>1, <1>2, TypeCorrect, ApartIsSpec, PTL DEF ApartSpec

\* The recipient and the sharer decrypt with the key the ciphertext was made with.
THEOREM DecryptsWithRightKey == ApartSpec => []RightKey
  <1>1. OneKey => RightKey
    BY DEF OneKey, RightKey, IsOurKey
  <1> QED
    BY <1>1, OneKeyInUse, PTL

\* The two records of the shared key hold the same key, whatever failed between them.
THEOREM RecordsAgree == ApartSpec => []KeysAgree
  <1>1. OneKey => KeysAgree
    BY DEF OneKey
  <1> QED
    BY <1>1, OneKeyInUse, PTL

\* The key the recipient has cached, which get_encryption_key_shared_by_other never looks
\* up again, is the one on the server, and so is every one it will be told of.
THEOREM CacheStaysFresh == ApartSpec => []CacheIsFresh
  <1>1. OneKey => CacheIsFresh
    BY DEF OneKey
  <1> QED
    BY <1>1, OneKeyInUse, PTL

\* A sharer with one client has nobody to create a key with at the same time.
THEOREM OneClientIsApart ==
    ASSUME NEW me, Sharers = {me}
    PROVE  Spec => ApartSpec
  <1>1. Apart'
    BY DEF Apart
  <1>2. [Next]_vars => [Next /\ Apart']_vars
    BY <1>1
  <1> QED
    BY <1>2, PTL DEF Spec, ApartSpec
=============================================================================
