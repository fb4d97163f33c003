------------------- MODULE MCAtMonitorConnectionUnserved --------------------
(***************************************************************************)
(* AtMonitorConnection with a history of how the monitor got to where it   *)
(* is: it was served; then the connection broke under a read; then the     *)
(* reader announced that the heartbeat would restart it.                   *)
(***************************************************************************)
EXTENDS MCAtMonitorConnection

VARIABLE history   \* what has happened so far, the last of the three

\* Reading from a connection on which the server sends notifications.
Served(t) == pc[t] = "read" /\ reading[t] = "newest" /\ sock = "up" /\ monitoring

HistoryInit == Init /\ history = "nothing"

HistoryNext ==
    /\ Next
    /\ history' =
          CASE history = "nothing" /\ (\E t \in Threads : Served(t)') -> "served"
            [] history = "served" /\ (\E t \in Threads : ReadFails(t)) -> "broken"
            [] history = "broken" /\ (\E t \in Threads : Broken(t) /\ should_be_running) -> "announced"
            [] OTHER -> history

HistorySpec == HistoryInit /\ [][HistoryNext]_<<vars, history>>

\* After a reader has met a broken connection, and announced the restart, the reader that
\* waits on a live connection is served again: the server sends notifications on it.
\* ("Monitor heartbeat thread should restart the monitor shortly")
ReadersAreServed ==
    history = "announced" =>
        \A t \in Threads : pc[t] = "read" /\ reading[t] = "newest" /\ sock = "up" => Served(t)
=============================================================================
