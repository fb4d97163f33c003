-------------------------------- MODULE Feed ---------------------------------
(***************************************************************************)
(* What a monitor promises: notifications are received one after another   *)
(* in the order in which they arrived, none twice, and none left out but   *)
(* one of the same millisecond as an earlier one, or a line of statistics, *)
(* that was received; and updates are shown in the order in which they     *)
(* were received.                                                          *)
(* There is no connection here that could be lost.                         *)
(***************************************************************************)
EXTENDS Naturals, Sequences, SequencesExt

VARIABLES
    arrived,     \* the notifications the atServer has, each with its time
    received,    \* those that were received, in that order
    stamps,      \* the times of the lines of statistics that were received
    shown        \* those the application was given in clear, in that order

vars == <<arrived, received, stamps, shown>>

Init == arrived = <<>> /\ received = <<>> /\ stamps = {} /\ shown = <<>>

Arrive ==
    /\ Len(arrived') = Len(arrived) + 1
    /\ \A i \in DOMAIN arrived :
          arrived'[i] = arrived[i] /\ arrived[i].time <= arrived'[Len(arrived')].time
    /\ UNCHANGED <<received, stamps, shown>>

Receive(i) ==
    /\ \A earlier \in ToSet(received) : earlier < i
    /\ \A missed \in 1..(i - 1) :
          \/ \E r \in ToSet(received) : r <= missed /\ arrived[r].time = arrived[missed].time
          \/ arrived[missed].time \in stamps
    /\ received' = Append(received, i)
    /\ UNCHANGED <<arrived, stamps, shown>>

\* Statistics are no older than a notification that was received before them.
Hear(time) ==
    /\ \A r \in ToSet(received) : arrived[r].time <= time
    /\ stamps' = stamps \cup {time}
    /\ UNCHANGED <<arrived, received, shown>>

\* An update may never be shown, when it cannot be decrypted; but not after a later one.
Show(i) ==
    /\ \A earlier \in ToSet(shown) : earlier < i
    /\ shown' = Append(shown, i)
    /\ UNCHANGED <<arrived, received, stamps>>

Next ==
    \/ Arrive
    \/ \E i \in DOMAIN arrived : Receive(i)
    \/ \E time \in stamps' : Hear(time)
    \/ \E i \in ToSet(received) : Show(i)

Spec == Init /\ [][Next]_vars
=============================================================================
