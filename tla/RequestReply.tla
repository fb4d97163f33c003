---------------------------- MODULE RequestReply ----------------------------
(***************************************************************************)
(* What a connection promises its callers, with no socket in sight: a call *)
(* of execute_command ends with the reply to its own command or with an    *)
(* exception, and never with anything else.                                *)
(***************************************************************************)
EXTENDS Naturals

CONSTANT Callers        \* the threads that call execute_command

VARIABLES
    pending,            \* the callers inside a call
    asked,              \* asked[c]: the number of the last command of c
    answer,             \* answer[c]: the command whose reply c was given last
    issued              \* how many commands have been issued

vars == <<pending, asked, answer, issued>>

\* answer[c] when the call of c raised, or has not returned.
NoAnswer == 0

Init ==
    /\ pending = {}
    /\ asked = [c \in Callers |-> 0]
    /\ answer = [c \in Callers |-> NoAnswer]
    /\ issued = 0

\* A caller begins a call; every command has a number of its own.
Begin(c) ==
    /\ c \notin pending
    /\ pending' = pending \cup {c}
    /\ issued' = issued + 1
    /\ asked' = [asked EXCEPT ![c] = issued']
    /\ answer' = [answer EXCEPT ![c] = NoAnswer]

\* The call returns, or raises, what the server said to this very command.
Answer(c) ==
    /\ c \in pending
    /\ pending' = pending \ {c}
    /\ answer' = [answer EXCEPT ![c] = asked[c]]
    /\ UNCHANGED <<asked, issued>>

\* The call raises for a reason of the client: the socket, an unreadable reply.
Fail(c) ==
    /\ c \in pending
    /\ pending' = pending \ {c}
    /\ UNCHANGED <<asked, answer, issued>>

Next == \E c \in Callers : Begin(c) \/ Answer(c) \/ Fail(c)

Spec == Init /\ [][Next]_vars
=============================================================================
