-------------------------- MODULE MCTransportOutbox --------------------------
(* Small instances of TransportOutbox for TLC: invocations are interchangeable. *)
EXTENDS TransportOutbox, TLC

CONSTANT Earlier  \* a command that is over, if it is there at all, when the others begin

Interchangeable == Permutations(Threads)

Over(c) ==
    /\ status[c] = "delivered"
    /\ \A t \in Threads : cur[t] # c /\ c \notin job[t].todo
    /\ \A kind \in Kinds, n \in Deliveries : queue[<<kind, c>>][n] = 0

\* Commands share nothing but the invocations that handle them and the marker they may
\* carry, so an instance with commands of several kinds follows one of them at a time:
\* by itself, or behind one with its marker that was delivered at the first attempt.
OneCommand ==
    /\ \A c, d \in Commands \ Earlier : status[c] # "absent" /\ status[d] # "absent" => c = d
    /\ \A c \in Earlier : status[c] # "absent" =>
           /\ attempts[c] <= 1
           /\ \A d \in Commands \ Alike(c) : status[d] = "absent"
           /\ Over(c) \/ (faults = 0 /\ \A d \in Commands \ {c} : status[d] = "absent")
=============================================================================
