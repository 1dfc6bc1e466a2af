-------------------------- MODULE TransportPromise --------------------------
(***************************************************************************)
(* What the transport outbox promises the products that publish commands:  *)
(* the provider acts only while a command is open, a delivery is backed by *)
(* a provider action and is final, a refusal is final unless an operator   *)
(* reopens it, and a command with an idempotency marker acts once.  The    *)
(* action may be that of another command that carries the same marker.     *)
(***************************************************************************)
EXTENDS Naturals

CONSTANTS Commands,
          Reopenable,   \* commands an operator may reopen after a refusal
          Once,         \* commands whose provider action must not be repeated
          SameMarker    \* the sets of them that carry one marker

VARIABLES phase,    \* phase[c]: how far the command has come
          effects   \* effects[c]: how often the provider has acted on it

Refusals == {"blocked", "failed"}
Outcomes == {"delivered"} \cup Refusals
Phases   == {"absent", "open"} \cup Outcomes

Init ==
    /\ phase = [c \in Commands |-> "absent"]
    /\ effects = [c \in Commands |-> 0]

Moves(c, from, to) ==
    /\ phase[c] = from
    /\ phase' = [phase EXCEPT ![c] = to]
    /\ UNCHANGED effects

Accept(c) == Moves(c, "absent", "open")

Act(c) ==
    /\ phase[c] = "open"
    /\ c \in Once => effects[c] = 0
    /\ effects' = [effects EXCEPT ![c] = @ + 1]
    /\ UNCHANGED phase

Alike(c) == {c} \cup UNION {group \in SameMarker : c \in group}

Deliver(c) == (\E d \in Alike(c) : effects[d] > 0) /\ Moves(c, "open", "delivered")

Refuse(c) == \E refusal \in Refusals : Moves(c, "open", refusal)

\* One operator action reopens every refused command in its scope.
Reopen(scope) ==
    /\ \A c \in scope : phase[c] \in Refusals
    /\ phase' = [c \in Commands |-> IF c \in scope THEN "open" ELSE phase[c]]
    /\ UNCHANGED effects

Next ==
    \/ \E c \in Commands : Accept(c) \/ Act(c) \/ Deliver(c) \/ Refuse(c)
    \/ \E scope \in SUBSET Reopenable : Reopen(scope)

Spec == Init /\ [][Next]_<<phase, effects>>
=============================================================================
