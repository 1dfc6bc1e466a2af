----------------------------- MODULE DeviceSignIn -----------------------------
(***************************************************************************)
(* Sign-in with a device code, and the identity connection it leaves:      *)
(* src/functions/lib/connection-identity.ts.                               *)
(*                                                                         *)
(* One authorization, that of one user.  The client polls; its polls and   *)
(* the requests that resolve the user's connection overlap.  GitHub, which *)
(* is external, gives its tokens for a device code once, and a refresh     *)
(* token is honoured once.                                                 *)
(***************************************************************************)
EXTENDS Naturals

CONSTANTS
    Polls,            \* overlapping polls
    Resolvers,        \* overlapping requests that need the connection's token
    MaxTokens         \* bound: tokens that GitHub issues

VARIABLES
    approval,         \* the device code at GitHub: "waiting", "approved", "denied" or "used"
    result, due,      \* the row: whether result_json is set, and the interval since last_polled_at is over
    poll,             \* what a poll is at
    told,             \* what the client was told at last
    issued,           \* tokens that GitHub has issued
    honoured,         \* those it honours
    connection,       \* the stored refresh token; 0 if there is none
    resolver,         \* what a resolver is at, the token it read and the one it got
    slow, lost

pollVars == <<approval, result, due, poll, told>>
vars     == <<pollVars, issued, honoured, connection, resolver, slow, lost>>

Tokens == 1 .. MaxTokens

Unread  == [phase |-> "idle", read |-> 0, got |-> 0]
Resting == [phase |-> "idle", got |-> 0]

Init ==
    /\ approval = "waiting"
    /\ result = FALSE
    /\ due = TRUE
    /\ poll = [p \in Polls |-> Resting]
    /\ told = "nothing"
    /\ issued = 0
    /\ honoured = {}
    /\ connection = 0
    /\ resolver = [r \in Resolvers |-> Unread]
    /\ slow = FALSE
    /\ lost = FALSE

\* The user types the code.
Decide ==
    /\ approval = "waiting"
    /\ approval' \in {"approved", "denied"}
    /\ UNCHANGED <<result, due, poll, told, issued, honoured, connection, resolver, slow, lost>>

\* The interval passes.  A poll that is not back by then is a slow one.
Pass ==
    /\ ~due
    /\ due' = TRUE
    /\ slow' = (slow \/ \E p \in Polls : poll[p].phase \notin {"idle", "read"})
    /\ UNCHANGED <<approval, result, poll, told, issued, honoured, connection, resolver, lost>>

-----------------------------------------------------------------------------
(* A poll: pollGitHubDeviceIdentity *)

\* Of a client that was not told how it ended.
Read(p) ==
    /\ poll[p].phase = "idle"
    /\ told = "nothing"
    /\ IF result
       THEN told' = "complete" /\ UNCHANGED poll
       ELSE /\ due
            /\ poll' = [poll EXCEPT ![p].phase = "read"]
            /\ UNCHANGED told
    /\ UNCHANGED <<approval, result, due, issued, honoured, connection, resolver, slow, lost>>

\* Slip: the interval that the SELECT found over is not asked for again.
ClaimableRead == ~result

Claimable == ~result /\ due

\* Two polls may have read the row before either claims it.
Claim(p) ==
    /\ poll[p].phase = "read"
    /\ IF Claimable
       THEN /\ due' = FALSE
            /\ poll' = [poll EXCEPT ![p].phase = "claimed"]
       ELSE /\ poll' = [poll EXCEPT ![p] = Resting]
            /\ UNCHANGED due
    /\ UNCHANGED <<approval, result, told, issued, honoured, connection, resolver, slow, lost>>

\* GitHub's answer.  A code that was used is refused like one that was denied.
Exchange(p) ==
    /\ poll[p].phase = "claimed"
    /\ CASE approval = "waiting" ->
                /\ poll' = [poll EXCEPT ![p] = Resting]
                /\ UNCHANGED <<approval, told, issued, honoured>>
         [] approval = "approved" ->
                /\ issued < MaxTokens
                /\ issued' = issued + 1
                /\ honoured' = honoured \cup {issued'}
                /\ approval' = "used"
                /\ poll' = [poll EXCEPT ![p] = [phase |-> "exchanged", got |-> issued']]
                /\ UNCHANGED told
         [] OTHER ->
                /\ told' = "denied"
                /\ poll' = [poll EXCEPT ![p] = Resting]
                /\ UNCHANGED <<approval, issued, honoured>>
    /\ UNCHANGED <<result, due, connection, resolver, slow, lost>>

\* persistGitHubIdentity, whatever the connection holds.
Persist(p) ==
    /\ poll[p].phase = "exchanged"
    /\ connection' = poll[p].got
    /\ poll' = [poll EXCEPT ![p].phase = "persisted"]
    /\ UNCHANGED <<approval, result, due, told, issued, honoured, resolver, slow, lost>>

Complete(p) ==
    /\ poll[p].phase = "persisted"
    /\ result' = TRUE
    /\ told' = "complete"
    /\ poll' = [poll EXCEPT ![p] = Resting]
    /\ UNCHANGED <<approval, due, issued, honoured, connection, resolver, slow, lost>>

\* A call throws, or the isolate dies: what GitHub gave is not given again.
BreakOff(p) ==
    /\ poll[p].phase # "idle"
    /\ lost' = (lost \/ poll[p].phase \in {"exchanged", "persisted"})
    /\ poll' = [poll EXCEPT ![p] = Resting]
    /\ UNCHANGED <<approval, result, due, told, issued, honoured, connection, resolver, slow>>

-----------------------------------------------------------------------------
(* A request: resolveIdentityConnection, for a token that expires soon *)

Resolve(r) ==
    /\ resolver[r].phase = "idle"
    /\ connection # 0
    /\ resolver' = [resolver EXCEPT ![r] = [phase |-> "read", read |-> connection, got |-> 0]]
    /\ UNCHANGED <<pollVars, issued, honoured, connection, slow, lost>>

\* A refused token is an answer too: the request goes on as if there were no connection.
Refresh(r) ==
    /\ resolver[r].phase = "read"
    /\ issued < MaxTokens
    /\ IF resolver[r].read \in honoured
       THEN /\ issued' = issued + 1
            /\ honoured' = (honoured \ {resolver[r].read}) \cup {issued'}
            /\ resolver' = [resolver EXCEPT ![r].phase = "refreshed", ![r].got = issued']
       ELSE /\ resolver' = [resolver EXCEPT ![r] = Unread]
            /\ UNCHANGED <<issued, honoured>>
    /\ UNCHANGED <<pollVars, connection, slow, lost>>

\* Slip: the refresh token that was used is stored again.
StoredRead(r) == resolver[r].read

Stored(r) == resolver[r].got

Save(r) ==
    /\ resolver[r].phase = "refreshed"
    /\ connection' = Stored(r)
    /\ resolver' = [resolver EXCEPT ![r] = Unread]
    /\ UNCHANGED <<pollVars, issued, honoured, slow, lost>>

Lose(r) ==
    /\ resolver[r].phase # "idle"
    /\ lost' = (lost \/ resolver[r].phase = "refreshed")
    /\ resolver' = [resolver EXCEPT ![r] = Unread]
    /\ UNCHANGED <<pollVars, issued, honoured, connection, slow>>

-----------------------------------------------------------------------------
Next ==
    \/ Decide \/ Pass
    \/ \E p \in Polls : Read(p) \/ Claim(p) \/ Exchange(p) \/ Persist(p) \/ Complete(p) \/ BreakOff(p)
    \/ \E r \in Resolvers : Resolve(r) \/ Refresh(r) \/ Save(r) \/ Lose(r)

Spec == Init /\ [][Next]_vars

-----------------------------------------------------------------------------
TypeOK ==
    /\ approval \in {"waiting", "approved", "denied", "used"}
    /\ {result, due, slow, lost} \subseteq BOOLEAN
    /\ poll \in [Polls -> [phase : {"idle", "read", "claimed", "exchanged", "persisted"}, got : 0 .. MaxTokens]]
    /\ told \in {"nothing", "complete", "denied"}
    /\ issued \in 0 .. MaxTokens
    /\ honoured \subseteq Tokens
    /\ connection \in 0 .. MaxTokens
    /\ resolver \in [Resolvers -> [phase : {"idle", "read", "refreshed"}, read : 0 .. MaxTokens, got : 0 .. MaxTokens]]

\* A client whose user approved the code is never told that it was denied, however its
\* polls overlap, unless one took longer than the interval, or what GitHub gave was lost.
ApprovedIsNotDenied ==
    told = "denied" => approval = "denied" \/ slow \/ lost

\* The stored refresh token is honoured whenever no request is about to replace it,
\* unless GitHub's answer to one was lost: a connection is not lost to requests, or a
\* sign-in, that overlap.
ConnectionIsHonoured ==
    connection # 0 /\ (\A r \in Resolvers : resolver[r].phase # "refreshed") => connection \in honoured \/ lost
=============================================================================
