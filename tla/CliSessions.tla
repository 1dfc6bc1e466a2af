----------------------------- MODULE CliSessions -----------------------------
(***************************************************************************)
(* The command line's native session: the credential store and the lock    *)
(* file that all the processes of a computer share (lib/store.mjs,         *)
(* lib/client.mjs and noxconnect.mjs of src/apps/cli), and the rows of     *)
(* native_sessions in src/services/gateway/src/control.                    *)
(*                                                                         *)
(* A token is <<session, generation>>: the refresh token that a rotation   *)
(* replaces, and the access token that came with it.                       *)
(***************************************************************************)
EXTENDS Naturals

CONSTANTS
    Procs,            \* processes of one user
    NoProc,
    MaxLogins,        \* bound: sessions signed in to
    MaxRotations,     \* bound: rotations of a session's refresh token
    MaxFaults         \* bound: deaths, failed calls and lost answers

ASSUME LoginsAssumption == MaxLogins \in Nat
ASSUME FaultsAssumption == MaxFaults \in Nat

VARIABLES
    current, revoked, \* native_sessions: a session's generation (0: no row), and revoked_at
    store,            \* the stored session
    lock,             \* the lock file: who created it, whether it names a process, its age
    pc, command, mem, \* what a process is at, what it was started for, the session it holds
    faults,
    stolen, lost, overwrote, stillValid, signedOut

serverVars  == <<current, revoked>>
processVars == <<pc, command, mem>>
causes      == <<stolen, lost, overwrote, stillValid, signedOut>>
vars == <<serverVars, store, lock, processVars, faults, causes>>

Sessions == 1 .. MaxLogins
None     == [session |-> 0, generation |-> 0, fresh |-> FALSE]
Stored   == [session : 0 .. MaxLogins, generation : Nat, fresh : BOOLEAN]
NoLock   == [by |-> NoProc, names |-> "nobody", old |-> FALSE]

Commands == {"request", "use", "login", "logout"}
Inside   == {"inside", "saving", "polling", "revoking", "deleting", "leaving"}

Init ==
    /\ current = [s \in Sessions |-> 0]
    /\ revoked = {}
    /\ store = None
    /\ lock = NoLock
    /\ pc = [p \in Procs |-> "idle"]
    /\ command = [p \in Procs |-> "none"]
    /\ mem = [p \in Procs |-> None]
    /\ faults = 0
    /\ stolen = FALSE
    /\ lost = FALSE
    /\ overwrote = FALSE
    /\ stillValid = FALSE
    /\ signedOut = FALSE

Faulty ==
    /\ faults < MaxFaults
    /\ faults' = faults + 1

Goes(p, to) == pc' = [pc EXCEPT ![p] = to]

Ends(p) ==
    /\ pc' = [pc EXCEPT ![p] = "idle"]
    /\ command' = [command EXCEPT ![p] = "none"]
    /\ mem' = [mem EXCEPT ![p] = None]

\* Slip: a revoked session can still be refreshed.
HonouredRevoked(s) ==
    /\ s.session \in Sessions
    /\ s.generation = current[s.session]

\* The refresh token is its session's last one, and the session is not revoked.
Honoured(s) ==
    /\ s.session \in Sessions \ revoked
    /\ s.generation = current[s.session]

\* Access tokens expire; the store and the processes hold the same ones.
Expire ==
    /\ store.fresh
    /\ store.generation <= MaxRotations
    /\ store' = [store EXCEPT !.fresh = FALSE]
    /\ mem' = [p \in Procs |-> [mem[p] EXCEPT !.fresh = FALSE]]
    /\ UNCHANGED <<serverVars, lock, pc, command, faults, causes>>

-----------------------------------------------------------------------------
(* Commands begin *)

\* A request, or `use`, reads the session without the lock.  ensureAccess takes the
\* lock only to refresh it.
Begin(p) ==
    /\ pc[p] = "idle"
    /\ store # None
    /\ \E c \in {"request", "use"} :
           /\ store.fresh => c = "use"
           /\ command' = [command EXCEPT ![p] = c]
           /\ mem' = [mem EXCEPT ![p] = store]
           /\ Goes(p, IF store.fresh THEN "using" ELSE "waiting")
    /\ UNCHANGED <<serverVars, store, lock, faults, causes>>

BeginLocked(p) ==
    /\ pc[p] = "idle"
    /\ \E c \in {"login", "logout"} : command' = [command EXCEPT ![p] = c]
    /\ Goes(p, "waiting")
    /\ UNCHANGED <<serverVars, store, lock, mem, faults, causes>>

\* `use` stores the session it read, with another context, and takes no lock.
UseWrites(p) ==
    /\ pc[p] = "using"
    /\ store' = mem[p]
    /\ overwrote' = (overwrote \/ store # mem[p])
    /\ Ends(p)
    /\ UNCHANGED <<serverVars, lock, faults, stolen, lost, stillValid, signedOut>>

-----------------------------------------------------------------------------
(* withSessionLock *)

Acquire(p) ==
    /\ pc[p] = "waiting"
    /\ lock = NoLock
    /\ lock' = [by |-> p, names |-> "living", old |-> FALSE]
    /\ Goes(p, "inside")
    /\ UNCHANGED <<serverVars, store, command, mem, faults, causes>>

\* It is killed before the file it has created names it.
DieNameless(p) ==
    /\ pc[p] = "waiting"
    /\ lock = NoLock
    /\ Faulty
    /\ lock' = [by |-> p, names |-> "nobody", old |-> FALSE]
    /\ Ends(p)
    /\ UNCHANGED <<serverVars, store, causes>>

\* staleSessionLock: twenty minutes old, or its process is gone.  An empty file is not.
Stale == lock.old \/ lock.names = "dead"

Judge(p) ==
    /\ pc[p] = "waiting"
    /\ lock # NoLock
    /\ Stale
    /\ Goes(p, "judged")
    /\ UNCHANGED <<serverVars, store, lock, command, mem, faults, causes>>

\* The file is removed by its path, whichever file that is now.
Break(p) ==
    /\ pc[p] = "judged"
    /\ lock' = NoLock
    /\ stolen' = (stolen \/ lock.old \/ lock.names = "living")
    /\ Goes(p, "waiting")
    /\ UNCHANGED <<serverVars, store, command, mem, faults, lost, overwrote, stillValid, signedOut>>

\* Slip: what a process did not get it releases all the same.
GiveUpReleasing(p) ==
    /\ pc[p] = "waiting"
    /\ lock' = NoLock
    /\ Ends(p)
    /\ UNCHANGED <<serverVars, store, faults, causes>>

GiveUp(p) ==
    /\ pc[p] = "waiting"
    /\ lock # NoLock
    /\ Ends(p)
    /\ UNCHANGED <<serverVars, store, lock, faults, causes>>

\* The process that holds the lock sleeps, as a closed laptop does.
Age ==
    /\ lock # NoLock
    /\ ~lock.old
    /\ Faulty
    /\ lock' = [lock EXCEPT !.old = TRUE]
    /\ UNCHANGED <<serverVars, store, processVars, causes>>

Leave(p) ==
    /\ pc[p] = "leaving"
    /\ lock' = NoLock
    /\ IF command[p] = "use" /\ mem[p].fresh
       THEN Goes(p, "using") /\ UNCHANGED <<command, mem>>
       ELSE Ends(p)
    /\ UNCHANGED <<serverVars, store, faults, causes>>

-----------------------------------------------------------------------------
(* Inside the lock: a refresh *)

\* Slip: the refresh token of the session before is kept.
RotatedNotToken(s) == [s EXCEPT !.fresh = TRUE]

\* normalizedSession, of rotateNativeSession's answer.
Rotated(s) == [session |-> s.session, generation |-> s.generation + 1, fresh |-> TRUE]

\* ensureAccess loads again, keeps what it had if nothing is there any more, and
\* refreshes.  The rotation's UPDATE names the token that its SELECT found: one step.
Refresh(p) ==
    /\ pc[p] = "inside"
    /\ command[p] \in {"request", "use"}
    /\ LET latest == IF store = None THEN mem[p] ELSE store IN
       IF ~latest.fresh /\ Honoured(latest)
       THEN /\ current' = [current EXCEPT ![latest.session] = @ + 1]
            /\ mem' = [mem EXCEPT ![p] = Rotated(latest)]
            /\ Goes(p, "saving")
       ELSE /\ mem' = [mem EXCEPT ![p] = latest]
            /\ Goes(p, "leaving")
            /\ UNCHANGED current
    /\ UNCHANGED <<revoked, store, lock, command, faults, causes>>

\* The answer to a rotation does not arrive, or the store cannot be written.
LoseAnswer(p) ==
    /\ pc[p] = "saving"
    /\ Faulty
    /\ lost' = TRUE
    /\ mem' = [mem EXCEPT ![p] = None]
    /\ Goes(p, "leaving")
    /\ UNCHANGED <<serverVars, store, lock, command, stolen, overwrote, stillValid, signedOut>>

Save(p) ==
    /\ pc[p] = "saving"
    /\ store' = mem[p]
    /\ signedOut' = (signedOut /\ command[p] # "login")
    /\ Goes(p, "leaving")
    /\ UNCHANGED <<serverVars, lock, command, mem, faults, stolen, lost, overwrote, stillValid>>

-----------------------------------------------------------------------------
(* Inside the lock: login and logout *)

LookFirst(p) ==
    /\ pc[p] = "inside"
    /\ command[p] \in {"login", "logout"}
    /\ mem' = [mem EXCEPT ![p] = store]
    /\ Goes(p, IF (command[p] = "login") = (store = None)
               THEN IF store = None THEN "polling" ELSE "revoking"
               ELSE "leaving")
    /\ UNCHANGED <<serverVars, store, lock, command, faults, causes>>

\* The device code is approved: createNativeSession.
SignIn(p) ==
    /\ pc[p] = "polling"
    /\ \E s \in Sessions :
           /\ current[s] = 0
           /\ \A t \in 1 .. s - 1 : current[t] # 0
           /\ current' = [current EXCEPT ![s] = 1]
           /\ mem' = [mem EXCEPT ![p] = [session |-> s, generation |-> 1, fresh |-> TRUE]]
    /\ Goes(p, "saving")
    /\ UNCHANGED <<revoked, store, lock, command, faults, causes>>

\* The code expires, or is denied.
SignInFails(p) ==
    /\ pc[p] = "polling"
    /\ Goes(p, "leaving")
    /\ UNCHANGED <<serverVars, store, lock, command, mem, faults, causes>>

\* revokeNativeSession, by the refresh token.
Revoke(p) ==
    /\ pc[p] = "revoking"
    /\ IF Honoured(mem[p])
       THEN revoked' = revoked \cup {mem[p].session} /\ UNCHANGED stillValid
       ELSE stillValid' = (stillValid \/ mem[p].session \notin revoked) /\ UNCHANGED revoked
    /\ Goes(p, "deleting")
    /\ UNCHANGED <<current, store, lock, command, mem, faults, stolen, lost, overwrote, signedOut>>

RevokeFails(p) ==
    /\ pc[p] = "revoking"
    /\ Faulty
    /\ stillValid' = TRUE
    /\ Goes(p, "deleting")
    /\ UNCHANGED <<serverVars, store, lock, command, mem, stolen, lost, overwrote, signedOut>>

\* finally { deleteSession() }
Delete(p) ==
    /\ pc[p] = "deleting"
    /\ store' = None
    /\ signedOut' = TRUE
    /\ Goes(p, "leaving")
    /\ UNCHANGED <<serverVars, lock, command, mem, faults, stolen, lost, overwrote, stillValid>>

-----------------------------------------------------------------------------
\* A process is killed; one started later takes its place.
Die(p) ==
    /\ pc[p] # "idle"
    /\ Faulty
    /\ lock' = IF lock.by = p /\ lock.names = "living" THEN [lock EXCEPT !.names = "dead"] ELSE lock
    /\ lost' = (lost \/ pc[p] \in {"saving", "deleting"})
    /\ Ends(p)
    /\ UNCHANGED <<serverVars, store, stolen, overwrote, stillValid, signedOut>>

Process(p) ==
    \/ Begin(p) \/ BeginLocked(p) \/ UseWrites(p)
    \/ Acquire(p) \/ DieNameless(p) \/ Judge(p) \/ Break(p) \/ GiveUp(p) \/ Leave(p)
    \/ Refresh(p) \/ LoseAnswer(p) \/ Save(p)
    \/ LookFirst(p) \/ SignIn(p) \/ SignInFails(p) \/ Revoke(p) \/ RevokeFails(p) \/ Delete(p)
    \/ Die(p)

Next == Expire \/ Age \/ \E p \in Procs : Process(p)

Spec == Init /\ [][Next]_vars
-----------------------------------------------------------------------------
TypeOK ==
    /\ current \in [Sessions -> Nat]
    /\ revoked \subseteq Sessions
    /\ store \in Stored
    /\ lock \in [by : Procs \cup {NoProc}, names : {"nobody", "living", "dead"}, old : BOOLEAN]
    /\ pc \in [Procs -> {"idle", "using", "waiting", "judged"} \cup Inside]
    /\ command \in [Procs -> Commands \cup {"none"}]
    /\ mem \in [Procs -> Stored]
    /\ faults \in 0 .. MaxFaults
    /\ {stolen, lost, overwrote, stillValid, signedOut} \subseteq BOOLEAN

\* Two processes are inside the lock only after a lock was broken whose holder lived:
\* one that was twenty minutes old, or that had replaced the stale one.
LockExclusive ==
    \A p, q \in Procs : pc[p] \in Inside /\ pc[q] \in Inside => p = q \/ stolen

\* The stored refresh token is honoured whenever nobody is about to change it, however
\* many processes refreshed it, unless the answer to a rotation was lost, `use` wrote
\* back a session that had been replaced, or the lock was stolen.
StoredTokenIsHonoured ==
    store # None /\ (\A p \in Procs : pc[p] \notin {"saving", "deleting"})
        => Honoured(store) \/ lost \/ overwrote \/ stolen

\* What logout removed no process brings back, not even one that held the session and
\* waited to refresh it: only a login, a `use` that had read it before, or a session
\* that could not be revoked.
SignedOutStaysOut ==
    signedOut => store = None \/ overwrote \/ stillValid \/ stolen
=============================================================================
