-------------------------- MODULE CliSessionsProofs --------------------------
(***************************************************************************)
(* Proofs about the session lock and the tokens it protects, for any       *)
(* number of processes, sessions and faults (CliSessions).                 *)
(*                                                                         *)
(* Exclusion is not inductive: it follows from what the lock file says.    *)
(* As long as no lock was broken whose holder lived, whoever is inside     *)
(* made the file, and the file names it as living; there is one file, so   *)
(* there is one of them.  A lock that is broken while it names a living    *)
(* process, or is old, is counted as stolen, so breaking an honest stale   *)
(* lock finds nobody inside.                                               *)
(*                                                                         *)
(* From exclusion, and from tokens being issued ones (TokenInv), follow    *)
(* that the stored token is honoured (Kept) and that what logout removed   *)
(* is not brought back (Removed).                                          *)
(***************************************************************************)
EXTENDS CliSessions, TLAPS

Phases == {"idle", "using", "waiting", "judged"} \cup Inside

LockFiles == [by : Procs \cup {NoProc}, names : {"nobody", "living", "dead"}, old : BOOLEAN]

LockTypes ==
    /\ pc \in [Procs -> Phases]
    /\ lock \in LockFiles
    /\ stolen \in BOOLEAN

\* Whoever is inside made the lock file, and it names that process as living.
HolderIsNamed ==
    stolen \/ \A p \in Procs : pc[p] \in Inside => lock.by = p /\ lock.names = "living"

LockInv == LockTypes /\ HolderIsNamed

LEMMA NoLockTypes == NoLock \in LockFiles /\ NoLock.by = NoProc /\ NoLock.names = "nobody"
  BY DEF NoLock, LockFiles

LEMMA LockInvInit == Init => LockInv
  <1> SUFFICES ASSUME Init PROVE LockInv
    OBVIOUS
  <1>1. pc \in [Procs -> Phases] /\ \A p \in Procs : pc[p] \notin Inside
    <2>1. "idle" \in Phases /\ "idle" \notin Inside
      BY DEF Phases, Inside
    <2> QED BY <2>1, Zenon DEF Init
  <1>2. lock \in LockFiles
    BY NoLockTypes DEF Init
  <1>3. stolen = FALSE
    BY DEF Init
  <1> QED BY <1>1, <1>2, <1>3, Zenon DEF LockInv, LockTypes, HolderIsNamed

\* A step that neither lets anybody in nor touches the lock preserves the invariant.
LEMMA LockFrame ==
    ASSUME LockInv, pc' \in [Procs -> Phases],
           \A p \in Procs : pc'[p] \in Inside => pc[p] \in Inside,
           lock' = lock, stolen' = stolen
    PROVE  LockInv'
  BY DEF LockInv, LockTypes, HolderIsNamed

\* One process moves, and goes inside only if it was there.
LEMMA Moves ==
    ASSUME NEW p \in Procs, NEW to \in Phases, LockInv, Goes(p, to),
           to \in Inside => pc[p] \in Inside, lock' = lock, stolen' = stolen
    PROVE  LockInv'
  <1>1. pc' \in [Procs -> Phases]
    BY DEF Goes, LockInv, LockTypes
  <1>2. \A r \in Procs : pc'[r] \in Inside => pc[r] \in Inside
    BY DEF Goes, LockInv, LockTypes
  <1> QED BY <1>1, <1>2, LockFrame

LEMMA Leaves ==
    ASSUME NEW p \in Procs, LockInv, Ends(p), lock' = lock, stolen' = stolen
    PROVE  LockInv'
  <1>1. pc' \in [Procs -> Phases]
    BY DEF Ends, LockInv, LockTypes, Phases
  <1>2. \A r \in Procs : pc'[r] \in Inside => pc[r] \in Inside
    BY DEF Ends, LockInv, LockTypes, Inside
  <1> QED BY <1>1, <1>2, LockFrame

LEMMA PhasesOfCommands ==
    /\ {"idle", "using", "waiting", "judged", "inside", "saving", "polling", "revoking",
        "deleting", "leaving"} \subseteq Phases
    /\ {"inside", "saving", "polling", "revoking", "deleting", "leaving"} \subseteq Inside
    /\ "idle" \notin Inside
    /\ "using" \notin Inside
    /\ "waiting" \notin Inside
    /\ "judged" \notin Inside
  BY DEF Phases, Inside

\* Actions that move one process among the phases inside the lock, or among those outside.
LEMMA WorkPreserves ==
    ASSUME NEW p \in Procs, LockInv,
           \/ Begin(p) \/ BeginLocked(p) \/ UseWrites(p) \/ Judge(p) \/ GiveUp(p)
           \/ Refresh(p) \/ LoseAnswer(p) \/ Save(p)
           \/ LookFirst(p) \/ SignIn(p) \/ SignInFails(p)
           \/ Revoke(p) \/ RevokeFails(p) \/ Delete(p)
    PROVE  LockInv'
  <1>1. CASE Begin(p)
    <2>1. \E to \in {"using", "waiting"} : Goes(p, to)
      BY <1>1 DEF Begin
    <2>2. lock' = lock /\ stolen' = stolen
      BY <1>1 DEF Begin, causes
    <2> QED BY <2>1, <2>2, Moves, PhasesOfCommands
  <1>2. CASE BeginLocked(p)
    <2>1. Goes(p, "waiting") /\ lock' = lock /\ stolen' = stolen
      BY <1>2 DEF BeginLocked, causes
    <2> QED BY <2>1, Moves, PhasesOfCommands
  <1>3. CASE UseWrites(p)
    <2>1. Ends(p) /\ lock' = lock /\ stolen' = stolen
      BY <1>3 DEF UseWrites
    <2> QED BY <2>1, Leaves
  <1>4. CASE Judge(p)
    <2>1. Goes(p, "judged") /\ lock' = lock /\ stolen' = stolen
      BY <1>4 DEF Judge, causes
    <2> QED BY <2>1, Moves, PhasesOfCommands
  <1>5. CASE GiveUp(p)
    <2>1. Ends(p) /\ lock' = lock /\ stolen' = stolen
      BY <1>5 DEF GiveUp, causes
    <2> QED BY <2>1, Leaves
  <1>6. CASE Refresh(p)
    <2>1. pc[p] \in Inside /\ lock' = lock /\ stolen' = stolen
      BY <1>6, PhasesOfCommands DEF Refresh, causes
    <2>2. \E to \in {"saving", "leaving"} : Goes(p, to)
      BY <1>6 DEF Refresh
    <2> QED BY <2>1, <2>2, Moves, PhasesOfCommands
  <1>7. CASE LoseAnswer(p) \/ Save(p)
    <2>1. pc[p] \in Inside /\ Goes(p, "leaving") /\ lock' = lock /\ stolen' = stolen
      BY <1>7, PhasesOfCommands DEF LoseAnswer, Save
    <2> QED BY <2>1, Moves, PhasesOfCommands
  <1>8. CASE LookFirst(p)
    <2>1. pc[p] \in Inside /\ lock' = lock /\ stolen' = stolen
      BY <1>8, PhasesOfCommands DEF LookFirst, causes
    <2>2. \E to \in {"polling", "revoking", "leaving"} : Goes(p, to)
      BY <1>8 DEF LookFirst
    <2> QED BY <2>1, <2>2, Moves, PhasesOfCommands
  <1>9. CASE SignIn(p)
    <2>1. pc[p] \in Inside /\ Goes(p, "saving") /\ lock' = lock /\ stolen' = stolen
      BY <1>9, PhasesOfCommands DEF SignIn, causes
    <2> QED BY <2>1, Moves, PhasesOfCommands
  <1>10. CASE SignInFails(p)
    <2>1. pc[p] \in Inside /\ Goes(p, "leaving") /\ lock' = lock /\ stolen' = stolen
      BY <1>10, PhasesOfCommands DEF SignInFails, causes
    <2> QED BY <2>1, Moves, PhasesOfCommands
  <1>11. CASE Revoke(p) \/ RevokeFails(p)
    <2>1. pc[p] \in Inside /\ Goes(p, "deleting") /\ lock' = lock /\ stolen' = stolen
      BY <1>11, PhasesOfCommands DEF Revoke, RevokeFails
    <2> QED BY <2>1, Moves, PhasesOfCommands
  <1>12. CASE Delete(p)
    <2>1. pc[p] \in Inside /\ Goes(p, "leaving") /\ lock' = lock /\ stolen' = stolen
      BY <1>12, PhasesOfCommands DEF Delete
    <2> QED BY <2>1, Moves, PhasesOfCommands
  <1> QED BY <1>1, <1>2, <1>3, <1>4, <1>5, <1>6, <1>7, <1>8, <1>9, <1>10, <1>11, <1>12

-----------------------------------------------------------------------------
(* The actions that change the lock *)

\* When there is no file and nothing was stolen, nobody is inside.
LEMMA NobodyInside ==
    ASSUME LockInv, lock.names # "living", ~stolen
    PROVE  \A p \in Procs : pc[p] \notin Inside
  BY DEF LockInv, HolderIsNamed

\* An honest lock that is released or broken leaves nobody inside but its holder.
LEMMA Outside ==
    ASSUME pc' \in [Procs -> Phases], lock' \in LockFiles, stolen' \in BOOLEAN,
           stolen' \/ \A p \in Procs : pc'[p] \notin Inside
    PROVE  LockInv'
  BY DEF LockInv, LockTypes, HolderIsNamed

LEMMA AcquirePreserves ==
    ASSUME NEW p \in Procs, LockInv, Acquire(p)
    PROVE  LockInv'
  <1>1. lock'.by = p /\ lock'.names = "living" /\ lock' \in LockFiles
    BY DEF Acquire, LockFiles
  <1>2. stolen' = stolen /\ stolen \in BOOLEAN
    BY DEF Acquire, causes, LockInv, LockTypes
  <1>3. pc' = [pc EXCEPT ![p] = "inside"] /\ pc \in [Procs -> Phases]
    BY DEF Acquire, Goes, LockInv, LockTypes
  <1>4. pc' \in [Procs -> Phases]
    BY <1>3, PhasesOfCommands
  <1>5. ~stolen => \A r \in Procs : pc[r] \notin Inside
    <2>1. lock.names # "living"
      BY NoLockTypes DEF Acquire
    <2> QED BY <2>1, NobodyInside
  <1>6. ~stolen => \A r \in Procs : pc'[r] \in Inside => r = p
    BY <1>3, <1>5
  <1> QED BY <1>1, <1>2, <1>4, <1>6, Zenon DEF LockInv, LockTypes, HolderIsNamed

LEMMA DieNamelessPreserves ==
    ASSUME NEW p \in Procs, LockInv, DieNameless(p)
    PROVE  LockInv'
  <1>1. lock' \in LockFiles
    BY DEF DieNameless, LockFiles
  <1>2. stolen' = stolen /\ stolen \in BOOLEAN
    BY DEF DieNameless, causes, LockInv, LockTypes
  <1>3. pc' = [pc EXCEPT ![p] = "idle"] /\ pc \in [Procs -> Phases]
    BY DEF DieNameless, Ends, LockInv, LockTypes
  <1>4. pc' \in [Procs -> Phases]
    BY <1>3, PhasesOfCommands
  <1>5. ~stolen => \A r \in Procs : pc[r] \notin Inside
    <2>1. lock.names # "living"
      BY NoLockTypes DEF DieNameless
    <2> QED BY <2>1, NobodyInside
  <1>6. ~stolen => \A r \in Procs : pc'[r] \notin Inside
    BY <1>3, <1>5, PhasesOfCommands
  <1> QED BY <1>1, <1>2, <1>4, <1>6, Outside, Zenon

LEMMA BreakPreserves ==
    ASSUME NEW p \in Procs, LockInv, Break(p)
    PROVE  LockInv'
  <1>1. lock' \in LockFiles
    BY NoLockTypes DEF Break
  <1>2. stolen' \in BOOLEAN
    BY DEF Break
  <1>3. ~stolen' => ~stolen /\ lock.names # "living"
    BY Zenon DEF Break
  <1>4. pc' = [pc EXCEPT ![p] = "waiting"] /\ pc \in [Procs -> Phases]
    BY DEF Break, Goes, LockInv, LockTypes
  <1>5. pc' \in [Procs -> Phases]
    BY <1>4, PhasesOfCommands
  <1>6. ~stolen' => \A r \in Procs : pc[r] \notin Inside
    BY <1>3, NobodyInside, Zenon
  <1>7. ASSUME \A r \in Procs : pc[r] \notin Inside
        PROVE  \A r \in Procs : pc'[r] \notin Inside
    BY <1>4, <1>7, PhasesOfCommands
  <1> QED BY <1>1, <1>2, <1>5, <1>6, <1>7, Outside, Zenon

LEMMA LeavePreserves ==
    ASSUME NEW p \in Procs, LockInv, Leave(p)
    PROVE  LockInv'
  <1>1. lock' \in LockFiles
    BY NoLockTypes DEF Leave
  <1>2. stolen' = stolen /\ stolen \in BOOLEAN
    BY DEF Leave, causes, LockInv, LockTypes
  <1>3. \E to \in {"using", "idle"} : pc' = [pc EXCEPT ![p] = to]
    BY DEF Leave, Goes, Ends
  <1>4. pc \in [Procs -> Phases] /\ pc[p] \in Inside
    BY PhasesOfCommands DEF Leave, LockInv, LockTypes
  <1>5. pc' \in [Procs -> Phases]
    BY <1>3, <1>4, PhasesOfCommands
  <1>6. ~stolen => \A r \in Procs : pc[r] \in Inside => r = p
    BY <1>4 DEF LockInv, HolderIsNamed
  <1>7. ~stolen => \A r \in Procs : pc'[r] \notin Inside
    BY <1>3, <1>4, <1>6, PhasesOfCommands
  <1> QED BY <1>1, <1>2, <1>5, <1>7, Outside, Zenon

\* The lock grows old, or loses its process, and keeps its maker.
LEMMA Relabelled ==
    /\ lock \in LockFiles => [lock EXCEPT !.old = TRUE] \in LockFiles
    /\ lock \in LockFiles => [lock EXCEPT !.old = TRUE].by = lock.by
    /\ lock \in LockFiles => [lock EXCEPT !.old = TRUE].names = lock.names
    /\ lock \in LockFiles => [lock EXCEPT !.names = "dead"] \in LockFiles
  BY DEF LockFiles

LEMMA AgePreserves ==
    ASSUME LockInv, Age
    PROVE  LockInv'
  <1>1. lock \in LockFiles /\ lock' = [lock EXCEPT !.old = TRUE]
    BY DEF Age, LockInv, LockTypes
  <1>2. lock' \in LockFiles /\ lock'.by = lock.by /\ lock'.names = lock.names
    BY <1>1, Relabelled
  <1>3. pc' = pc /\ stolen' = stolen
    BY DEF Age, processVars, causes
  <1> QED BY <1>2, <1>3, Zenon DEF LockInv, LockTypes, HolderIsNamed

\* A process that dies inside is no longer inside, and nobody else was.
LEMMA DiePreserves ==
    ASSUME NEW p \in Procs, LockInv, Die(p)
    PROVE  LockInv'
  <1>1. lock \in LockFiles /\ pc \in [Procs -> Phases] /\ stolen \in BOOLEAN
    BY DEF LockInv, LockTypes
  <1>2. stolen' = stolen /\ pc' = [pc EXCEPT ![p] = "idle"]
    BY DEF Die, Ends
  <1>3. pc' \in [Procs -> Phases]
    BY <1>1, <1>2, PhasesOfCommands
  <1>4. CASE lock.by = p /\ lock.names = "living"
    <2>1. lock' \in LockFiles
      BY <1>1, <1>4, Relabelled DEF Die
    <2>2. ~stolen => \A r \in Procs : pc[r] \in Inside => r = p
      BY <1>4 DEF LockInv, HolderIsNamed
    <2>3. ~stolen => \A r \in Procs : pc'[r] \notin Inside
      BY <1>1, <1>2, <2>2, PhasesOfCommands
    <2> QED BY <1>1, <1>2, <1>3, <2>1, <2>3, Outside, Zenon
  <1>5. CASE ~(lock.by = p /\ lock.names = "living")
    <2>1. lock' = lock
      BY <1>5, Zenon DEF Die
    <2>2. \A r \in Procs : pc'[r] \in Inside => pc[r] \in Inside
      BY <1>1, <1>2, PhasesOfCommands
    <2> QED BY <1>2, <1>3, <2>1, <2>2, LockFrame
  <1> QED BY <1>4, <1>5

-----------------------------------------------------------------------------
LEMMA LockInvPreserved == LockInv /\ [Next]_vars => LockInv'
  <1> SUFFICES ASSUME LockInv, [Next]_vars PROVE LockInv'
    OBVIOUS
  <1>1. CASE Expire
    <2>1. pc' = pc /\ lock' = lock /\ stolen' = stolen
      BY <1>1 DEF Expire, causes
    <2> QED BY <2>1, LockFrame DEF LockInv, LockTypes
  <1>2. CASE Age
    BY <1>2, AgePreserves
  <1>3. CASE \E p \in Procs : Process(p)
    BY <1>3, WorkPreserves, AcquirePreserves, DieNamelessPreserves, BreakPreserves,
       LeavePreserves, DiePreserves, Zenon DEF Process
  <1>4. CASE UNCHANGED vars
    <2>1. pc' = pc /\ lock' = lock /\ stolen' = stolen
      BY <1>4 DEF vars, processVars, causes
    <2> QED BY <2>1, LockFrame DEF LockInv, LockTypes
  <1> QED BY <1>1, <1>2, <1>3, <1>4 DEF Next

\* Two processes are inside the lock only after a lock was broken whose holder lived
\* (withSessionLock, staleSessionLock).
THEOREM OneProcessInside == Spec => []LockExclusive
  <1>1. Init => LockInv
    BY LockInvInit
  <1>2. LockInv /\ [Next]_vars => LockInv'
    BY LockInvPreserved
  <1>3. LockInv => LockExclusive
    BY Zenon DEF LockInv, HolderIsNamed, LockExclusive
  <1> QED BY <1>1, <1>2, <1>3, PTL DEF Spec

-----------------------------------------------------------------------------
(* Types, and what the server has issued *)

SessionTypes ==
    /\ current \in [Sessions -> Nat]
    /\ revoked \subseteq Sessions
    /\ store \in Stored
    /\ mem \in [Procs -> Stored]
    /\ command \in [Procs -> Commands \cup {"none"}]

\* A token comes from a rotation, or the sign-in, of a session there is.
Issued(s) ==
    s.session \in Sessions => s.generation \in 1 .. current[s.session]

TokensIssued ==
    /\ Issued(store)
    /\ \A p \in Procs : Issued(mem[p])
    /\ \A s \in revoked : current[s] # 0

\* What is known of None, of a token that expires and of one that is rotated.
LEMMA NoneFacts ==
    /\ None \in Stored
    /\ None.session = 0
    /\ None.fresh = FALSE
    /\ 0 \notin Sessions
  BY LoginsAssumption DEF None, Stored, Sessions

LEMMA ExpiredFacts ==
    ASSUME NEW s \in Stored
    PROVE  /\ [s EXCEPT !.fresh = FALSE] \in Stored
           /\ [s EXCEPT !.fresh = FALSE].session = s.session
           /\ [s EXCEPT !.fresh = FALSE].generation = s.generation
  BY DEF Stored

LEMMA RotatedFacts ==
    ASSUME NEW s \in Stored
    PROVE  /\ Rotated(s) \in Stored
           /\ Rotated(s).session = s.session
           /\ Rotated(s).generation = s.generation + 1
  BY DEF Stored, Rotated

LEMMA SignedInFacts ==
    ASSUME NEW s \in Sessions
    PROVE  LET new == [session |-> s, generation |-> 1, fresh |-> TRUE] IN
           new \in Stored /\ new.session = s /\ new.generation = 1
  BY LoginsAssumption DEF Stored, Sessions

\* The server looks at the session and its generation only.
LEMMA HonouredAlike ==
    ASSUME NEW s, NEW r, s.session = r.session, s.generation = r.generation
    PROVE  Honoured(s) <=> Honoured(r)
  BY DEF Honoured

\* Signed out or never signed in: there is nothing to honour.
LEMMA NoneNotHonoured == ~Honoured(None) /\ Issued(None)
  BY NoneFacts DEF Honoured, Issued

TokenInv == SessionTypes /\ TokensIssued

LEMMA TokenInvInit == Init => TokenInv
  <1> SUFFICES ASSUME Init PROVE TokenInv
    OBVIOUS
  <1>1. SessionTypes
    BY NoneFacts DEF Init, SessionTypes
  <1>2. TokensIssued
    BY NoneNotHonoured DEF Init, TokensIssued
  <1> QED BY <1>1, <1>2 DEF TokenInv

\* What one process does to the tokens: generations grow, the process comes to hold an
\* issued token, and the store holds what it held, what the process held, or nothing.
LEMMA TokenStep ==
    ASSUME TokenInv, NEW p \in Procs, NEW m \in Stored, NEW n \in {store, mem[p], None},
           current' \in [Sessions -> Nat],
           \A s \in Sessions : current[s] <= current'[s],
           m.session \in Sessions => m.generation \in 1 .. current'[m.session],
           revoked' \subseteq Sessions,
           \A s \in revoked' : current'[s] # 0,
           store' = n,
           mem' = [mem EXCEPT ![p] = m],
           command' \in [Procs -> Commands \cup {"none"}]
    PROVE  TokenInv'
  <1>1. SessionTypes'
    <2>1. store \in Stored /\ mem \in [Procs -> Stored]
      BY DEF TokenInv, SessionTypes
    <2>2. n \in Stored /\ [mem EXCEPT ![p] = m] \in [Procs -> Stored]
      BY <2>1, NoneFacts
    <2> QED BY <2>2 DEF SessionTypes
  <1>2. ASSUME NEW t \in Stored, Issued(t), t.session \in Sessions
        PROVE  t.generation \in 1 .. current'[t.session]
    <2>1. t.generation \in 1 .. current[t.session] /\ current[t.session] \in Nat
      BY <1>2 DEF Issued, TokenInv, SessionTypes
    <2>2. current[t.session] <= current'[t.session] /\ current'[t.session] \in Nat
      BY <1>2
    <2> QED BY <2>1, <2>2
  <1>3. Issued(store)'
    <2>1. n \in Stored /\ Issued(n)
      BY NoneFacts, NoneNotHonoured DEF TokenInv, SessionTypes, TokensIssued
    <2> QED BY <1>2, <2>1 DEF Issued
  <1>4. \A q \in Procs : Issued(mem[q])'
    <2> SUFFICES ASSUME NEW q \in Procs PROVE Issued(mem[q])'
      OBVIOUS
    <2>1. CASE q = p
      <3>1. mem'[q] = m
        BY <2>1 DEF TokenInv, SessionTypes
      <3> QED BY <3>1 DEF Issued
    <2>2. CASE q # p
      <3>1. mem'[q] = mem[q] /\ mem[q] \in Stored /\ Issued(mem[q])
        BY <2>2 DEF TokenInv, SessionTypes, TokensIssued
      <3> QED BY <1>2, <3>1 DEF Issued
    <2> QED BY <2>1, <2>2
  <1> QED BY <1>1, <1>3, <1>4 DEF TokenInv, TokensIssued

\* The same when the server is left alone.
LEMMA TokenQuiet ==
    ASSUME TokenInv, NEW p \in Procs, NEW m \in {mem[p], store, None}, NEW n \in {store, mem[p], None},
           serverVars' = serverVars,
           store' = n,
           mem' = [mem EXCEPT ![p] = m],
           command' \in [Procs -> Commands \cup {"none"}]
    PROVE  TokenInv'
  <1>1. current' = current /\ revoked' = revoked
    BY DEF serverVars
  <1>2. /\ current \in [Sessions -> Nat]
        /\ \A s \in Sessions : current[s] <= current[s]
        /\ revoked \subseteq Sessions
        /\ \A s \in revoked : current[s] # 0
    BY DEF TokenInv, SessionTypes, TokensIssued
  <1>3. m \in Stored /\ Issued(m)
    BY NoneFacts, NoneNotHonoured DEF TokenInv, SessionTypes, TokensIssued
  <1>4. m.session \in Sessions => m.generation \in 1 .. current[m.session]
    BY <1>3 DEF Issued
  <1> QED BY <1>1, <1>2, <1>3, <1>4, TokenStep

\* A process that ends, or begins a command, keeps the commands' type.
LEMMA CommandTypes ==
    ASSUME TokenInv, NEW p \in Procs, NEW c \in Commands \cup {"none"}
    PROVE  /\ [command EXCEPT ![p] = c] \in [Procs -> Commands \cup {"none"}]
           /\ [mem EXCEPT ![p] = mem[p]] = mem
  BY DEF TokenInv, SessionTypes

\* The actions that leave the server alone: the process holds what it held, the stored
\* session or none, and the store what it held, what the process held, or none.
LEMMA QuietActions ==
    ASSUME TokenInv, NEW p \in Procs,
           \/ Begin(p) \/ BeginLocked(p) \/ UseWrites(p)
           \/ Acquire(p) \/ DieNameless(p) \/ Judge(p) \/ Break(p) \/ GiveUp(p) \/ Leave(p)
           \/ LoseAnswer(p) \/ Save(p) \/ LookFirst(p) \/ SignInFails(p) \/ RevokeFails(p)
           \/ Delete(p) \/ Die(p)
    PROVE  /\ serverVars' = serverVars
           /\ store' \in {store, mem[p], None}
           /\ \E m \in {mem[p], store, None} : mem' = [mem EXCEPT ![p] = m]
           /\ command' \in [Procs -> Commands \cup {"none"}]
  <1>1. /\ [mem EXCEPT ![p] = mem[p]] = mem
        /\ command \in [Procs -> Commands \cup {"none"}]
        /\ [command EXCEPT ![p] = "none"] \in [Procs -> Commands \cup {"none"}]
        /\ \A c \in Commands : [command EXCEPT ![p] = c] \in [Procs -> Commands \cup {"none"}]
    BY CommandTypes DEF TokenInv, SessionTypes
  <1>2. Ends(p) => /\ mem' = [mem EXCEPT ![p] = None]
                   /\ command' = [command EXCEPT ![p] = "none"]
    BY DEF Ends
  <1>3. CASE Begin(p)
    BY <1>1, <1>3 DEF Begin, Commands
  <1>4. CASE BeginLocked(p)
    BY <1>1, <1>4 DEF BeginLocked, Commands
  <1>5. CASE UseWrites(p)
    BY <1>1, <1>2, <1>5 DEF UseWrites
  <1>6. CASE Acquire(p) \/ Judge(p) \/ Break(p)
    BY <1>1, <1>6 DEF Acquire, Judge, Break
  <1>7. CASE DieNameless(p) \/ GiveUp(p)
    BY <1>1, <1>2, <1>7 DEF DieNameless, GiveUp
  <1>8. CASE Leave(p)
    BY <1>1, <1>2, <1>8 DEF Leave
  <1>9. CASE LoseAnswer(p) \/ Save(p)
    BY <1>1, <1>9 DEF LoseAnswer, Save
  <1>10. CASE LookFirst(p) \/ SignInFails(p) \/ RevokeFails(p) \/ Delete(p)
    BY <1>1, <1>10 DEF LookFirst, SignInFails, RevokeFails, Delete
  <1>11. CASE Die(p)
    BY <1>1, <1>2, <1>11 DEF Die
  <1> QED BY <1>3, <1>4, <1>5, <1>6, <1>7, <1>8, <1>9, <1>10, <1>11

\* A refresh rotates the session it found, or leaves the server alone.
LEMMA RefreshCases ==
    ASSUME TokenInv, NEW p \in Procs, Refresh(p)
    PROVE  \E latest \in {store, mem[p]} :
             \/ /\ latest.session \in Sessions \ revoked
                /\ latest.generation = current[latest.session]
                /\ current' = [current EXCEPT ![latest.session] = @ + 1]
                /\ mem' = [mem EXCEPT ![p] = Rotated(latest)]
                /\ pc' = [pc EXCEPT ![p] = "saving"]
                /\ store = None => latest = mem[p]
                /\ store # None => latest = store
             \/ /\ current' = current
                /\ mem' = [mem EXCEPT ![p] = latest]
                /\ pc' = [pc EXCEPT ![p] = "leaving"]
  <1> DEFINE latest == IF store = None THEN mem[p] ELSE store
  <1>1. latest \in {store, mem[p]} /\ (store = None => latest = mem[p]) /\ (store # None => latest = store)
    OBVIOUS
  <1>2. CASE ~latest.fresh /\ Honoured(latest)
    <2>1. /\ current' = [current EXCEPT ![latest.session] = @ + 1]
          /\ mem' = [mem EXCEPT ![p] = Rotated(latest)]
          /\ pc' = [pc EXCEPT ![p] = "saving"]
      BY <1>2 DEF Refresh, Goes
    <2>2. latest.session \in Sessions \ revoked /\ latest.generation = current[latest.session]
      BY <1>2 DEF Honoured
    <2> HIDE DEF latest
    <2> QED BY <1>1, <2>1, <2>2
  <1>3. CASE ~(~latest.fresh /\ Honoured(latest))
    <2>1. /\ current' = current
          /\ mem' = [mem EXCEPT ![p] = latest]
          /\ pc' = [pc EXCEPT ![p] = "leaving"]
      BY <1>3 DEF Refresh, Goes
    <2> HIDE DEF latest
    <2> QED BY <1>1, <2>1
  <1> QED BY <1>2, <1>3

LEMMA RefreshTokens ==
    ASSUME TokenInv, NEW p \in Procs, Refresh(p)
    PROVE  TokenInv'
  <1>1. revoked' = revoked /\ store' = store /\ command' = command
    BY DEF Refresh
  <1>2. /\ current \in [Sessions -> Nat]
        /\ revoked \subseteq Sessions
        /\ \A s \in revoked : current[s] # 0
        /\ store \in Stored /\ mem[p] \in Stored
        /\ command \in [Procs -> Commands \cup {"none"}]
    BY DEF TokenInv, SessionTypes, TokensIssued
  <1>3. PICK latest \in {store, mem[p]} :
             \/ /\ latest.session \in Sessions \ revoked
                /\ latest.generation = current[latest.session]
                /\ current' = [current EXCEPT ![latest.session] = @ + 1]
                /\ mem' = [mem EXCEPT ![p] = Rotated(latest)]
             \/ /\ current' = current
                /\ mem' = [mem EXCEPT ![p] = latest]
    BY RefreshCases
  <1>4. latest \in Stored
    BY <1>2, <1>3
  <1>5. CASE /\ latest.session \in Sessions \ revoked
             /\ latest.generation = current[latest.session]
             /\ current' = [current EXCEPT ![latest.session] = @ + 1]
             /\ mem' = [mem EXCEPT ![p] = Rotated(latest)]
    <2>1. Rotated(latest) \in Stored /\ Rotated(latest).session = latest.session
          /\ Rotated(latest).generation = latest.generation + 1
      BY <1>4, RotatedFacts
    <2>2. /\ current' \in [Sessions -> Nat]
          /\ current'[latest.session] = current[latest.session] + 1
          /\ \A s \in Sessions : current[s] <= current'[s]
      BY <1>2, <1>5
    <2>3. \A s \in revoked' : current'[s] # 0
      BY <1>1, <1>2, <2>2
    <2>4. Rotated(latest).generation \in 1 .. current'[Rotated(latest).session]
      BY <1>2, <1>5, <2>1, <2>2
    <2> QED BY <1>1, <1>2, <1>5, <2>1, <2>2, <2>3, <2>4, TokenStep
  <1>6. CASE current' = current /\ mem' = [mem EXCEPT ![p] = latest]
    <2>1. serverVars' = serverVars
      BY <1>1, <1>6 DEF serverVars
    <2> QED BY <1>1, <1>2, <1>3, <1>6, <2>1, TokenQuiet
  <1> QED BY <1>3, <1>5, <1>6

LEMMA SignInTokens ==
    ASSUME TokenInv, NEW p \in Procs, SignIn(p)
    PROVE  TokenInv'
  <1>1. PICK s \in Sessions :
            /\ current[s] = 0
            /\ current' = [current EXCEPT ![s] = 1]
            /\ mem' = [mem EXCEPT ![p] = [session |-> s, generation |-> 1, fresh |-> TRUE]]
    BY DEF SignIn
  <1>2. revoked' = revoked /\ store' = store /\ command' = command
    BY DEF SignIn
  <1>3. /\ current \in [Sessions -> Nat]
        /\ revoked \subseteq Sessions
        /\ \A r \in revoked : current[r] # 0
        /\ command \in [Procs -> Commands \cup {"none"}]
    BY DEF TokenInv, SessionTypes, TokensIssued
  <1> DEFINE new == [session |-> s, generation |-> 1, fresh |-> TRUE]
  <1>4. new \in Stored /\ new.session = s /\ new.generation = 1
    BY SignedInFacts
  <1>5. mem' = [mem EXCEPT ![p] = new]
    BY <1>1
  <1> HIDE DEF new
  <1>6. /\ current' \in [Sessions -> Nat]
        /\ current'[s] = 1
        /\ \A r \in Sessions : current[r] <= current'[r]
    BY <1>1, <1>3
  <1>7. \A r \in revoked' : current'[r] # 0
    BY <1>1, <1>2, <1>3
  <1>8. new.generation \in 1 .. current'[new.session]
    BY <1>4, <1>6
  <1> QED BY <1>2, <1>3, <1>4, <1>5, <1>6, <1>7, <1>8, TokenStep

LEMMA RevokeTokens ==
    ASSUME TokenInv, NEW p \in Procs, Revoke(p)
    PROVE  TokenInv'
  <1>1. current' = current /\ store' = store /\ command' = command /\ mem' = mem
    BY DEF Revoke
  <1>2. revoked' \in {revoked, revoked \cup {mem[p].session}}
        /\ (revoked' # revoked => Honoured(mem[p]))
    BY DEF Revoke
  <1>3. /\ current \in [Sessions -> Nat]
        /\ revoked \subseteq Sessions
        /\ \A r \in revoked : current[r] # 0
        /\ mem[p] \in Stored /\ Issued(mem[p])
        /\ command \in [Procs -> Commands \cup {"none"}]
    BY DEF TokenInv, SessionTypes, TokensIssued
  <1>4. mem[p].session \in Sessions => mem[p].generation \in 1 .. current[mem[p].session]
    BY <1>3 DEF Issued
  <1>5. Honoured(mem[p]) => mem[p].session \in Sessions /\ current[mem[p].session] # 0
    BY <1>3, <1>4 DEF Honoured
  <1>6. revoked' \subseteq Sessions /\ \A r \in revoked' : current[r] # 0
    BY <1>2, <1>3, <1>5
  <1>7. mem = [mem EXCEPT ![p] = mem[p]]
    BY DEF TokenInv, SessionTypes
  <1>8. \A s \in Sessions : current[s] <= current[s]
    BY <1>3
  <1> QED BY <1>1, <1>3, <1>4, <1>6, <1>7, <1>8, TokenStep

LEMMA ExpireTokens ==
    ASSUME TokenInv, Expire
    PROVE  TokenInv'
  <1>1. /\ serverVars' = serverVars
        /\ command' = command
        /\ store' = [store EXCEPT !.fresh = FALSE]
        /\ mem' = [p \in Procs |-> [mem[p] EXCEPT !.fresh = FALSE]]
    BY DEF Expire
  <1>2. store \in Stored /\ \A p \in Procs : mem[p] \in Stored
    BY DEF TokenInv, SessionTypes
  <1>3. SessionTypes'
    BY <1>1, <1>2, ExpiredFacts DEF TokenInv, SessionTypes, serverVars
  <1>4. store'.session = store.session /\ store'.generation = store.generation
    BY <1>1, <1>2, ExpiredFacts
  <1>5. \A p \in Procs : mem'[p].session = mem[p].session /\ mem'[p].generation = mem[p].generation
    BY <1>1, <1>2, ExpiredFacts
  <1> QED BY <1>1, <1>3, <1>4, <1>5 DEF TokenInv, TokensIssued, Issued, serverVars

LEMMA TokenInvPreserved == TokenInv /\ [Next]_vars => TokenInv'
  <1> SUFFICES ASSUME TokenInv, [Next]_vars PROVE TokenInv'
    OBVIOUS
  <1>1. CASE Expire
    BY <1>1, ExpireTokens
  <1>2. CASE Age
    BY <1>2 DEF Age, TokenInv, SessionTypes, TokensIssued, Issued, serverVars, processVars
  <1>3. ASSUME NEW p \in Procs, Process(p)
        PROVE  TokenInv'
    <2>1. CASE Refresh(p)
      BY <2>1, RefreshTokens
    <2>2. CASE SignIn(p)
      BY <2>2, SignInTokens
    <2>3. CASE Revoke(p)
      BY <2>3, RevokeTokens
    <2>4. CASE ~(Refresh(p) \/ SignIn(p) \/ Revoke(p))
      BY <1>3, <2>4, QuietActions, TokenQuiet DEF Process
    <2> QED BY <2>1, <2>2, <2>3, <2>4
  <1>4. CASE UNCHANGED vars
    BY <1>4 DEF vars, TokenInv, SessionTypes, TokensIssued, Issued, serverVars, processVars
  <1> QED BY <1>1, <1>2, <1>3, <1>4 DEF Next

-----------------------------------------------------------------------------
(* The stored refresh token is honoured *)

\* What a process is about to save the server honours.
SaverIsHonoured == \A p \in Procs : pc[p] = "saving" => Honoured(mem[p])

StoreIsHonoured ==
    \/ store = None
    \/ Honoured(store)
    \/ \E p \in Procs : pc[p] \in {"saving", "deleting"}

Honest == ~lost /\ ~overwrote /\ ~stolen

Kept == Honest => SaverIsHonoured /\ StoreIsHonoured

\* The rest of an action with the lock held: nobody else is in the lock.
LEMMA Alone ==
    ASSUME LockInv, ~stolen, NEW p \in Procs, pc[p] \in Inside
    PROVE  \A q \in Procs : pc[q] \in Inside => q = p
  BY DEF LockInv, HolderIsNamed

\* A step of a process that neither saves nor deletes, and leaves the server and the
\* store alone.
LEMMA KeptQuiet ==
    ASSUME LockInv, TokenInv, SaverIsHonoured, StoreIsHonoured,
           NEW p \in Procs, NEW to, NEW m,
           pc[p] \notin {"saving", "deleting"}, to # "saving",
           pc' = [pc EXCEPT ![p] = to], mem' = [mem EXCEPT ![p] = m],
           store' = store, serverVars' = serverVars
    PROVE  SaverIsHonoured' /\ StoreIsHonoured'
  <1>1. current' = current /\ revoked' = revoked
    BY DEF serverVars
  <1>2. pc \in [Procs -> Phases] /\ mem \in [Procs -> Stored]
    BY DEF LockInv, LockTypes, TokenInv, SessionTypes
  <1>3. SaverIsHonoured'
    <2> SUFFICES ASSUME NEW q \in Procs, pc'[q] = "saving"
                 PROVE  Honoured(mem[q])'
      BY DEF SaverIsHonoured
    <2>1. pc[q] = "saving" /\ mem'[q] = mem[q]
      BY <1>2
    <2> QED BY <1>1, <2>1 DEF SaverIsHonoured, Honoured
  <1>4. StoreIsHonoured'
    <2>1. CASE store = None \/ Honoured(store)
      BY <1>1, <2>1 DEF StoreIsHonoured, Honoured
    <2>2. CASE \E q \in Procs : pc[q] \in {"saving", "deleting"}
      <3>1. PICK q \in Procs : pc[q] \in {"saving", "deleting"}
        BY <2>2
      <3>2. pc'[q] = pc[q]
        BY <1>2, <3>1
      <3> QED BY <3>1, <3>2 DEF StoreIsHonoured
    <2> QED BY <2>1, <2>2 DEF StoreIsHonoured
  <1> QED BY <1>3, <1>4

\* One process comes to hold, inside the lock, a token that it will save.
LEMMA KeptSaving ==
    ASSUME LockInv, TokenInv, ~stolen, NEW p \in Procs, NEW m,
           pc[p] \in Inside,
           pc' = [pc EXCEPT ![p] = "saving"], mem' = [mem EXCEPT ![p] = m],
           m.session \in Sessions \ revoked', m.generation = current'[m.session]
    PROVE  SaverIsHonoured' /\ StoreIsHonoured'
  <1>1. pc \in [Procs -> Phases] /\ mem \in [Procs -> Stored]
    BY DEF LockInv, LockTypes, TokenInv, SessionTypes
  <1>2. pc'[p] = "saving" /\ mem'[p] = m
    BY <1>1
  <1>3. \A q \in Procs : pc'[q] = "saving" => q = p
    BY <1>1, Alone, PhasesOfCommands
  <1>4. SaverIsHonoured'
    BY <1>2, <1>3 DEF SaverIsHonoured, Honoured
  <1>5. StoreIsHonoured'
    BY <1>2 DEF StoreIsHonoured
  <1> QED BY <1>4, <1>5

LEMMA FlagsStay ==
    ASSUME NEW p \in Procs, Process(p), Honest'
    PROVE  Honest
  <1>1. CASE Begin(p) \/ BeginLocked(p) \/ Acquire(p) \/ DieNameless(p) \/ Judge(p) \/ GiveUp(p)
             \/ Leave(p) \/ Refresh(p) \/ LookFirst(p) \/ SignIn(p) \/ SignInFails(p)
    <2>1. causes' = causes
      BY <1>1, Zenon DEF Begin, BeginLocked, Acquire, DieNameless, Judge, GiveUp, Leave, Refresh,
                         LookFirst, SignIn, SignInFails
    <2>2. lost' = lost /\ overwrote' = overwrote /\ stolen' = stolen
      BY <2>1 DEF causes
    <2> QED BY <2>2, Zenon DEF Honest
  <1>2. CASE UseWrites(p)
    BY <1>2, Zenon DEF UseWrites, Honest
  <1>3. CASE Break(p)
    BY <1>3, Zenon DEF Break, Honest
  <1>4. CASE LoseAnswer(p)
    BY <1>4, Zenon DEF LoseAnswer, Honest
  <1>5. CASE Save(p) \/ Revoke(p) \/ RevokeFails(p) \/ Delete(p)
    <2>1. lost' = lost /\ overwrote' = overwrote /\ stolen' = stolen
      BY <1>5 DEF Save, Revoke, RevokeFails, Delete
    <2> QED BY <2>1, Zenon DEF Honest
  <1>6. CASE Die(p)
    BY <1>6, Zenon DEF Die, Honest
  <1> QED BY <1>1, <1>2, <1>3, <1>4, <1>5, <1>6, Zenon DEF Process

\* Where the quiet actions lead.
LEMMA QuietMoves ==
    ASSUME NEW p \in Procs, Honest', ~Save(p), ~Delete(p),
           \/ Begin(p) \/ BeginLocked(p) \/ UseWrites(p)
           \/ Acquire(p) \/ DieNameless(p) \/ Judge(p) \/ Break(p) \/ GiveUp(p) \/ Leave(p)
           \/ LoseAnswer(p) \/ LookFirst(p) \/ SignInFails(p) \/ RevokeFails(p) \/ Die(p)
    PROVE  /\ pc[p] \notin {"saving", "deleting"}
           /\ store' = store
           /\ \E to : to # "saving" /\ pc' = [pc EXCEPT ![p] = to]
  <1>1. CASE Begin(p)
    BY <1>1 DEF Begin, Goes
  <1>2. CASE BeginLocked(p)
    BY <1>2 DEF BeginLocked, Goes
  <1>3. CASE UseWrites(p)
    <2>1. store = mem[p]
      BY <1>3, Zenon DEF UseWrites, Honest
    <2>2. store' = mem[p] /\ pc[p] = "using" /\ pc' = [pc EXCEPT ![p] = "idle"]
      BY <1>3 DEF UseWrites, Ends
    <2> QED BY <2>1, <2>2
  <1>4. CASE Acquire(p) \/ Judge(p) \/ Break(p)
    BY <1>4 DEF Acquire, Judge, Break, Goes
  <1>5. CASE DieNameless(p) \/ GiveUp(p)
    BY <1>5 DEF DieNameless, GiveUp, Ends
  <1>6. CASE Leave(p)
    BY <1>6 DEF Leave, Goes, Ends
  <1>7. CASE LoseAnswer(p)
    BY <1>7, Zenon DEF LoseAnswer, Honest
  <1>8. CASE LookFirst(p)
    <2>1. pc[p] = "inside" /\ store' = store
      BY <1>8 DEF LookFirst
    <2>2. \E to \in {"polling", "revoking", "leaving"} : pc' = [pc EXCEPT ![p] = to]
      BY <1>8 DEF LookFirst, Goes
    <2> QED BY <2>1, <2>2
  <1>9. CASE SignInFails(p) \/ RevokeFails(p)
    BY <1>9 DEF SignInFails, RevokeFails, Goes
  <1>10. CASE Die(p)
    <2>1. pc[p] \notin {"saving", "deleting"}
      BY <1>10, Zenon DEF Die, Honest
    <2>2. store' = store /\ pc' = [pc EXCEPT ![p] = "idle"]
      BY <1>10 DEF Die, Ends
    <2> QED BY <2>1, <2>2
  <1> QED BY <1>1, <1>2, <1>3, <1>4, <1>5, <1>6, <1>7, <1>8, <1>9, <1>10

LEMMA KeptRefresh ==
    ASSUME LockInv, TokenInv, Honest, SaverIsHonoured, StoreIsHonoured,
           NEW p \in Procs, Refresh(p)
    PROVE  SaverIsHonoured' /\ StoreIsHonoured'
  <1>1. revoked' = revoked /\ store' = store /\ pc[p] = "inside" /\ ~stolen
    BY Zenon DEF Refresh, Honest
  <1>2. PICK latest \in {store, mem[p]} :
             \/ /\ latest.session \in Sessions \ revoked
                /\ latest.generation = current[latest.session]
                /\ current' = [current EXCEPT ![latest.session] = @ + 1]
                /\ mem' = [mem EXCEPT ![p] = Rotated(latest)]
                /\ pc' = [pc EXCEPT ![p] = "saving"]
             \/ /\ current' = current
                /\ mem' = [mem EXCEPT ![p] = latest]
                /\ pc' = [pc EXCEPT ![p] = "leaving"]
    BY RefreshCases
  <1>3. latest \in Stored /\ current \in [Sessions -> Nat]
    BY <1>2 DEF TokenInv, SessionTypes
  <1>4. CASE /\ latest.session \in Sessions \ revoked
             /\ latest.generation = current[latest.session]
             /\ current' = [current EXCEPT ![latest.session] = @ + 1]
             /\ mem' = [mem EXCEPT ![p] = Rotated(latest)]
             /\ pc' = [pc EXCEPT ![p] = "saving"]
    <2>1. Rotated(latest).session = latest.session
          /\ Rotated(latest).generation = latest.generation + 1
      BY <1>3, RotatedFacts
    <2>2. Rotated(latest).session \in Sessions \ revoked'
          /\ Rotated(latest).generation = current'[Rotated(latest).session]
      BY <1>1, <1>3, <1>4, <2>1
    <2> QED BY <1>1, <1>4, <2>2, KeptSaving, PhasesOfCommands
  <1>5. CASE /\ current' = current
             /\ mem' = [mem EXCEPT ![p] = latest]
             /\ pc' = [pc EXCEPT ![p] = "leaving"]
    <2>1. serverVars' = serverVars
      BY <1>1, <1>5 DEF serverVars
    <2> QED BY <1>1, <1>5, <2>1, KeptQuiet
  <1> QED BY <1>2, <1>4, <1>5

\* The session of a sign-in is new, so nobody has revoked it.
LEMMA KeptSignIn ==
    ASSUME LockInv, TokenInv, Honest, NEW p \in Procs, SignIn(p)
    PROVE  SaverIsHonoured' /\ StoreIsHonoured'
  <1>1. PICK s \in Sessions :
            /\ current[s] = 0
            /\ current' = [current EXCEPT ![s] = 1]
            /\ mem' = [mem EXCEPT ![p] = [session |-> s, generation |-> 1, fresh |-> TRUE]]
    BY DEF SignIn
  <1>2. revoked' = revoked /\ pc[p] = "polling" /\ pc' = [pc EXCEPT ![p] = "saving"]
    BY DEF SignIn, Goes
  <1>3. s \notin revoked /\ current \in [Sessions -> Nat]
    BY <1>1 DEF TokenInv, SessionTypes, TokensIssued
  <1>4. ~stolen
    BY Zenon DEF Honest
  <1> DEFINE new == [session |-> s, generation |-> 1, fresh |-> TRUE]
  <1>5. new.session = s /\ new.generation = 1 /\ mem' = [mem EXCEPT ![p] = new]
    BY <1>1
  <1> HIDE DEF new
  <1>6. new.session \in Sessions \ revoked' /\ new.generation = current'[new.session]
    BY <1>1, <1>2, <1>3, <1>5
  <1> QED BY <1>2, <1>4, <1>5, <1>6, KeptSaving, PhasesOfCommands

\* What is saved is honoured, and what is deleted leaves nothing to honour.
LEMMA KeptStored ==
    ASSUME LockInv, TokenInv, SaverIsHonoured, NEW p \in Procs, Save(p) \/ Delete(p)
    PROVE  SaverIsHonoured' /\ StoreIsHonoured'
  <1>1. /\ current' = current /\ revoked' = revoked /\ mem' = mem
        /\ pc' = [pc EXCEPT ![p] = "leaving"]
    BY DEF Save, Delete, serverVars, Goes
  <1>2. pc \in [Procs -> Phases]
    BY DEF LockInv, LockTypes
  <1>3. SaverIsHonoured'
    BY <1>1, <1>2 DEF SaverIsHonoured, Honoured
  <1>4. CASE Save(p)
    <2>1. store' = mem[p] /\ Honoured(mem[p])
      BY <1>4 DEF Save, SaverIsHonoured
    <2> QED BY <1>1, <1>3, <2>1 DEF StoreIsHonoured, Honoured
  <1>5. CASE Delete(p)
    BY <1>3, <1>5 DEF Delete, StoreIsHonoured
  <1> QED BY <1>4, <1>5

\* While a logout revokes, nobody saves; it goes on to delete.
LEMMA KeptRevoke ==
    ASSUME LockInv, Honest, NEW p \in Procs, Revoke(p)
    PROVE  SaverIsHonoured' /\ StoreIsHonoured'
  <1>1. pc[p] = "revoking" /\ pc' = [pc EXCEPT ![p] = "deleting"]
    BY DEF Revoke, Goes
  <1>2. pc \in [Procs -> Phases] /\ ~stolen
    BY Zenon DEF LockInv, LockTypes, Honest
  <1>3. \A q \in Procs : pc'[q] # "saving"
    BY <1>1, <1>2, Alone, PhasesOfCommands
  <1>4. pc'[p] = "deleting"
    BY <1>1, <1>2
  <1> QED BY <1>3, <1>4 DEF SaverIsHonoured, StoreIsHonoured

\* The server honours an expired session as before.
LEMMA KeptExpire ==
    ASSUME TokenInv, SaverIsHonoured, StoreIsHonoured, Expire
    PROVE  SaverIsHonoured' /\ StoreIsHonoured'
  <1>1. /\ current' = current /\ revoked' = revoked /\ pc' = pc
        /\ store.fresh
        /\ store' = [store EXCEPT !.fresh = FALSE]
        /\ mem' = [p \in Procs |-> [mem[p] EXCEPT !.fresh = FALSE]]
    BY Zenon DEF Expire, serverVars
  <1>2. store \in Stored /\ mem \in [Procs -> Stored]
    BY DEF TokenInv, SessionTypes
  <1>3. store'.session = store.session /\ store'.generation = store.generation
    BY <1>1, <1>2, ExpiredFacts
  <1>4. \A p \in Procs : mem'[p].session = mem[p].session /\ mem'[p].generation = mem[p].generation
    BY <1>1, <1>2, ExpiredFacts
  <1>5. SaverIsHonoured'
    BY <1>1, <1>4 DEF SaverIsHonoured, Honoured
  <1>6. store # None
    BY <1>1, NoneFacts
  <1>7. StoreIsHonoured'
    BY <1>1, <1>3, <1>6 DEF StoreIsHonoured, Honoured
  <1> QED BY <1>5, <1>7

LEMMA KeptPreserved == LockInv /\ TokenInv /\ Kept /\ [Next]_vars => Kept'
  <1> SUFFICES ASSUME LockInv, TokenInv, Kept, [Next]_vars, Honest'
               PROVE  SaverIsHonoured' /\ StoreIsHonoured'
    BY Zenon DEF Kept
  <1>1. CASE Expire
    <2>1. Honest
      <3>1. lost' = lost /\ overwrote' = overwrote /\ stolen' = stolen
        BY <1>1 DEF Expire, causes
      <3> QED BY <3>1, Zenon DEF Honest
    <2> QED BY <1>1, <2>1, KeptExpire, Zenon DEF Kept
  <1>2. CASE Age \/ UNCHANGED vars
    <2>1. /\ lost' = lost /\ overwrote' = overwrote /\ stolen' = stolen
          /\ current' = current /\ revoked' = revoked /\ pc' = pc /\ store' = store /\ mem' = mem
      BY <1>2 DEF Age, vars, causes, serverVars, processVars
    <2>2. Honest
      BY <2>1, Zenon DEF Honest
    <2>3. SaverIsHonoured /\ StoreIsHonoured
      BY <2>2, Zenon DEF Kept
    <2> QED BY <2>1, <2>3 DEF SaverIsHonoured, StoreIsHonoured, Honoured
  <1>3. ASSUME NEW p \in Procs, Process(p)
        PROVE  SaverIsHonoured' /\ StoreIsHonoured'
    <2>1. Honest
      BY <1>3, FlagsStay
    <2>2. SaverIsHonoured /\ StoreIsHonoured
      BY <2>1, Zenon DEF Kept
    <2>3. CASE Refresh(p)
      BY <2>1, <2>2, <2>3, KeptRefresh
    <2>4. CASE SignIn(p)
      BY <2>1, <2>4, KeptSignIn
    <2>5. CASE Save(p) \/ Delete(p)
      BY <2>2, <2>5, KeptStored
    <2>6. CASE Revoke(p)
      BY <2>1, <2>6, KeptRevoke
    <2>7. CASE ~(Refresh(p) \/ SignIn(p) \/ Save(p) \/ Delete(p) \/ Revoke(p))
      <3>1. /\ serverVars' = serverVars
            /\ \E m \in {mem[p], store, None} : mem' = [mem EXCEPT ![p] = m]
        BY <1>3, <2>7, QuietActions, Zenon DEF Process
      <3>2. /\ pc[p] \notin {"saving", "deleting"}
            /\ store' = store
            /\ \E to : to # "saving" /\ pc' = [pc EXCEPT ![p] = to]
        BY <1>3, <2>7, QuietMoves, Zenon DEF Process
      <3> QED BY <2>2, <3>1, <3>2, KeptQuiet
    <2> QED BY <2>3, <2>4, <2>5, <2>6, <2>7
  <1> QED BY <1>1, <1>2, <1>3 DEF Next

\* The stored refresh token is one the server honours, unless the answer to a rotation
\* was lost, `use` wrote back a session that had been replaced, or the lock was stolen
\* (ensureAccess, useContext, withSessionLock).
THEOREM TheStoredTokenIsHonoured == Spec => []StoredTokenIsHonoured
  <1>1. Init => LockInv /\ TokenInv /\ Kept
    <2>1. Init => SaverIsHonoured /\ StoreIsHonoured
      BY DEF Init, SaverIsHonoured, StoreIsHonoured
    <2> QED BY <2>1, LockInvInit, TokenInvInit, Zenon DEF Kept
  <1>2. (LockInv /\ TokenInv /\ Kept) /\ [Next]_vars => (LockInv /\ TokenInv /\ Kept)'
    BY LockInvPreserved, TokenInvPreserved, KeptPreserved
  <1>3. LockInv /\ TokenInv /\ Kept => StoredTokenIsHonoured
    BY Zenon DEF Kept, Honest, StoreIsHonoured, StoredTokenIsHonoured
  <1> QED BY <1>1, <1>2, <1>3, PTL DEF Spec

-----------------------------------------------------------------------------
(* What logout removed stays removed *)

\* A process holds the stored session, a revoked one, or one that it is about to save.
Held(p) ==
    \/ mem[p].session \notin Sessions \ revoked
    \/ mem[p].session = store.session
    \/ pc[p] = "saving"

\* What holds at each point inside the lock.
AtWork(p) ==
    /\ pc[p] = "polling" => command[p] = "login" /\ store = None
    /\ pc[p] = "saving" => mem[p].session \in Sessions \ revoked
    /\ pc[p] = "saving" /\ command[p] = "login" => store = None
    /\ pc[p] = "saving" /\ command[p] # "login" => mem[p].session = store.session
    /\ pc[p] = "revoking" => mem[p].session = store.session
    /\ pc[p] = "deleting" => store.session \notin Sessions \ revoked

AllAtWork == \A p \in Procs : Held(p) /\ AtWork(p)

SignedOutIsGone == signedOut => store = None

Frank == ~overwrote /\ ~stillValid /\ ~stolen

Removed == Frank => AllAtWork /\ SignedOutIsGone

LEMMA FrankStays ==
    ASSUME NEW p \in Procs, Process(p), Frank'
    PROVE  Frank
  <1>1. CASE Begin(p) \/ BeginLocked(p) \/ Acquire(p) \/ DieNameless(p) \/ Judge(p) \/ GiveUp(p)
             \/ Leave(p) \/ Refresh(p) \/ LookFirst(p) \/ SignIn(p) \/ SignInFails(p)
    <2>1. causes' = causes
      BY <1>1, Zenon DEF Begin, BeginLocked, Acquire, DieNameless, Judge, GiveUp, Leave, Refresh,
                         LookFirst, SignIn, SignInFails
    <2>2. overwrote' = overwrote /\ stillValid' = stillValid /\ stolen' = stolen
      BY <2>1 DEF causes
    <2> QED BY <2>2, Zenon DEF Frank
  <1>2. CASE UseWrites(p)
    BY <1>2, Zenon DEF UseWrites, Frank
  <1>3. CASE Break(p)
    BY <1>3, Zenon DEF Break, Frank
  <1>4. CASE LoseAnswer(p) \/ Save(p) \/ Delete(p) \/ Die(p)
    <2>1. overwrote' = overwrote /\ stillValid' = stillValid /\ stolen' = stolen
      BY <1>4 DEF LoseAnswer, Save, Delete, Die
    <2> QED BY <2>1, Zenon DEF Frank
  <1>5. CASE Revoke(p)
    <2>1. overwrote' = overwrote /\ stolen' = stolen
      BY <1>5 DEF Revoke
    <2>2. stillValid => stillValid'
      BY <1>5, Zenon DEF Revoke
    <2> QED BY <2>1, <2>2, Zenon DEF Frank
  <1>6. CASE RevokeFails(p)
    BY <1>6, Zenon DEF RevokeFails, Frank
  <1> QED BY <1>1, <1>2, <1>3, <1>4, <1>5, <1>6, Zenon DEF Process

\* A step of a process is its own.
LEMMA OneMoves ==
    ASSUME LockInv, TokenInv, NEW p \in Procs, Process(p)
    PROVE  \A q \in Procs \ {p} :
               pc'[q] = pc[q] /\ mem'[q] = mem[q] /\ command'[q] = command[q]
  <1>1. pc \in [Procs -> Phases] /\ mem \in [Procs -> Stored]
        /\ command \in [Procs -> Commands \cup {"none"}]
    BY DEF LockInv, LockTypes, TokenInv, SessionTypes
  <1>2. ASSUME Ends(p)
        PROVE  \A q \in Procs \ {p} :
                   pc'[q] = pc[q] /\ mem'[q] = mem[q] /\ command'[q] = command[q]
    BY <1>1, <1>2 DEF Ends
  <1>3. CASE Begin(p)
    BY <1>1, <1>3 DEF Begin, Goes
  <1>4. CASE BeginLocked(p)
    BY <1>1, <1>4 DEF BeginLocked, Goes
  <1>5. CASE UseWrites(p) \/ DieNameless(p) \/ GiveUp(p) \/ Die(p)
    BY <1>2, <1>5 DEF UseWrites, DieNameless, GiveUp, Die
  <1>6. CASE Acquire(p) \/ Judge(p) \/ Break(p)
    BY <1>1, <1>6 DEF Acquire, Judge, Break, Goes
  <1>7. CASE Leave(p)
    BY <1>1, <1>2, <1>7 DEF Leave, Goes
  <1>8. CASE Refresh(p)
    BY <1>1, <1>8 DEF Refresh, Goes
  <1>9. CASE LoseAnswer(p) \/ Save(p) \/ Delete(p)
    BY <1>1, <1>9 DEF LoseAnswer, Save, Delete, Goes
  <1>10. CASE LookFirst(p)
    BY <1>1, <1>10 DEF LookFirst, Goes
  <1>11. CASE SignIn(p)
    BY <1>1, <1>11 DEF SignIn, Goes
  <1>12. CASE SignInFails(p) \/ Revoke(p) \/ RevokeFails(p)
    BY <1>1, <1>12 DEF SignInFails, Revoke, RevokeFails, Goes
  <1> QED BY <1>3, <1>4, <1>5, <1>6, <1>7, <1>8, <1>9, <1>10, <1>11, <1>12 DEF Process

\* As long as the store and the revocations stay, so does what is said of the others.
LEMMA OthersStay ==
    ASSUME LockInv, TokenInv, AllAtWork, NEW p \in Procs, Process(p),
           store' = store, revoked' = revoked
    PROVE  \A q \in Procs \ {p} : Held(q)' /\ AtWork(q)'
  <1> SUFFICES ASSUME NEW q \in Procs \ {p} PROVE Held(q)' /\ AtWork(q)'
    OBVIOUS
  <1>1. pc'[q] = pc[q] /\ mem'[q] = mem[q] /\ command'[q] = command[q]
    BY OneMoves
  <1> QED BY <1>1 DEF AllAtWork, Held, AtWork

\* The steps to and from the lock, and the endings, leave the process with the session it
\* held, the stored one or none.
LEMMA Bystanders ==
    ASSUME LockInv, TokenInv, Frank', NEW p \in Procs,
           \/ Begin(p) \/ BeginLocked(p) \/ UseWrites(p)
           \/ Acquire(p) \/ DieNameless(p) \/ Judge(p) \/ Break(p) \/ GiveUp(p) \/ Leave(p)
           \/ LoseAnswer(p) \/ SignInFails(p) \/ Die(p)
    PROVE  /\ store' = store
           /\ signedOut' = signedOut
           /\ pc'[p] \in {"idle", "using", "waiting", "judged", "inside", "leaving"}
           /\ mem'[p] = None \/ (pc[p] # "saving" /\ mem'[p] \in {mem[p], store})
  <1>1. pc \in [Procs -> Phases] /\ mem \in [Procs -> Stored]
    BY DEF LockInv, LockTypes, TokenInv, SessionTypes
  <1>2. Ends(p) => pc'[p] = "idle" /\ mem'[p] = None
    BY <1>1 DEF Ends
  <1>3. CASE Begin(p)
    BY <1>1, <1>3 DEF Begin, Goes, causes
  <1>4. CASE BeginLocked(p)
    BY <1>1, <1>4 DEF BeginLocked, Goes, causes
  <1>5. CASE UseWrites(p)
    <2>1. store = mem[p]
      BY <1>5, Zenon DEF UseWrites, Frank
    <2>2. store' = mem[p] /\ signedOut' = signedOut /\ Ends(p)
      BY <1>5 DEF UseWrites
    <2> QED BY <1>2, <2>1, <2>2
  <1>6. CASE Acquire(p) \/ Judge(p) \/ Break(p)
    BY <1>1, <1>6 DEF Acquire, Judge, Break, Goes, causes
  <1>7. CASE DieNameless(p) \/ GiveUp(p)
    BY <1>2, <1>7 DEF DieNameless, GiveUp, causes
  <1>8. CASE Leave(p)
    BY <1>1, <1>2, <1>8 DEF Leave, Goes, causes
  <1>9. CASE LoseAnswer(p)
    BY <1>1, <1>9 DEF LoseAnswer, Goes
  <1>10. CASE SignInFails(p)
    BY <1>1, <1>10 DEF SignInFails, Goes, causes
  <1>11. CASE Die(p)
    BY <1>2, <1>11 DEF Die
  <1> QED BY <1>3, <1>4, <1>5, <1>6, <1>7, <1>8, <1>9, <1>10, <1>11

\* What is left to show of a step that leaves the store and the revocations alone.
LEMMA OwnStep ==
    ASSUME LockInv, TokenInv, AllAtWork, SignedOutIsGone, NEW p \in Procs, Process(p),
           store' = store, revoked' = revoked, signedOut' = signedOut,
           Held(p)', AtWork(p)'
    PROVE  AllAtWork' /\ SignedOutIsGone'
  <1>1. \A q \in Procs \ {p} : Held(q)' /\ AtWork(q)'
    BY OthersStay
  <1>2. AllAtWork'
    BY <1>1 DEF AllAtWork
  <1>3. SignedOutIsGone'
    BY Zenon DEF SignedOutIsGone
  <1> QED BY <1>2, <1>3

LEMMA RemovedBystanders ==
    ASSUME LockInv, TokenInv, Frank', AllAtWork, SignedOutIsGone, NEW p \in Procs,
           \/ Begin(p) \/ BeginLocked(p) \/ UseWrites(p)
           \/ Acquire(p) \/ DieNameless(p) \/ Judge(p) \/ Break(p) \/ GiveUp(p) \/ Leave(p)
           \/ LoseAnswer(p) \/ SignInFails(p) \/ Die(p)
    PROVE  AllAtWork' /\ SignedOutIsGone'
  <1>1. /\ store' = store
        /\ signedOut' = signedOut
        /\ pc'[p] \in {"idle", "using", "waiting", "judged", "inside", "leaving"}
        /\ mem'[p] = None \/ (pc[p] # "saving" /\ mem'[p] \in {mem[p], store})
    BY Bystanders
  <1>2. Process(p)
    BY Zenon DEF Process
  <1>3. revoked' = revoked
    BY QuietActions, Zenon DEF serverVars
  <1>4. Held(p)'
    BY <1>1, <1>3, NoneFacts DEF AllAtWork, Held
  <1>5. AtWork(p)'
    BY <1>1 DEF AtWork
  <1> QED BY <1>1, <1>2, <1>3, <1>4, <1>5, OwnStep

\* A session that logout removed is revoked, so no process refreshes it any more.
LEMMA RemovedRefresh ==
    ASSUME LockInv, TokenInv, AllAtWork, SignedOutIsGone, NEW p \in Procs, Refresh(p)
    PROVE  AllAtWork' /\ SignedOutIsGone'
  <1>1. /\ revoked' = revoked /\ store' = store /\ command' = command /\ signedOut' = signedOut
        /\ pc[p] = "inside" /\ command[p] # "login"
    BY DEF Refresh, causes
  <1>2. PICK latest \in {store, mem[p]} :
             \/ /\ latest.session \in Sessions \ revoked
                /\ mem' = [mem EXCEPT ![p] = Rotated(latest)]
                /\ pc' = [pc EXCEPT ![p] = "saving"]
             \/ /\ mem' = [mem EXCEPT ![p] = latest]
                /\ pc' = [pc EXCEPT ![p] = "leaving"]
    BY RefreshCases
  <1>3. /\ latest \in Stored
        /\ pc \in [Procs -> Phases] /\ mem \in [Procs -> Stored]
    BY <1>2 DEF LockInv, LockTypes, TokenInv, SessionTypes
  <1>4. latest.session \notin Sessions \ revoked \/ latest.session = store.session
    BY <1>1, <1>2 DEF AllAtWork, Held
  <1>5. Rotated(latest).session = latest.session
    BY <1>3, RotatedFacts
  <1>6. \/ /\ latest.session \in Sessions \ revoked
           /\ mem'[p].session = latest.session
           /\ pc'[p] = "saving"
        \/ /\ mem'[p].session = latest.session
           /\ pc'[p] = "leaving"
    BY <1>2, <1>3, <1>5
  <1>7. Held(p)' /\ AtWork(p)'
    BY <1>1, <1>4, <1>6 DEF Held, AtWork
  <1>8. Process(p)
    BY Zenon DEF Process
  <1> QED BY <1>1, <1>7, <1>8, OwnStep

\* A login polls only while nothing is stored, and its session is a new one.
LEMMA RemovedSignIn ==
    ASSUME LockInv, TokenInv, AllAtWork, SignedOutIsGone, NEW p \in Procs, SignIn(p)
    PROVE  AllAtWork' /\ SignedOutIsGone'
  <1>1. /\ revoked' = revoked /\ store' = store /\ command' = command /\ signedOut' = signedOut
        /\ pc[p] = "polling"
        /\ pc' = [pc EXCEPT ![p] = "saving"]
    BY DEF SignIn, causes, Goes
  <1>2. PICK s \in Sessions :
            /\ current[s] = 0
            /\ mem' = [mem EXCEPT ![p] = [session |-> s, generation |-> 1, fresh |-> TRUE]]
    BY DEF SignIn
  <1>3. s \notin revoked
    BY <1>2 DEF TokenInv, TokensIssued
  <1>4. pc'[p] = "saving" /\ mem'[p].session = s
    BY <1>1, <1>2 DEF LockInv, LockTypes, TokenInv, SessionTypes
  <1>5. command[p] = "login" /\ store = None
    BY <1>1 DEF AllAtWork, AtWork
  <1>6. Held(p)' /\ AtWork(p)'
    BY <1>1, <1>3, <1>4, <1>5 DEF Held, AtWork
  <1>7. Process(p)
    BY Zenon DEF Process
  <1> QED BY <1>1, <1>6, <1>7, OwnStep

LEMMA RemovedLookFirst ==
    ASSUME LockInv, TokenInv, AllAtWork, SignedOutIsGone, NEW p \in Procs, LookFirst(p)
    PROVE  AllAtWork' /\ SignedOutIsGone'
  <1>1. /\ revoked' = revoked /\ store' = store /\ command' = command /\ signedOut' = signedOut
        /\ command[p] \in {"login", "logout"}
        /\ mem' = [mem EXCEPT ![p] = store]
    BY DEF LookFirst, causes, serverVars
  <1>2. /\ pc'[p] \in {"polling", "revoking", "leaving"}
        /\ pc'[p] = "polling" => store = None /\ command[p] = "login"
    <2>1. pc \in [Procs -> Phases]
      BY DEF LockInv, LockTypes
    <2>2. CASE store = None /\ command[p] = "login"
      BY <2>1, <2>2 DEF LookFirst, Goes
    <2>3. CASE store = None /\ command[p] # "login"
      BY <2>1, <2>3 DEF LookFirst, Goes
    <2>4. CASE store # None
      BY <2>1, <2>4 DEF LookFirst, Goes
    <2> QED BY <2>2, <2>3, <2>4
  <1>3. mem'[p] = store
    BY <1>1 DEF TokenInv, SessionTypes
  <1>4. Held(p)' /\ AtWork(p)'
    BY <1>1, <1>2, <1>3 DEF Held, AtWork
  <1>5. Process(p)
    BY Zenon DEF Process
  <1> QED BY <1>1, <1>4, <1>5, OwnStep

\* The session is revoked before it is deleted, or it counts as still valid.
LEMMA RemovedRevoke ==
    ASSUME LockInv, TokenInv, Frank, Frank', AllAtWork, SignedOutIsGone, NEW p \in Procs, Revoke(p)
    PROVE  AllAtWork' /\ SignedOutIsGone'
  <1>1. /\ store' = store /\ mem' = mem /\ command' = command /\ signedOut' = signedOut
        /\ pc[p] = "revoking" /\ pc' = [pc EXCEPT ![p] = "deleting"]
        /\ pc \in [Procs -> Phases]
    BY DEF Revoke, Goes, LockInv, LockTypes
  <1>2. revoked \subseteq revoked'
    BY DEF Revoke
  <1>3. mem[p].session \notin Sessions \ revoked'
    <2>1. CASE Honoured(mem[p])
      BY <2>1 DEF Revoke
    <2>2. CASE ~Honoured(mem[p])
      <3>1. mem[p].session \in revoked
        <4>1. ~stillValid'
          BY Zenon DEF Frank
        <4> QED BY <2>2, <4>1, Zenon DEF Revoke
      <3> QED BY <1>2, <3>1
    <2> QED BY <2>1, <2>2
  <1>4. mem[p].session = store.session
    BY <1>1 DEF AllAtWork, AtWork
  <1>5. \A q \in Procs : pc'[q] # "saving"
    <2>1. ~stolen
      BY Zenon DEF Frank
    <2> QED BY <1>1, <2>1, Alone, PhasesOfCommands
  <1>6. \A q \in Procs : pc'[q] = pc[q] \/ pc'[q] = "deleting"
    BY <1>1
  <1>7. ASSUME NEW q \in Procs
        PROVE  Held(q)' /\ AtWork(q)'
    <2>1. Held(q) /\ AtWork(q) /\ (pc'[q] = pc[q] \/ pc'[q] = "deleting") /\ pc'[q] # "saving"
      BY <1>5, <1>6 DEF AllAtWork
    <2>2. pc[q] # "saving"
      <3>1. q = p \/ pc'[q] = pc[q]
        BY <1>1
      <3> QED BY <1>1, <1>5, <3>1
    <2>3. Held(q)'
      BY <1>1, <1>2, <2>1, <2>2 DEF Held
    <2>4. AtWork(q)'
      BY <1>1, <1>2, <1>3, <1>4, <2>1 DEF AtWork
    <2> QED BY <2>3, <2>4
  <1>8. AllAtWork'
    BY <1>7 DEF AllAtWork
  <1>9. SignedOutIsGone'
    BY <1>1, Zenon DEF SignedOutIsGone
  <1> QED BY <1>8, <1>9

\* A login saves where nothing was stored; a refresh saves the session that was.
LEMMA RemovedSave ==
    ASSUME LockInv, TokenInv, Frank, AllAtWork, SignedOutIsGone, NEW p \in Procs, Save(p)
    PROVE  AllAtWork' /\ SignedOutIsGone'
  <1>1. /\ revoked' = revoked /\ mem' = mem /\ command' = command
        /\ pc[p] = "saving" /\ pc' = [pc EXCEPT ![p] = "leaving"]
        /\ store' = mem[p]
        /\ pc \in [Procs -> Phases]
    BY DEF Save, Goes, serverVars, LockInv, LockTypes
  <1>2. \A q \in Procs : q # p => pc'[q] \notin Inside /\ pc[q] \notin Inside /\ pc'[q] = pc[q]
    <2>1. ~stolen
      BY Zenon DEF Frank
    <2> QED BY <1>1, <2>1, Alone, PhasesOfCommands
  <1>3. /\ mem[p].session \in Sessions \ revoked
        /\ command[p] = "login" => store = None
        /\ command[p] # "login" => mem[p].session = store.session
    BY <1>1 DEF AllAtWork, AtWork
  <1>4. ASSUME NEW q \in Procs
        PROVE  Held(q)' /\ AtWork(q)'
    <2>1. CASE q = p
      BY <1>1, <2>1 DEF Held, AtWork
    <2>2. CASE q # p
      <3>1. AtWork(q)'
        BY <1>2, <2>2, PhasesOfCommands DEF AtWork
      <3>2. mem[q].session \notin Sessions \ revoked \/ mem[q].session = store.session
        BY <1>2, <2>2, PhasesOfCommands DEF AllAtWork, Held
      <3>3. mem[q].session \notin Sessions \ revoked \/ mem[q].session = mem[p].session
        BY <1>3, <3>2, NoneFacts
      <3> QED BY <1>1, <3>1, <3>3 DEF Held
    <2> QED BY <2>1, <2>2
  <1>5. AllAtWork'
    BY <1>4 DEF AllAtWork
  <1>6. ~signedOut'
    <2>1. CASE command[p] = "login"
      BY <2>1, Zenon DEF Save
    <2>2. CASE command[p] # "login"
      <3>1. store # None
        BY <1>3, <2>2, NoneFacts
      <3>2. ~signedOut
        BY <3>1, Zenon DEF SignedOutIsGone
      <3> QED BY <3>2, Zenon DEF Save
    <2> QED BY <2>1, <2>2
  <1>7. SignedOutIsGone'
    BY <1>6, Zenon DEF SignedOutIsGone
  <1> QED BY <1>5, <1>7

LEMMA RemovedDelete ==
    ASSUME LockInv, TokenInv, Frank, AllAtWork, NEW p \in Procs, Delete(p)
    PROVE  AllAtWork' /\ SignedOutIsGone'
  <1>1. /\ revoked' = revoked /\ mem' = mem /\ command' = command
        /\ pc[p] = "deleting" /\ pc' = [pc EXCEPT ![p] = "leaving"]
        /\ store' = None
        /\ pc \in [Procs -> Phases]
    BY DEF Delete, Goes, serverVars, LockInv, LockTypes
  <1>2. \A q \in Procs : q # p => pc'[q] \notin Inside /\ pc[q] \notin Inside /\ pc'[q] = pc[q]
    <2>1. ~stolen
      BY Zenon DEF Frank
    <2> QED BY <1>1, <2>1, Alone, PhasesOfCommands
  <1>3. \A q \in Procs : pc[q] # "saving"
    BY <1>1, <1>2, PhasesOfCommands
  <1>4. store.session \notin Sessions \ revoked
    BY <1>1 DEF AllAtWork, AtWork
  <1>5. ASSUME NEW q \in Procs
        PROVE  Held(q)' /\ AtWork(q)'
    <2>1. Held(q)'
      BY <1>1, <1>3, <1>4 DEF AllAtWork, Held
    <2>2. AtWork(q)'
      <3>1. q = p => pc'[q] = "leaving"
        BY <1>1
      <3> QED BY <1>2, <3>1, PhasesOfCommands DEF AtWork
    <2> QED BY <2>1, <2>2
  <1>6. AllAtWork'
    BY <1>5 DEF AllAtWork
  <1>7. SignedOutIsGone'
    BY <1>1, Zenon DEF SignedOutIsGone
  <1> QED BY <1>6, <1>7

\* A session that expires is the same session.
LEMMA RemovedExpire ==
    ASSUME LockInv, TokenInv, AllAtWork, SignedOutIsGone, Expire
    PROVE  AllAtWork' /\ SignedOutIsGone'
  <1>1. /\ revoked' = revoked /\ pc' = pc /\ command' = command /\ signedOut' = signedOut
        /\ store.fresh
        /\ store' = [store EXCEPT !.fresh = FALSE]
        /\ mem' = [p \in Procs |-> [mem[p] EXCEPT !.fresh = FALSE]]
    BY Zenon DEF Expire, serverVars, causes
  <1>2. store \in Stored /\ mem \in [Procs -> Stored]
    BY DEF TokenInv, SessionTypes
  <1>3. store'.session = store.session
    BY <1>1, <1>2, ExpiredFacts
  <1>4. \A p \in Procs : mem'[p].session = mem[p].session
    BY <1>1, <1>2, ExpiredFacts
  <1>5. store # None
    BY <1>1, NoneFacts
  <1>6. AllAtWork'
    BY <1>1, <1>3, <1>4, <1>5 DEF AllAtWork, Held, AtWork
  <1>7. SignedOutIsGone'
    BY <1>1, <1>5, Zenon DEF SignedOutIsGone
  <1> QED BY <1>6, <1>7

LEMMA RemovedPreserved == LockInv /\ TokenInv /\ Removed /\ [Next]_vars => Removed'
  <1> SUFFICES ASSUME LockInv, TokenInv, Removed, [Next]_vars, Frank'
               PROVE  AllAtWork' /\ SignedOutIsGone'
    BY Zenon DEF Removed
  <1>1. CASE Expire
    <2>1. Frank
      <3>1. overwrote' = overwrote /\ stillValid' = stillValid /\ stolen' = stolen
        BY <1>1 DEF Expire, causes
      <3> QED BY <3>1, Zenon DEF Frank
    <2> QED BY <1>1, <2>1, RemovedExpire, Zenon DEF Removed
  <1>2. CASE Age \/ UNCHANGED vars
    <2>1. /\ overwrote' = overwrote /\ stillValid' = stillValid /\ stolen' = stolen
          /\ revoked' = revoked /\ pc' = pc /\ store' = store /\ mem' = mem
          /\ command' = command /\ signedOut' = signedOut
      BY <1>2 DEF Age, vars, causes, serverVars, processVars
    <2>2. Frank
      BY <2>1, Zenon DEF Frank
    <2>3. AllAtWork /\ SignedOutIsGone
      BY <2>2, Zenon DEF Removed
    <2>4. AllAtWork'
      BY <2>1, <2>3 DEF AllAtWork, Held, AtWork
    <2>5. SignedOutIsGone'
      BY <2>1, <2>3, Zenon DEF SignedOutIsGone
    <2> QED BY <2>4, <2>5
  <1>3. ASSUME NEW p \in Procs, Process(p)
        PROVE  AllAtWork' /\ SignedOutIsGone'
    <2>1. Frank
      BY <1>3, FrankStays
    <2>2. AllAtWork /\ SignedOutIsGone
      BY <2>1, Zenon DEF Removed
    <2>3. CASE Refresh(p)
      BY <2>2, <2>3, RemovedRefresh
    <2>4. CASE SignIn(p)
      BY <2>2, <2>4, RemovedSignIn
    <2>5. CASE LookFirst(p)
      BY <2>2, <2>5, RemovedLookFirst
    <2>6. CASE Revoke(p)
      BY <2>1, <2>2, <2>6, RemovedRevoke
    <2>7. CASE RevokeFails(p)
      BY <2>7, Zenon DEF RevokeFails, Frank
    <2>8. CASE Save(p)
      BY <2>1, <2>2, <2>8, RemovedSave
    <2>9. CASE Delete(p)
      BY <2>1, <2>2, <2>9, RemovedDelete
    <2>10. CASE ~(Refresh(p) \/ SignIn(p) \/ LookFirst(p) \/ Revoke(p) \/ RevokeFails(p)
                  \/ Save(p) \/ Delete(p))
      BY <1>3, <2>2, <2>10, RemovedBystanders, Zenon DEF Process
    <2> QED BY <2>3, <2>4, <2>5, <2>6, <2>7, <2>8, <2>9, <2>10
  <1> QED BY <1>1, <1>2, <1>3 DEF Next

\* What logout removed no process brings back, however many held the session or waited
\* for the lock to refresh it (logout, ensureAccess, revokeNativeSession).
THEOREM WhatLogoutRemovedStaysOut == Spec => []SignedOutStaysOut
  <1>1. Init => LockInv /\ TokenInv /\ Removed
    <2>1. ASSUME Init PROVE AllAtWork /\ SignedOutIsGone
      <3>1. \A p \in Procs : pc[p] = "idle" /\ mem[p].session \notin Sessions
        BY <2>1, NoneFacts DEF Init
      <3>2. store = None
        BY <2>1 DEF Init
      <3>3. AllAtWork
        BY <3>1 DEF AllAtWork, Held, AtWork
      <3> QED BY <3>2, <3>3, Zenon DEF SignedOutIsGone
    <2> QED BY <2>1, LockInvInit, TokenInvInit, Zenon DEF Removed
  <1>2. (LockInv /\ TokenInv /\ Removed) /\ [Next]_vars => (LockInv /\ TokenInv /\ Removed)'
    BY LockInvPreserved, TokenInvPreserved, RemovedPreserved
  <1>3. LockInv /\ TokenInv /\ Removed => SignedOutStaysOut
    BY Zenon DEF Removed, Frank, SignedOutIsGone, SignedOutStaysOut
  <1> QED BY <1>1, <1>2, <1>3, PTL DEF Spec
-----------------------------------------------------------------------------
(* Types *)

FaultsBounded == faults \in 0 .. MaxFaults

CauseTypes ==
    lost \in BOOLEAN /\ overwrote \in BOOLEAN /\ stillValid \in BOOLEAN /\ signedOut \in BOOLEAN

\* A fault is counted only below the bound.
LEMMA FaultsCounted == FaultsBounded /\ [Next]_vars => FaultsBounded'
  <1> SUFFICES ASSUME FaultsBounded, [Next]_vars PROVE FaultsBounded'
    OBVIOUS
  <1> USE FaultsAssumption DEF FaultsBounded
  <1>1. CASE Expire
    BY <1>1 DEF Expire, causes
  <1>2. CASE Age
    BY <1>2 DEF Age, Faulty, causes
  <1>3. ASSUME NEW p \in Procs, Process(p) PROVE FaultsBounded'
    <2>1. CASE Begin(p)
      BY <2>1 DEF Begin, Faulty, causes
    <2>2. CASE BeginLocked(p)
      BY <2>2 DEF BeginLocked, Faulty, causes
    <2>3. CASE UseWrites(p)
      BY <2>3 DEF UseWrites, Faulty, causes
    <2>4. CASE Acquire(p)
      BY <2>4 DEF Acquire, Faulty, causes
    <2>5. CASE DieNameless(p)
      BY <2>5 DEF DieNameless, Faulty, causes
    <2>6. CASE Judge(p)
      BY <2>6 DEF Judge, Faulty, causes
    <2>7. CASE Break(p)
      BY <2>7 DEF Break, Faulty, causes
    <2>8. CASE GiveUp(p)
      BY <2>8 DEF GiveUp, Faulty, causes
    <2>9. CASE Leave(p)
      BY <2>9 DEF Leave, Faulty, causes
    <2>10. CASE Refresh(p)
      BY <2>10 DEF Refresh, Faulty, causes
    <2>11. CASE LoseAnswer(p)
      BY <2>11 DEF LoseAnswer, Faulty, causes
    <2>12. CASE Save(p)
      BY <2>12 DEF Save, Faulty, causes
    <2>13. CASE LookFirst(p)
      BY <2>13 DEF LookFirst, Faulty, causes
    <2>14. CASE SignIn(p)
      BY <2>14 DEF SignIn, Faulty, causes
    <2>15. CASE SignInFails(p)
      BY <2>15 DEF SignInFails, Faulty, causes
    <2>16. CASE Revoke(p)
      BY <2>16 DEF Revoke, Faulty, causes
    <2>17. CASE RevokeFails(p)
      BY <2>17 DEF RevokeFails, Faulty, causes
    <2>18. CASE Delete(p)
      BY <2>18 DEF Delete, Faulty, causes
    <2>19. CASE Die(p)
      BY <2>19 DEF Die, Faulty, causes
    <2> QED
      BY <1>3, <2>1, <2>2, <2>3, <2>4, <2>5, <2>6, <2>7, <2>8, <2>9, <2>10,
         <2>11, <2>12, <2>13, <2>14, <2>15, <2>16, <2>17, <2>18, <2>19 DEF Process
  <1>4. CASE UNCHANGED vars
    BY <1>4 DEF vars, causes
  <1> QED BY <1>1, <1>2, <1>3, <1>4 DEF Next

\* What is remembered of a history is a Boolean.
LEMMA CausesTyped == CauseTypes /\ [Next]_vars => CauseTypes'
  <1> SUFFICES ASSUME CauseTypes, [Next]_vars PROVE CauseTypes'
    OBVIOUS
  <1> USE DEF CauseTypes
  <1>1. CASE Expire
    BY <1>1 DEF Expire, causes
  <1>2. CASE Age
    BY <1>2 DEF Age, Faulty, causes
  <1>3. ASSUME NEW p \in Procs, Process(p) PROVE CauseTypes'
    <2>1. CASE Begin(p)
      BY <2>1 DEF Begin, Faulty, causes
    <2>2. CASE BeginLocked(p)
      BY <2>2 DEF BeginLocked, Faulty, causes
    <2>3. CASE UseWrites(p)
      BY <2>3 DEF UseWrites, Faulty, causes
    <2>4. CASE Acquire(p)
      BY <2>4 DEF Acquire, Faulty, causes
    <2>5. CASE DieNameless(p)
      BY <2>5 DEF DieNameless, Faulty, causes
    <2>6. CASE Judge(p)
      BY <2>6 DEF Judge, Faulty, causes
    <2>7. CASE Break(p)
      BY <2>7 DEF Break, Faulty, causes
    <2>8. CASE GiveUp(p)
      BY <2>8 DEF GiveUp, Faulty, causes
    <2>9. CASE Leave(p)
      BY <2>9 DEF Leave, Faulty, causes
    <2>10. CASE Refresh(p)
      BY <2>10 DEF Refresh, Faulty, causes
    <2>11. CASE LoseAnswer(p)
      BY <2>11 DEF LoseAnswer, Faulty, causes
    <2>12. CASE Save(p)
      BY <2>12 DEF Save, Faulty, causes
    <2>13. CASE LookFirst(p)
      BY <2>13 DEF LookFirst, Faulty, causes
    <2>14. CASE SignIn(p)
      BY <2>14 DEF SignIn, Faulty, causes
    <2>15. CASE SignInFails(p)
      BY <2>15 DEF SignInFails, Faulty, causes
    <2>16. CASE Revoke(p)
      BY <2>16 DEF Revoke, Faulty, causes
    <2>17. CASE RevokeFails(p)
      BY <2>17 DEF RevokeFails, Faulty, causes
    <2>18. CASE Delete(p)
      BY <2>18 DEF Delete, Faulty, causes
    <2>19. CASE Die(p)
      BY <2>19 DEF Die, Faulty, causes
    <2> QED
      BY <1>3, <2>1, <2>2, <2>3, <2>4, <2>5, <2>6, <2>7, <2>8, <2>9, <2>10,
         <2>11, <2>12, <2>13, <2>14, <2>15, <2>16, <2>17, <2>18, <2>19 DEF Process
  <1>4. CASE UNCHANGED vars
    BY <1>4 DEF vars, causes
  <1> QED BY <1>1, <1>2, <1>3, <1>4 DEF Next

SessionInv == LockInv /\ TokenInv /\ FaultsBounded /\ CauseTypes

LEMMA SessionBegins == Init => SessionInv
  <1>1. Init => FaultsBounded
    BY FaultsAssumption DEF Init, FaultsBounded
  <1>2. Init => CauseTypes
    BY DEF Init, CauseTypes
  <1> QED BY <1>1, <1>2, LockInvInit, TokenInvInit DEF SessionInv

LEMMA SessionKept == SessionInv /\ [Next]_vars => SessionInv'
  BY LockInvPreserved, TokenInvPreserved, FaultsCounted, CausesTyped DEF SessionInv

LEMMA SessionTyped == SessionInv => TypeOK
  <1> SUFFICES ASSUME SessionInv PROVE TypeOK
    OBVIOUS
  <1>1. stolen \in BOOLEAN /\ CauseTypes
    BY DEF SessionInv, LockInv, LockTypes
  <1>2. {stolen, lost, overwrote, stillValid, signedOut} \subseteq BOOLEAN
    BY <1>1, Zenon DEF CauseTypes
  <1> QED
    BY <1>2 DEF SessionInv, LockInv, LockTypes, LockFiles, Phases, TokenInv, SessionTypes,
                FaultsBounded, TypeOK

\* The sessions, the lock and the processes are as the server, the lock file and the
\* commands can be.
THEOREM SessionsAreTyped == Spec => []TypeOK
  <1> QED BY SessionBegins, SessionKept, SessionTyped, PTL DEF Spec
=============================================================================
