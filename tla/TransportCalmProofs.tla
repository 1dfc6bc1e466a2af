------------------------ MODULE TransportCalmProofs ------------------------
(* What the outbox guarantees while handlers finish within their lease and the *)
(* queue and the database answer: invocations may still die anywhere, provider *)
(* replies may be lost, and messages come late, twice or not at all.           *)
EXTENDS TransportOutboxProofs

-----------------------------------------------------------------------------
(* The steps that a calm environment does not allow *)

\* The environment without the faults that let two invocations touch one claim.  It may
\* still hide a marked issue behind the one page that the lookup reads.
Timely == Faults \subseteq {"crash", "reply", "page"}

LEMMA TimelyExcludes ==
    ASSUME Timely
    PROVE  \A t \in Threads :
               /\ \A c \in Commands : ~SendFails(t, c)
               /\ ~ConfirmFails(t)
               /\ ~SettleFails(t)
               /\ ~CallbackSendFails(t)
               /\ ~CallbackThrows(t)
               /\ ~CallbackSettleFails(t)
               /\ ~Abort(t)
<1>1. \A kind \in {"slow", "send", "db"} : ~Fault(kind)
  BY DEF Timely, Fault
<1>2. QED
  BY <1>1 DEF SendFails, ConfirmFails, SettleFails, CallbackSendFails, CallbackThrows,
              CallbackSettleFails, Abort

\* A calm environment hides no issue either.
LEMMA CalmExcludes ==
    ASSUME Calm
    PROVE  /\ Timely
           /\ \A t \in Threads :
                  /\ \A c \in Commands : ~SendFails(t, c)
                  /\ ~ConfirmFails(t)
                  /\ ~LookupMisses(t)
                  /\ ~SettleFails(t)
                  /\ ~CallbackSendFails(t)
                  /\ ~CallbackThrows(t)
                  /\ ~CallbackSettleFails(t)
                  /\ ~Abort(t)
<1>1. Timely
  BY DEF Calm, Timely
<1>2. \A t \in Threads : ~LookupMisses(t)
  BY DEF Calm, LookupMisses, Fault
<1>3. QED
  BY <1>1, <1>2, TimelyExcludes

-----------------------------------------------------------------------------
(* One worker at a time *)

\* A worker's command is claimed and its lease is live, so nobody else can claim it
\* and no sweep resets it; and no catch block undoes another invocation's claim.
LeaseInv ==
    /\ \A t \in Threads : pc[t] \notin {"demote", "cbNote"}
    /\ \A t \in Threads, c \in Commands :
           Working(t, c) => status[c] = "processing" /\ lease[c] = "live"
    /\ Exclusive

\* A step that makes nobody start to work, and resets no command that is worked on.
LEMMA LeaseFrame ==
    ASSUME LeaseInv,
           \A t \in Threads : pc'[t] \notin {"demote", "cbNote"},
           \A t \in Threads, c \in Commands : Working(t, c)' => Working(t, c),
           \A t \in Threads, c \in Commands : Working(t, c)' =>
               status'[c] = status[c] /\ lease'[c] = lease[c]
    PROVE  LeaseInv'
<1>1. Exclusive'
  BY DEF LeaseInv, Exclusive
<1>2. QED
  BY <1>1 DEF LeaseInv

\* No step breaks the inductive invariant.
LEMMA LeaseStep == Timely /\ TypeOK /\ LeaseInv /\ [Next]_vars => LeaseInv'
<1> SUFFICES ASSUME Timely, TypeOK, LeaseInv, [Next]_vars
             PROVE  LeaseInv'
  OBVIOUS
<1> USE DEF outboxVars, callbackVars, productVars, threadVars, LeaseInv, Working, Exclusive,
            Timely, TypeOK, ThreadTypeOK, Terminal, Refused, Sendable, Between
<1>1. ASSUME NEW t \in Threads, NEW c \in Commands, Publish(t, c)
      PROVE  LeaseInv'
  BY <1>1 DEF Publish, Enter
<1>2. ASSUME NEW t \in Threads, NEW c \in Commands, PublishDuplicate(t, c)
      PROVE  LeaseInv'
  BY <1>2 DEF PublishDuplicate, Enter
<1>3. ASSUME NEW t \in Threads, StoreCallback(t)
      PROVE  LeaseInv'
  <2>1. \A u \in Threads : pc'[u] \notin {"demote", "cbNote"}
    BY <1>3 DEF StoreCallback, Goto, End, Enter
  <2>2. \A u \in Threads, d \in Commands : Working(u, d)' => Working(u, d)
    BY <1>3 DEF StoreCallback, Goto, End, Enter
  <2>3. \A u \in Threads, d \in Commands :
           Working(u, d)' => status'[d] = status[d] /\ lease'[d] = lease[d]
    BY <1>3 DEF StoreCallback, Goto, End, Enter
  <2>4. QED
    BY <2>1, <2>2, <2>3, LeaseFrame
<1>4. ASSUME NEW t \in Threads, NEW c \in Commands, Send(t, c)
      PROVE  LeaseInv'
  BY <1>4 DEF Send, Takes
<1>5. ASSUME NEW t \in Threads, NEW c \in Commands, SendFails(t, c)
      PROVE  LeaseInv'
  BY <1>5, TimelyExcludes
<1>6. ASSUME NEW t \in Threads, Confirm(t)
      PROVE  LeaseInv'
  <2>1. \A u \in Threads : pc'[u] \notin {"demote", "cbNote"}
    BY <1>6 DEF Confirm, NextRow, Loop, Enter, End
  <2>2. \A u \in Threads, d \in Commands : Working(u, d)' => Working(u, d)
    BY <1>6 DEF Confirm, NextRow, Loop, Enter, End
  <2>3. \A d \in Commands : lease'[d] = lease[d] /\ (status[d] \in Sendable \/ status'[d] = status[d])
    BY <1>6 DEF Confirm
  <2>4. \A u \in Threads, d \in Commands : Working(u, d) => status[d] = "processing"
    BY DEF LeaseInv
  <2>5. \A u \in Threads, d \in Commands :
           Working(u, d)' => status'[d] = status[d] /\ lease'[d] = lease[d]
    <3> HIDE DEF Working, TypeOK, ThreadTypeOK, Exclusive, LeaseInv
    <3>1. QED
      BY <2>2, <2>3, <2>4
  <2>6. QED
    BY <2>1, <2>2, <2>5, LeaseFrame
<1>7. ASSUME NEW t \in Threads, ConfirmFails(t)
      PROVE  LeaseInv'
  BY <1>7, TimelyExcludes
<1>8. ASSUME NEW t \in Threads, Demote(t)
      PROVE  LeaseInv'
  BY <1>8 DEF Demote, NextRow, Loop, Enter, End
<1>9. ASSUME NEW t \in Threads, SweepStale(t)
      PROVE  LeaseInv'
  BY <1>9 DEF SweepStale, Goto, Reset, Stale
<1>10. ASSUME NEW t \in Threads, SweepSelect(t)
      PROVE  LeaseInv'
  <2>1. \A u \in Threads : pc'[u] \notin {"demote", "cbNote"}
    BY <1>10 DEF SweepSelect, Loop, Enter, End, Due
  <2>2. \A u \in Threads, d \in Commands : Working(u, d)' => Working(u, d)
    BY <1>10 DEF SweepSelect, Loop, Enter, End, Due
  <2>3. \A u \in Threads, d \in Commands :
           Working(u, d)' => status'[d] = status[d] /\ lease'[d] = lease[d]
    BY <1>10 DEF SweepSelect, Loop, Enter, End, Due
  <2>4. QED
    BY <2>1, <2>2, <2>3, LeaseFrame
<1>11. ASSUME NEW t \in Threads, NEW scope \in SUBSET Slack, Requeue(t, scope)
      PROVE  LeaseInv'
  <2>1. \A u \in Threads : pc'[u] \notin {"demote", "cbNote"}
    BY <1>11 DEF Requeue, Loop, Reset, Reopened, Enter, End
  <2>2. \A u \in Threads, d \in Commands : Working(u, d)' => Working(u, d)
    BY <1>11 DEF Requeue, Loop, Reset, Reopened, Enter, End
  <2>3. \A d \in Commands :
           status[d] = "processing" => status'[d] = status[d] /\ lease'[d] = lease[d]
    BY <1>11 DEF Requeue, Reset, Reopened
  <2>4. \A u \in Threads, d \in Commands :
           Working(u, d)' => status'[d] = status[d] /\ lease'[d] = lease[d]
    <3> HIDE DEF Working, TypeOK, ThreadTypeOK, Exclusive, Timely
    <3>1. QED
      BY <2>2, <2>3
  <2>5. QED
    BY <2>1, <2>2, <2>4, LeaseFrame
<1>12. ASSUME NEW t \in Threads, NEW c \in Commands, NEW n \in Deliveries, Claim(t, c, n)
      PROVE  LeaseInv'
  BY <1>12 DEF Claim, Enter, Claimable
<1>13. ASSUME NEW t \in Threads, Lookup(t)
      PROVE  LeaseInv'
  <2>1. \A u \in Threads : pc'[u] \notin {"demote", "cbNote"}
    BY <1>13 DEF Lookup, Goto, Returns
  <2>2. \A u \in Threads, d \in Commands : Working(u, d)' => Working(u, d)
    BY <1>13 DEF Lookup, Goto, Returns
  <2>3. \A u \in Threads, d \in Commands :
           Working(u, d)' => status'[d] = status[d] /\ lease'[d] = lease[d]
    BY <1>13 DEF Lookup, Goto, Returns
  <2>4. QED
    BY <2>1, <2>2, <2>3, LeaseFrame
<1>14. ASSUME NEW t \in Threads, LookupMisses(t)
      PROVE  LeaseInv'
  BY <1>14 DEF LookupMisses, Goto, Fault
<1>15. ASSUME NEW t \in Threads, Post(t)
      PROVE  LeaseInv'
  BY <1>15 DEF Post, Returns, Posted
<1>16. ASSUME NEW t \in Threads, PostUnconfirmed(t)
      PROVE  LeaseInv'
  <2>1. \A u \in Threads : pc'[u] \notin {"demote", "cbNote"}
    BY <1>16 DEF PostUnconfirmed, Returns
  <2>2. \A u \in Threads, d \in Commands : Working(u, d)' => Working(u, d)
    BY <1>16 DEF PostUnconfirmed, Returns
  <2>3. \A u \in Threads, d \in Commands :
           Working(u, d)' => status'[d] = status[d] /\ lease'[d] = lease[d]
    BY <1>16 DEF PostUnconfirmed
  <2>4. QED
    BY <2>1, <2>2, <2>3, LeaseFrame
<1>17. ASSUME NEW t \in Threads, HandlerFails(t)
      PROVE  LeaseInv'
  BY <1>17 DEF HandlerFails, Returns
<1>18. ASSUME NEW t \in Threads, SettleDelivered(t)
      PROVE  LeaseInv'
  BY <1>18 DEF SettleDelivered, Goto, Finish
<1>19. ASSUME NEW t \in Threads, SettleRetrying(t)
      PROVE  LeaseInv'
  BY <1>19 DEF SettleRetrying, Goto
<1>20. ASSUME NEW t \in Threads, SettleRefused(t)
      PROVE  LeaseInv'
  BY <1>20 DEF SettleRefused, Outcome, Goto, Finish
<1>21. ASSUME NEW t \in Threads, SettleFails(t)
      PROVE  LeaseInv'
  BY <1>21, TimelyExcludes
<1>22. ASSUME NEW t \in Threads, NEW c \in Commands, CallbackSelect(t, c)
      PROVE  LeaseInv'
  <2>1. \A u \in Threads : pc'[u] \notin {"demote", "cbNote"}
    BY <1>22 DEF CallbackSelect, Takes, CallbackDone, Goto, NextRow, Loop, Enter, End
  <2>2. \A u \in Threads, d \in Commands : Working(u, d)' => Working(u, d)
    BY <1>22 DEF CallbackSelect, Takes, CallbackDone, Goto, NextRow, Loop, Enter, End
  <2>3. \A u \in Threads, d \in Commands :
           Working(u, d)' => status'[d] = status[d] /\ lease'[d] = lease[d]
    BY <1>22 DEF CallbackSelect, Takes, CallbackDone, Goto, NextRow, Loop, Enter, End
  <2>4. QED
    BY <2>1, <2>2, <2>3, LeaseFrame
<1>23. ASSUME NEW t \in Threads, CallbackSend(t)
      PROVE  LeaseInv'
  BY <1>23 DEF CallbackSend, Goto
<1>24. ASSUME NEW t \in Threads, CallbackConfirm(t)
      PROVE  LeaseInv'
  <2>1. \A u \in Threads : pc'[u] \notin {"demote", "cbNote"}
    BY <1>24 DEF CallbackConfirm, CallbackDone, Goto, NextRow, Loop, Enter, End
  <2>2. \A u \in Threads, d \in Commands : Working(u, d)' => Working(u, d)
    BY <1>24 DEF CallbackConfirm, CallbackDone, Goto, NextRow, Loop, Enter, End
  <2>3. \A u \in Threads, d \in Commands :
           Working(u, d)' => status'[d] = status[d] /\ lease'[d] = lease[d]
    BY <1>24 DEF CallbackConfirm, CallbackDone, Goto, NextRow, Loop, Enter, End
  <2>4. QED
    BY <2>1, <2>2, <2>3, LeaseFrame
<1>25. ASSUME NEW t \in Threads, CallbackSendFails(t)
      PROVE  LeaseInv'
  BY <1>25, TimelyExcludes
<1>26. ASSUME NEW t \in Threads, CallbackNote(t)
      PROVE  LeaseInv'
  BY <1>26 DEF CallbackNote, CallbackDone, Goto, NextRow, Loop, Enter, End
<1>27. ASSUME NEW t \in Threads, CallbackThrows(t)
      PROVE  LeaseInv'
  BY <1>27, TimelyExcludes
<1>28. ASSUME NEW t \in Threads, NEW c \in Commands, NEW n \in Deliveries, ClaimCallback(t, c, n)
      PROVE  LeaseInv'
  BY <1>28 DEF ClaimCallback, Enter
<1>29. ASSUME NEW t \in Threads, ReadReceipt(t)
      PROVE  LeaseInv'
  <2>1. \A u \in Threads : pc'[u] \notin {"demote", "cbNote"}
    BY <1>29 DEF ReadReceipt, Returns
  <2>2. \A u \in Threads, d \in Commands : Working(u, d)' => Working(u, d)
    BY <1>29 DEF ReadReceipt, Returns
  <2>3. \A u \in Threads, d \in Commands :
           Working(u, d)' => status'[d] = status[d] /\ lease'[d] = lease[d]
    BY <1>29 DEF ReadReceipt, Returns
  <2>4. QED
    BY <2>1, <2>2, <2>3, LeaseFrame
<1>30. ASSUME NEW t \in Threads, Apply(t)
      PROVE  LeaseInv'
  BY <1>30 DEF Apply, Goto, Applied
<1>31. ASSUME NEW t \in Threads, ApplyFails(t)
      PROVE  LeaseInv'
  BY <1>31 DEF ApplyFails, Returns, Applied
<1>32. ASSUME NEW t \in Threads, CallbackSettle(t)
      PROVE  LeaseInv'
  BY <1>32 DEF CallbackSettle, Goto
<1>33. ASSUME NEW t \in Threads, CallbackSettleFails(t)
      PROVE  LeaseInv'
  BY <1>33, TimelyExcludes
<1>34. ASSUME NEW t \in Threads, CallbackSweepStale(t)
      PROVE  LeaseInv'
  BY <1>34 DEF CallbackSweepStale, Goto
<1>35. ASSUME NEW t \in Threads, CallbackSweepScan(t)
      PROVE  LeaseInv'
  <2>1. \A u \in Threads : pc'[u] \notin {"demote", "cbNote"}
    BY <1>35 DEF CallbackSweepScan, Loop, Enter, End
  <2>2. \A u \in Threads, d \in Commands : Working(u, d)' => Working(u, d)
    BY <1>35 DEF CallbackSweepScan, Loop, Enter, End
  <2>3. \A u \in Threads, d \in Commands :
           Working(u, d)' => status'[d] = status[d] /\ lease'[d] = lease[d]
    BY <1>35 DEF CallbackSweepScan, Loop, Enter, End
  <2>4. QED
    BY <2>1, <2>2, <2>3, LeaseFrame
<1>36. ASSUME NEW t \in Threads, Ack(t)
      PROVE  LeaseInv'
  BY <1>36 DEF Ack, End, Enter
<1>37. ASSUME NEW t \in Threads, Nack(t)
      PROVE  LeaseInv'
  BY <1>37 DEF Nack, Release, End, Enter
<1>38. ASSUME NEW t \in Threads, Crash(t)
      PROVE  LeaseInv'
  BY <1>38 DEF Crash, Fault, Release, End, Enter
<1>39. ASSUME NEW t \in Threads, Abort(t)
      PROVE  LeaseInv'
  BY <1>39, TimelyExcludes
<1>40. ASSUME NEW c \in Commands, NEW n \in Deliveries, Skip(c, n)
      PROVE  LeaseInv'
  BY <1>40 DEF Skip
<1>41. ASSUME NEW c \in Commands, NEW n \in Deliveries, BatchDies(c, n)
      PROVE  LeaseInv'
  BY <1>41 DEF BatchDies, Fault
<1>42. ASSUME NEW c \in Commands, LeaseExpires(c)
      PROVE  LeaseInv'
  BY <1>42 DEF LeaseExpires, Fault, Healthy
<1>43. ASSUME NEW c \in Commands, CallbackLeaseExpires(c)
      PROVE  LeaseInv'
  BY <1>43 DEF CallbackLeaseExpires, Fault, Healthy
<1>44. ASSUME NEW c \in Commands, BackoffElapses(c)
      PROVE  LeaseInv'
  BY <1>44 DEF BackoffElapses
<1>45. CASE UNCHANGED vars
  BY <1>45 DEF vars
<1>46. QED
  BY <1>1, <1>2, <1>3, <1>4, <1>5, <1>6, <1>7, <1>8, <1>9, <1>10, <1>11, <1>12, <1>13,
     <1>14, <1>15, <1>16, <1>17, <1>18, <1>19, <1>20, <1>21, <1>22, <1>23, <1>24, <1>25,
     <1>26, <1>27, <1>28, <1>29, <1>30, <1>31, <1>32, <1>33, <1>34, <1>35, <1>36, <1>37,
     <1>38, <1>39, <1>40, <1>41, <1>42, <1>43, <1>44, <1>45
     DEF Next, Start, Continue, Queueing, Executing, CallbackQueueing, CallbackExecuting

\* Exclusive for every number of commands, invocations, attempts and deliveries.
THEOREM OneWorker == ASSUME Timely PROVE Spec => []Exclusive
<1>1. Init => LeaseInv
  BY DEF Init, LeaseInv, Working, Exclusive
<1>2. LeaseInv => Exclusive
  BY DEF LeaseInv
<1>3. QED
  BY TypeCorrect, LeaseStep, <1>1, <1>2, PTL DEF Spec

-----------------------------------------------------------------------------
(* A delivery is final *)

\* What one step does to a delivered command.
Final == \A c \in Commands : status[c] = "delivered" =>
             status'[c] = "delivered" /\ posts'[c] = posts[c]
\* Only a worker settles a row or acts, and it works on a row that is being processed.
LEMMA FinalStep == Timely /\ TypeOK /\ LeaseInv /\ [Next]_vars => Final
<1> SUFFICES ASSUME Timely, TypeOK, LeaseInv, [Next]_vars
             PROVE  Final
  OBVIOUS
<1> USE DEF outboxVars, callbackVars, productVars, threadVars, LeaseInv, Working, Final,
            Timely, TypeOK, ThreadTypeOK, Terminal, Refused, Sendable, Between
<1>1. ASSUME NEW t \in Threads, NEW c \in Commands, Publish(t, c)
      PROVE  Final
  BY <1>1 DEF Publish, Enter
<1>2. ASSUME NEW t \in Threads, NEW c \in Commands, PublishDuplicate(t, c)
      PROVE  Final
  BY <1>2 DEF PublishDuplicate, Enter
<1>3. ASSUME NEW t \in Threads, StoreCallback(t)
      PROVE  Final
  BY <1>3 DEF StoreCallback, Goto, End, Enter
<1>4. ASSUME NEW t \in Threads, NEW c \in Commands, Send(t, c)
      PROVE  Final
  BY <1>4 DEF Send, Takes
<1>5. ASSUME NEW t \in Threads, NEW c \in Commands, SendFails(t, c)
      PROVE  Final
  BY <1>5, TimelyExcludes
<1>6. ASSUME NEW t \in Threads, Confirm(t)
      PROVE  Final
  BY <1>6 DEF Confirm, NextRow, Loop, Enter, End
<1>7. ASSUME NEW t \in Threads, ConfirmFails(t)
      PROVE  Final
  BY <1>7, TimelyExcludes
<1>8. ASSUME NEW t \in Threads, Demote(t)
      PROVE  Final
  BY <1>8 DEF Demote, NextRow, Loop, Enter, End
<1>9. ASSUME NEW t \in Threads, SweepStale(t)
      PROVE  Final
  BY <1>9 DEF SweepStale, Goto, Reset, Stale
<1>10. ASSUME NEW t \in Threads, SweepSelect(t)
      PROVE  Final
  BY <1>10 DEF SweepSelect, Loop, Enter, End, Due
<1>11. ASSUME NEW t \in Threads, NEW scope \in SUBSET Slack, Requeue(t, scope)
      PROVE  Final
  BY <1>11 DEF Requeue, Loop, Reset, Reopened, Enter, End, Reopened
<1>12. ASSUME NEW t \in Threads, NEW c \in Commands, NEW n \in Deliveries, Claim(t, c, n)
      PROVE  Final
  BY <1>12 DEF Claim, Enter, Claimable
<1>13. ASSUME NEW t \in Threads, Lookup(t)
      PROVE  Final
  BY <1>13 DEF Lookup, Goto, Returns
<1>14. ASSUME NEW t \in Threads, LookupMisses(t)
      PROVE  Final
  BY <1>14 DEF LookupMisses, Goto, Fault
<1>15. ASSUME NEW t \in Threads, Post(t)
      PROVE  Final
  BY <1>15 DEF Post, Returns, Posted
<1>16. ASSUME NEW t \in Threads, PostUnconfirmed(t)
      PROVE  Final
  BY <1>16 DEF PostUnconfirmed, Returns, Fault, Posted
<1>17. ASSUME NEW t \in Threads, HandlerFails(t)
      PROVE  Final
  BY <1>17 DEF HandlerFails, Returns
<1>18. ASSUME NEW t \in Threads, SettleDelivered(t)
      PROVE  Final
  BY <1>18 DEF SettleDelivered, Goto, Finish
<1>19. ASSUME NEW t \in Threads, SettleRetrying(t)
      PROVE  Final
  BY <1>19 DEF SettleRetrying, Goto
<1>20. ASSUME NEW t \in Threads, SettleRefused(t)
      PROVE  Final
  BY <1>20 DEF SettleRefused, Outcome, Goto, Finish
<1>21. ASSUME NEW t \in Threads, SettleFails(t)
      PROVE  Final
  BY <1>21, TimelyExcludes
<1>22. ASSUME NEW t \in Threads, NEW c \in Commands, CallbackSelect(t, c)
      PROVE  Final
  BY <1>22 DEF CallbackSelect, Takes, CallbackDone, Goto, NextRow, Loop, Enter, End
<1>23. ASSUME NEW t \in Threads, CallbackSend(t)
      PROVE  Final
  BY <1>23 DEF CallbackSend, Goto
<1>24. ASSUME NEW t \in Threads, CallbackConfirm(t)
      PROVE  Final
  BY <1>24 DEF CallbackConfirm, CallbackDone, Goto, NextRow, Loop, Enter, End
<1>25. ASSUME NEW t \in Threads, CallbackSendFails(t)
      PROVE  Final
  BY <1>25, TimelyExcludes
<1>26. ASSUME NEW t \in Threads, CallbackNote(t)
      PROVE  Final
  BY <1>26 DEF CallbackNote, CallbackDone, Goto, NextRow, Loop, Enter, End
<1>27. ASSUME NEW t \in Threads, CallbackThrows(t)
      PROVE  Final
  BY <1>27, TimelyExcludes
<1>28. ASSUME NEW t \in Threads, NEW c \in Commands, NEW n \in Deliveries, ClaimCallback(t, c, n)
      PROVE  Final
  BY <1>28 DEF ClaimCallback, Enter
<1>29. ASSUME NEW t \in Threads, ReadReceipt(t)
      PROVE  Final
  BY <1>29 DEF ReadReceipt, Returns
<1>30. ASSUME NEW t \in Threads, Apply(t)
      PROVE  Final
  BY <1>30 DEF Apply, Goto, Applied
<1>31. ASSUME NEW t \in Threads, ApplyFails(t)
      PROVE  Final
  BY <1>31 DEF ApplyFails, Returns, Applied
<1>32. ASSUME NEW t \in Threads, CallbackSettle(t)
      PROVE  Final
  BY <1>32 DEF CallbackSettle, Goto
<1>33. ASSUME NEW t \in Threads, CallbackSettleFails(t)
      PROVE  Final
  BY <1>33, TimelyExcludes
<1>34. ASSUME NEW t \in Threads, CallbackSweepStale(t)
      PROVE  Final
  BY <1>34 DEF CallbackSweepStale, Goto
<1>35. ASSUME NEW t \in Threads, CallbackSweepScan(t)
      PROVE  Final
  BY <1>35 DEF CallbackSweepScan, Loop, Enter, End
<1>36. ASSUME NEW t \in Threads, Ack(t)
      PROVE  Final
  BY <1>36 DEF Ack, End, Enter
<1>37. ASSUME NEW t \in Threads, Nack(t)
      PROVE  Final
  BY <1>37 DEF Nack, Release, End, Enter
<1>38. ASSUME NEW t \in Threads, Crash(t)
      PROVE  Final
  BY <1>38 DEF Crash, Fault, Release, End, Enter
<1>39. ASSUME NEW t \in Threads, Abort(t)
      PROVE  Final
  BY <1>39, TimelyExcludes
<1>40. ASSUME NEW c \in Commands, NEW n \in Deliveries, Skip(c, n)
      PROVE  Final
  BY <1>40 DEF Skip
<1>41. ASSUME NEW c \in Commands, NEW n \in Deliveries, BatchDies(c, n)
      PROVE  Final
  BY <1>41 DEF BatchDies, Fault
<1>42. ASSUME NEW c \in Commands, LeaseExpires(c)
      PROVE  Final
  BY <1>42 DEF LeaseExpires, Fault, Healthy
<1>43. ASSUME NEW c \in Commands, CallbackLeaseExpires(c)
      PROVE  Final
  BY <1>43 DEF CallbackLeaseExpires, Fault, Healthy
<1>44. ASSUME NEW c \in Commands, BackoffElapses(c)
      PROVE  Final
  BY <1>44 DEF BackoffElapses
<1>45. CASE UNCHANGED vars
  BY <1>45 DEF vars
<1>46. QED
  BY <1>1, <1>2, <1>3, <1>4, <1>5, <1>6, <1>7, <1>8, <1>9, <1>10, <1>11, <1>12, <1>13,
     <1>14, <1>15, <1>16, <1>17, <1>18, <1>19, <1>20, <1>21, <1>22, <1>23, <1>24, <1>25,
     <1>26, <1>27, <1>28, <1>29, <1>30, <1>31, <1>32, <1>33, <1>34, <1>35, <1>36, <1>37,
     <1>38, <1>39, <1>40, <1>41, <1>42, <1>43, <1>44, <1>45
     DEF Next, Start, Continue, Queueing, Executing, CallbackQueueing, CallbackExecuting

\* DeliveredIsFinal for every number of commands, invocations, attempts and deliveries.
THEOREM DeliveryIsFinal == ASSUME Timely PROVE Spec => DeliveredIsFinal
<1>1. Init => LeaseInv
  BY DEF Init, LeaseInv, Working, Exclusive
<1>2. QED
  BY TypeCorrect, LeaseStep, FinalStep, <1>1, PTL DEF Spec, DeliveredIsFinal, Final

-----------------------------------------------------------------------------
(* A marked command acts once *)

\* Whoever is about to act on a marked command is the first to.
MarkedInv ==
    /\ MarkedOnce
    /\ \A t \in Threads : pc[t] = "post" /\ cur[t] \in Marked => posts[cur[t]] = 0

\* A step after which nobody is newly about to act, and nobody has acted.
LEMMA MarkedFrame ==
    ASSUME MarkedInv,
           posts' = posts,
           \A t \in Threads : pc'[t] = "post" => pc[t] = "post" /\ cur'[t] = cur[t]
    PROVE  MarkedInv'
  BY DEF MarkedInv, MarkedOnce

\* No step breaks the inductive invariant.
LEMMA MarkedStep == Calm /\ TypeOK /\ LeaseInv /\ MarkedInv /\ [Next]_vars => MarkedInv'
<1> SUFFICES ASSUME Calm, TypeOK, LeaseInv, MarkedInv, [Next]_vars
             PROVE  MarkedInv'
  OBVIOUS
<1> USE CommandsAssumption
    DEF outboxVars, callbackVars, productVars, threadVars, LeaseInv, Working, Exclusive,
        MarkedInv, MarkedOnce, Calm, TypeOK, ThreadTypeOK, Between
<1>1. ASSUME NEW t \in Threads, NEW c \in Commands, Publish(t, c)
      PROVE  MarkedInv'
  BY <1>1 DEF Publish, Enter
<1>2. ASSUME NEW t \in Threads, NEW c \in Commands, PublishDuplicate(t, c)
      PROVE  MarkedInv'
  BY <1>2 DEF PublishDuplicate, Enter
<1>3. ASSUME NEW t \in Threads, StoreCallback(t)
      PROVE  MarkedInv'
  <2>1. \A u \in Threads : pc'[u] = "post" => pc[u] = "post" /\ cur'[u] = cur[u]
    BY <1>3 DEF StoreCallback, Goto, End, Enter
  <2>2. posts' = posts
    BY <1>3 DEF StoreCallback
  <2>3. QED
    BY <2>1, <2>2, MarkedFrame
<1>4. ASSUME NEW t \in Threads, NEW c \in Commands, Send(t, c)
      PROVE  MarkedInv'
  BY <1>4 DEF Send, Takes
<1>5. ASSUME NEW t \in Threads, NEW c \in Commands, SendFails(t, c)
      PROVE  MarkedInv'
  BY <1>5, CalmExcludes
<1>6. ASSUME NEW t \in Threads, Confirm(t)
      PROVE  MarkedInv'
  <2>1. \A u \in Threads : pc'[u] = "post" => pc[u] = "post" /\ cur'[u] = cur[u]
    BY <1>6 DEF Confirm, NextRow, Loop, Enter, End
  <2>2. posts' = posts
    BY <1>6 DEF Confirm
  <2>3. QED
    BY <2>1, <2>2, MarkedFrame
<1>7. ASSUME NEW t \in Threads, ConfirmFails(t)
      PROVE  MarkedInv'
  BY <1>7, CalmExcludes
<1>8. ASSUME NEW t \in Threads, Demote(t)
      PROVE  MarkedInv'
  BY <1>8 DEF Demote, NextRow, Loop, Enter, End
<1>9. ASSUME NEW t \in Threads, SweepStale(t)
      PROVE  MarkedInv'
  BY <1>9 DEF SweepStale, Goto, Reset, Stale
<1>10. ASSUME NEW t \in Threads, SweepSelect(t)
      PROVE  MarkedInv'
  <2>1. \A u \in Threads : pc'[u] = "post" => pc[u] = "post" /\ cur'[u] = cur[u]
    BY <1>10 DEF SweepSelect, Loop, Enter, End
  <2>2. posts' = posts
    BY <1>10 DEF SweepSelect
  <2>3. QED
    BY <2>1, <2>2, MarkedFrame
<1>11. ASSUME NEW t \in Threads, NEW scope \in SUBSET Slack, Requeue(t, scope)
      PROVE  MarkedInv'
  <2>1. \A u \in Threads : pc'[u] = "post" => pc[u] = "post" /\ cur'[u] = cur[u]
    BY <1>11 DEF Requeue, Loop, Enter, End
  <2>2. posts' = posts
    BY <1>11 DEF Requeue
  <2>3. QED
    BY <2>1, <2>2, MarkedFrame
<1>12. ASSUME NEW t \in Threads, NEW c \in Commands, NEW n \in Deliveries, Claim(t, c, n)
      PROVE  MarkedInv'
  BY <1>12 DEF Claim, Enter
<1>13. ASSUME NEW t \in Threads, Lookup(t)
      PROVE  MarkedInv'
  BY <1>13, OwnMarker DEF Lookup, Goto, Returns, Backed
<1>14. ASSUME NEW t \in Threads, LookupMisses(t)
      PROVE  MarkedInv'
  BY <1>14, CalmExcludes
<1>15. ASSUME NEW t \in Threads, Post(t)
      PROVE  MarkedInv'
  BY <1>15 DEF Post, Returns, Posted
<1>16. ASSUME NEW t \in Threads, PostUnconfirmed(t)
      PROVE  MarkedInv'
  BY <1>16 DEF PostUnconfirmed, Returns, Fault, Posted
<1>17. ASSUME NEW t \in Threads, HandlerFails(t)
      PROVE  MarkedInv'
  BY <1>17 DEF HandlerFails, Returns
<1>18. ASSUME NEW t \in Threads, SettleDelivered(t)
      PROVE  MarkedInv'
  BY <1>18 DEF SettleDelivered, Goto, Finish
<1>19. ASSUME NEW t \in Threads, SettleRetrying(t)
      PROVE  MarkedInv'
  BY <1>19 DEF SettleRetrying, Goto
<1>20. ASSUME NEW t \in Threads, SettleRefused(t)
      PROVE  MarkedInv'
  BY <1>20 DEF SettleRefused, Outcome, Goto, Finish
<1>21. ASSUME NEW t \in Threads, SettleFails(t)
      PROVE  MarkedInv'
  BY <1>21, CalmExcludes
<1>22. ASSUME NEW t \in Threads, NEW c \in Commands, CallbackSelect(t, c)
      PROVE  MarkedInv'
  BY <1>22 DEF CallbackSelect, Takes, CallbackDone, Goto, NextRow, Loop, Enter, End
<1>23. ASSUME NEW t \in Threads, CallbackSend(t)
      PROVE  MarkedInv'
  BY <1>23 DEF CallbackSend, Goto
<1>24. ASSUME NEW t \in Threads, CallbackConfirm(t)
      PROVE  MarkedInv'
  <2>1. \A u \in Threads : pc'[u] = "post" => pc[u] = "post" /\ cur'[u] = cur[u]
    BY <1>24 DEF CallbackConfirm, CallbackDone, Goto, NextRow, Loop, Enter, End
  <2>2. posts' = posts
    BY <1>24 DEF CallbackConfirm
  <2>3. QED
    BY <2>1, <2>2, MarkedFrame
<1>25. ASSUME NEW t \in Threads, CallbackSendFails(t)
      PROVE  MarkedInv'
  BY <1>25, CalmExcludes
<1>26. ASSUME NEW t \in Threads, CallbackNote(t)
      PROVE  MarkedInv'
  BY <1>26 DEF CallbackNote, CallbackDone, Goto, NextRow, Loop, Enter, End
<1>27. ASSUME NEW t \in Threads, CallbackThrows(t)
      PROVE  MarkedInv'
  BY <1>27, CalmExcludes
<1>28. ASSUME NEW t \in Threads, NEW c \in Commands, NEW n \in Deliveries, ClaimCallback(t, c, n)
      PROVE  MarkedInv'
  BY <1>28 DEF ClaimCallback, Enter
<1>29. ASSUME NEW t \in Threads, ReadReceipt(t)
      PROVE  MarkedInv'
  BY <1>29 DEF ReadReceipt, Returns
<1>30. ASSUME NEW t \in Threads, Apply(t)
      PROVE  MarkedInv'
  BY <1>30 DEF Apply, Goto, Applied
<1>31. ASSUME NEW t \in Threads, ApplyFails(t)
      PROVE  MarkedInv'
  BY <1>31 DEF ApplyFails, Returns, Applied
<1>32. ASSUME NEW t \in Threads, CallbackSettle(t)
      PROVE  MarkedInv'
  BY <1>32 DEF CallbackSettle, Goto
<1>33. ASSUME NEW t \in Threads, CallbackSettleFails(t)
      PROVE  MarkedInv'
  BY <1>33, CalmExcludes
<1>34. ASSUME NEW t \in Threads, CallbackSweepStale(t)
      PROVE  MarkedInv'
  BY <1>34 DEF CallbackSweepStale, Goto
<1>35. ASSUME NEW t \in Threads, CallbackSweepScan(t)
      PROVE  MarkedInv'
  <2>1. \A u \in Threads : pc'[u] = "post" => pc[u] = "post" /\ cur'[u] = cur[u]
    BY <1>35 DEF CallbackSweepScan, Loop, Enter, End
  <2>2. posts' = posts
    BY <1>35 DEF CallbackSweepScan
  <2>3. QED
    BY <2>1, <2>2, MarkedFrame
<1>36. ASSUME NEW t \in Threads, Ack(t)
      PROVE  MarkedInv'
  BY <1>36 DEF Ack, End, Enter
<1>37. ASSUME NEW t \in Threads, Nack(t)
      PROVE  MarkedInv'
  BY <1>37 DEF Nack, Release, End, Enter
<1>38. ASSUME NEW t \in Threads, Crash(t)
      PROVE  MarkedInv'
  BY <1>38 DEF Crash, Fault, Release, End, Enter
<1>39. ASSUME NEW t \in Threads, Abort(t)
      PROVE  MarkedInv'
  BY <1>39, CalmExcludes
<1>40. ASSUME NEW c \in Commands, NEW n \in Deliveries, Skip(c, n)
      PROVE  MarkedInv'
  BY <1>40 DEF Skip
<1>41. ASSUME NEW c \in Commands, NEW n \in Deliveries, BatchDies(c, n)
      PROVE  MarkedInv'
  BY <1>41 DEF BatchDies, Fault
<1>42. ASSUME NEW c \in Commands, LeaseExpires(c)
      PROVE  MarkedInv'
  BY <1>42 DEF LeaseExpires, Fault, Healthy
<1>43. ASSUME NEW c \in Commands, CallbackLeaseExpires(c)
      PROVE  MarkedInv'
  BY <1>43 DEF CallbackLeaseExpires, Fault, Healthy
<1>44. ASSUME NEW c \in Commands, BackoffElapses(c)
      PROVE  MarkedInv'
  BY <1>44 DEF BackoffElapses
<1>45. CASE UNCHANGED vars
  BY <1>45 DEF vars
<1>46. QED
  BY <1>1, <1>2, <1>3, <1>4, <1>5, <1>6, <1>7, <1>8, <1>9, <1>10, <1>11, <1>12, <1>13,
     <1>14, <1>15, <1>16, <1>17, <1>18, <1>19, <1>20, <1>21, <1>22, <1>23, <1>24, <1>25,
     <1>26, <1>27, <1>28, <1>29, <1>30, <1>31, <1>32, <1>33, <1>34, <1>35, <1>36, <1>37,
     <1>38, <1>39, <1>40, <1>41, <1>42, <1>43, <1>44, <1>45
     DEF Next, Start, Continue, Queueing, Executing, CallbackQueueing, CallbackExecuting

\* MarkedOnce for every number of commands, invocations, attempts and deliveries.
THEOREM MarkedActsOnce == ASSUME Calm PROVE Spec => []MarkedOnce
<1>1. Init => LeaseInv /\ MarkedInv
  BY CommandsAssumption DEF Init, LeaseInv, Working, Exclusive, MarkedInv, MarkedOnce
<1>2. MarkedInv => MarkedOnce
  BY DEF MarkedInv
<1>3. Timely
  BY CalmExcludes
<1>4. QED
  BY TypeCorrect, LeaseStep, MarkedStep, <1>1, <1>2, <1>3, PTL DEF Spec

-----------------------------------------------------------------------------
(* The outbox keeps its promise *)

\* A step after which every command is as far as before, and no provider has acted.
Stutter == UNCHANGED <<[c \in Commands |-> Phase(c)], posts>>

\* The phase of a command depends on its status alone.
LEMMA SamePhases ==
    ASSUME \A c \in Commands : Phase(c)' = Phase(c), UNCHANGED posts
    PROVE  Stutter
BY DEF Stutter

\* A step that settles, opens or reopens one command, as the promise sees it.
LEMMA PhaseMoves ==
    ASSUME NEW c \in Commands, NEW value,
           \A d \in Commands \ {c} : Phase(d)' = Phase(d), Phase(c)' = value
    PROVE  [d \in Commands |-> Phase(d)'] = [[d \in Commands |-> Phase(d)] EXCEPT ![c] = value]
OBVIOUS

\* Every step of the outbox is a step of the promise or a stutter.
LEMMA PromiseStep ==
    Calm /\ TypeOK /\ ReceiptInv /\ LeaseInv /\ MarkedInv /\ [Next]_vars
        => Promise!Next \/ Stutter
<1> SUFFICES ASSUME Calm, TypeOK, ReceiptInv, LeaseInv, MarkedInv, [Next]_vars
             PROVE  Promise!Next \/ Stutter
  OBVIOUS
<1> USE DEF outboxVars, callbackVars, productVars
<1>1. ASSUME NEW t \in Threads, NEW c \in Commands, Publish(t, c)
      PROVE  Promise!Next \/ Stutter
  <2>1. /\ status[c] = "absent" /\ status' = [status EXCEPT ![c] = "pending"]
        /\ UNCHANGED posts
    BY <1>1 DEF Publish
  <2>2. \A d \in Commands \ {c} : Phase(d)' = Phase(d)
    BY <2>1 DEF Phase
  <2>3. Phase(c) = "absent" /\ Phase(c)' = "open"
    BY <2>1 DEF Phase, TypeOK, Terminal, Refused, Sendable, Statuses
  <2>4. Promise!Accept(c)
    BY <2>1, <2>2, <2>3, PhaseMoves DEF Promise!Accept, Promise!Moves
  <2>5. QED
    BY <2>4 DEF Promise!Next
<1>2. ASSUME NEW t \in Threads, NEW c \in Commands, PublishDuplicate(t, c)
      PROVE  Promise!Next \/ Stutter
  <2>1. UNCHANGED <<status, posts>>
    BY <1>2 DEF PublishDuplicate, Enter
  <2>2. QED
    BY <2>1, SamePhases DEF Phase
<1>3. ASSUME NEW t \in Threads, StoreCallback(t)
      PROVE  Promise!Next \/ Stutter
  <2>1. UNCHANGED <<status, posts>>
    BY <1>3 DEF StoreCallback, Goto, End, Enter
  <2>2. QED
    BY <2>1, SamePhases DEF Phase
<1>4. ASSUME NEW t \in Threads, NEW c \in Commands, Send(t, c)
      PROVE  Promise!Next \/ Stutter
  <2>1. UNCHANGED <<status, posts>>
    BY <1>4 DEF Send, Takes
  <2>2. QED
    BY <2>1, SamePhases DEF Phase
<1>5. ASSUME NEW t \in Threads, NEW c \in Commands, SendFails(t, c)
      PROVE  Promise!Next \/ Stutter
  BY <1>5, CalmExcludes
<1>6. ASSUME NEW t \in Threads, Confirm(t)
      PROVE  Promise!Next \/ Stutter
  <2>1. /\ cur[t] \in Commands
        /\ status' = status \/ (status[cur[t]] \in Sendable /\ status' = [status EXCEPT ![cur[t]] = "queued"])
        /\ UNCHANGED posts
    BY <1>6 DEF Confirm, TypeOK, ThreadTypeOK, Between
  <2>2. \A c \in Commands : Phase(c)' = Phase(c)
    BY <2>1 DEF Phase, TypeOK, Terminal, Refused, Sendable, Statuses
  <2>3. QED
    BY <2>1, <2>2, SamePhases
<1>7. ASSUME NEW t \in Threads, ConfirmFails(t)
      PROVE  Promise!Next \/ Stutter
  BY <1>7, CalmExcludes
<1>8. ASSUME NEW t \in Threads, Demote(t)
      PROVE  Promise!Next \/ Stutter
  BY <1>8 DEF Demote, LeaseInv
<1>9. ASSUME NEW t \in Threads, SweepStale(t)
      PROVE  Promise!Next \/ Stutter
  <2>1. \A c \in Commands : status'[c] = status[c] \/ (status[c] = "processing" /\ status'[c] = "retrying")
    BY <1>9 DEF SweepStale, Reset, Stale
  <2>2. \A c \in Commands : Phase(c)' = Phase(c)
    BY <2>1 DEF Phase, Terminal, Refused, Sendable, Statuses
  <2>3. QED
    BY <1>9, <2>2, SamePhases DEF SweepStale
<1>10. ASSUME NEW t \in Threads, SweepSelect(t)
      PROVE  Promise!Next \/ Stutter
  <2>1. UNCHANGED <<status, posts>>
    BY <1>10 DEF SweepSelect, Loop, Enter, End
  <2>2. QED
    BY <2>1, SamePhases DEF Phase
<1>11. ASSUME NEW t \in Threads, NEW scope \in SUBSET Slack, Requeue(t, scope)
      PROVE  Promise!Next \/ Stutter
  <2>1. /\ Reopened(scope) \in SUBSET Slack /\ Reopened(scope) \subseteq Commands
        /\ \A c \in Reopened(scope) : status[c] \in Refused
    BY CommandsAssumption DEF Reopened
  <2>2. /\ \A c \in Commands : status'[c] = IF c \in Reopened(scope) THEN "pending" ELSE status[c]
        /\ UNCHANGED posts
    BY <1>11 DEF Requeue, Reset
  <2>3. \A c \in Reopened(scope) : Phase(c) \in Refused
    BY <2>1 DEF Phase, Terminal
  <2>4. \A c \in Commands : Phase(c)' = IF c \in Reopened(scope) THEN "open" ELSE Phase(c)
    BY <2>2 DEF Phase, Terminal, Refused, Sendable, Statuses
  <2>5. Promise!Reopen(Reopened(scope))
    BY <2>1, <2>2, <2>3, <2>4 DEF Promise!Reopen, Promise!Refusals, Refused
  <2>6. QED
    BY <2>1, <2>5 DEF Promise!Next
<1>12. ASSUME NEW t \in Threads, NEW c \in Commands, NEW n \in Deliveries, Claim(t, c, n)
      PROVE  Promise!Next \/ Stutter
  <2>1. /\ status[c] \in Sendable \cup {"queued"}
        /\ status' = [status EXCEPT ![c] = "processing"]
        /\ UNCHANGED posts
    BY <1>12 DEF Claim, Claimable
  <2>2. \A d \in Commands : Phase(d)' = Phase(d)
    BY <2>1 DEF Phase, TypeOK, Terminal, Refused, Sendable, Statuses
  <2>3. QED
    BY <2>1, <2>2, SamePhases
<1>13. ASSUME NEW t \in Threads, Lookup(t)
      PROVE  Promise!Next \/ Stutter
  <2>1. UNCHANGED <<status, posts>>
    BY <1>13 DEF Lookup, Goto, Returns
  <2>2. QED
    BY <2>1, SamePhases DEF Phase
<1>14. ASSUME NEW t \in Threads, LookupMisses(t)
      PROVE  Promise!Next \/ Stutter
  BY <1>14, CalmExcludes
<1>15. ASSUME NEW t \in Threads, Post(t)
      PROVE  Promise!Next \/ Stutter
  <2>1. /\ cur[t] \in Commands /\ Working(t, cur[t]) /\ pc[t] = "post"
        /\ posts' = [posts EXCEPT ![cur[t]] = @ + 1]
        /\ UNCHANGED status
    BY <1>15 DEF Post, Returns, Posted, Working, TypeOK, ThreadTypeOK, Between
  <2>2. status[cur[t]] = "processing" /\ (cur[t] \in Marked => posts[cur[t]] = 0)
    BY <2>1 DEF LeaseInv, MarkedInv
  <2>3. Phase(cur[t]) = "open" /\ \A c \in Commands : Phase(c)' = Phase(c)
    BY <2>1, <2>2 DEF Phase, Terminal, Refused
  <2>4. Promise!Act(cur[t])
    BY <2>1, <2>2, <2>3 DEF Promise!Act
  <2>5. QED
    BY <2>1, <2>4 DEF Promise!Next
<1>16. ASSUME NEW t \in Threads, PostUnconfirmed(t)
      PROVE  Promise!Next \/ Stutter
  <2>1. /\ cur[t] \in Commands /\ Working(t, cur[t]) /\ pc[t] = "post"
        /\ posts' = [posts EXCEPT ![cur[t]] = @ + 1]
        /\ UNCHANGED status
    BY <1>16 DEF PostUnconfirmed, Returns, Fault, Posted, Working, TypeOK, ThreadTypeOK, Between
  <2>2. status[cur[t]] = "processing" /\ (cur[t] \in Marked => posts[cur[t]] = 0)
    BY <2>1 DEF LeaseInv, MarkedInv
  <2>3. Phase(cur[t]) = "open" /\ \A c \in Commands : Phase(c)' = Phase(c)
    BY <2>1, <2>2 DEF Phase, Terminal, Refused
  <2>4. Promise!Act(cur[t])
    BY <2>1, <2>2, <2>3 DEF Promise!Act
  <2>5. QED
    BY <2>1, <2>4 DEF Promise!Next
<1>17. ASSUME NEW t \in Threads, HandlerFails(t)
      PROVE  Promise!Next \/ Stutter
  <2>1. UNCHANGED <<status, posts>>
    BY <1>17 DEF HandlerFails, Returns
  <2>2. QED
    BY <2>1, SamePhases DEF Phase
<1>18. ASSUME NEW t \in Threads, SettleDelivered(t)
      PROVE  Promise!Next \/ Stutter
  <2>1. PICK c \in Commands :
           /\ Working(t, c) /\ Backed(c)
           /\ status' = [status EXCEPT ![c] = "delivered"]
           /\ UNCHANGED posts
    BY <1>18 DEF SettleDelivered, Goto, Finish, Working, ReceiptInv, TypeOK, ThreadTypeOK, Between
  <2>2. status[c] = "processing"
    BY <2>1 DEF LeaseInv
  <2>3. /\ Phase(c) = "open" /\ Phase(c)' = "delivered"
        /\ \A d \in Commands \ {c} : Phase(d)' = Phase(d)
    BY <2>1, <2>2 DEF Phase, TypeOK, Terminal, Refused
  <2>4. Promise!Deliver(c)
    BY <2>1, <2>3, PhaseMoves DEF Promise!Deliver, Promise!Moves, Promise!Alike, Alike, Backed
  <2>5. QED
    BY <2>4 DEF Promise!Next
<1>19. ASSUME NEW t \in Threads, SettleRetrying(t)
      PROVE  Promise!Next \/ Stutter
  <2>1. /\ cur[t] \in Commands /\ Working(t, cur[t])
        /\ status' = [status EXCEPT ![cur[t]] = "retrying"]
        /\ UNCHANGED posts
    BY <1>19 DEF SettleRetrying, Working, TypeOK, ThreadTypeOK, Between
  <2>2. status[cur[t]] = "processing"
    BY <2>1 DEF LeaseInv
  <2>3. \A d \in Commands : Phase(d)' = Phase(d)
    BY <2>1, <2>2 DEF Phase, TypeOK, Terminal, Refused, Sendable, Statuses
  <2>4. QED
    BY <2>1, <2>3, SamePhases
<1>20. ASSUME NEW t \in Threads, SettleRefused(t)
      PROVE  Promise!Next \/ Stutter
  <2>1. PICK c \in Commands, refusal \in Refused :
           /\ Working(t, c)
           /\ status' = [status EXCEPT ![c] = refusal]
           /\ UNCHANGED posts
    BY <1>20 DEF SettleRefused, Outcome, Goto, Finish, Working, Refused, TypeOK, ThreadTypeOK, Between
  <2>2. status[c] = "processing"
    BY <2>1 DEF LeaseInv
  <2>3. /\ Phase(c) = "open" /\ Phase(c)' = refusal
        /\ \A d \in Commands \ {c} : Phase(d)' = Phase(d)
    BY <2>1, <2>2 DEF Phase, TypeOK, Terminal, Refused
  <2>4. Promise!Refuse(c)
    BY <2>1, <2>3, PhaseMoves DEF Promise!Refuse, Promise!Moves, Promise!Refusals, Refused
  <2>5. QED
    BY <2>4 DEF Promise!Next
<1>21. ASSUME NEW t \in Threads, SettleFails(t)
      PROVE  Promise!Next \/ Stutter
  BY <1>21, CalmExcludes
<1>22. ASSUME NEW t \in Threads, NEW c \in Commands, CallbackSelect(t, c)
      PROVE  Promise!Next \/ Stutter
  <2>1. UNCHANGED <<status, posts>>
    BY <1>22 DEF CallbackSelect, Takes, CallbackDone, Goto, NextRow, Loop, Enter, End
  <2>2. QED
    BY <2>1, SamePhases DEF Phase
<1>23. ASSUME NEW t \in Threads, CallbackSend(t)
      PROVE  Promise!Next \/ Stutter
  <2>1. UNCHANGED <<status, posts>>
    BY <1>23 DEF CallbackSend, Goto
  <2>2. QED
    BY <2>1, SamePhases DEF Phase
<1>24. ASSUME NEW t \in Threads, CallbackConfirm(t)
      PROVE  Promise!Next \/ Stutter
  <2>1. UNCHANGED <<status, posts>>
    BY <1>24 DEF CallbackConfirm, CallbackDone, Goto, NextRow, Loop, Enter, End
  <2>2. QED
    BY <2>1, SamePhases DEF Phase
<1>25. ASSUME NEW t \in Threads, CallbackSendFails(t)
      PROVE  Promise!Next \/ Stutter
  BY <1>25, CalmExcludes
<1>26. ASSUME NEW t \in Threads, CallbackNote(t)
      PROVE  Promise!Next \/ Stutter
  <2>1. UNCHANGED <<status, posts>>
    BY <1>26 DEF CallbackNote, CallbackDone, Goto, NextRow, Loop, Enter, End
  <2>2. QED
    BY <2>1, SamePhases DEF Phase
<1>27. ASSUME NEW t \in Threads, CallbackThrows(t)
      PROVE  Promise!Next \/ Stutter
  BY <1>27, CalmExcludes
<1>28. ASSUME NEW t \in Threads, NEW c \in Commands, NEW n \in Deliveries, ClaimCallback(t, c, n)
      PROVE  Promise!Next \/ Stutter
  <2>1. UNCHANGED <<status, posts>>
    BY <1>28 DEF ClaimCallback, Enter
  <2>2. QED
    BY <2>1, SamePhases DEF Phase
<1>29. ASSUME NEW t \in Threads, ReadReceipt(t)
      PROVE  Promise!Next \/ Stutter
  <2>1. UNCHANGED <<status, posts>>
    BY <1>29 DEF ReadReceipt, Returns
  <2>2. QED
    BY <2>1, SamePhases DEF Phase
<1>30. ASSUME NEW t \in Threads, Apply(t)
      PROVE  Promise!Next \/ Stutter
  <2>1. UNCHANGED <<status, posts>>
    BY <1>30 DEF Apply, Goto, Applied
  <2>2. QED
    BY <2>1, SamePhases DEF Phase
<1>31. ASSUME NEW t \in Threads, ApplyFails(t)
      PROVE  Promise!Next \/ Stutter
  <2>1. UNCHANGED <<status, posts>>
    BY <1>31 DEF ApplyFails, Returns, Applied
  <2>2. QED
    BY <2>1, SamePhases DEF Phase
<1>32. ASSUME NEW t \in Threads, CallbackSettle(t)
      PROVE  Promise!Next \/ Stutter
  <2>1. UNCHANGED <<status, posts>>
    BY <1>32 DEF CallbackSettle, Goto
  <2>2. QED
    BY <2>1, SamePhases DEF Phase
<1>33. ASSUME NEW t \in Threads, CallbackSettleFails(t)
      PROVE  Promise!Next \/ Stutter
  BY <1>33, CalmExcludes
<1>34. ASSUME NEW t \in Threads, CallbackSweepStale(t)
      PROVE  Promise!Next \/ Stutter
  <2>1. UNCHANGED <<status, posts>>
    BY <1>34 DEF CallbackSweepStale, Goto
  <2>2. QED
    BY <2>1, SamePhases DEF Phase
<1>35. ASSUME NEW t \in Threads, CallbackSweepScan(t)
      PROVE  Promise!Next \/ Stutter
  <2>1. UNCHANGED <<status, posts>>
    BY <1>35 DEF CallbackSweepScan, Loop, Enter, End
  <2>2. QED
    BY <2>1, SamePhases DEF Phase
<1>36. ASSUME NEW t \in Threads, Ack(t)
      PROVE  Promise!Next \/ Stutter
  <2>1. UNCHANGED <<status, posts>>
    BY <1>36 DEF Ack, End, Enter
  <2>2. QED
    BY <2>1, SamePhases DEF Phase
<1>37. ASSUME NEW t \in Threads, Nack(t)
      PROVE  Promise!Next \/ Stutter
  <2>1. UNCHANGED <<status, posts>>
    BY <1>37 DEF Nack, Release, End, Enter
  <2>2. QED
    BY <2>1, SamePhases DEF Phase
<1>38. ASSUME NEW t \in Threads, Crash(t)
      PROVE  Promise!Next \/ Stutter
  <2>1. UNCHANGED <<status, posts>>
    BY <1>38 DEF Crash, Fault, Release, End, Enter
  <2>2. QED
    BY <2>1, SamePhases DEF Phase
<1>39. ASSUME NEW t \in Threads, Abort(t)
      PROVE  Promise!Next \/ Stutter
  BY <1>39, CalmExcludes
<1>40. ASSUME NEW c \in Commands, NEW n \in Deliveries, Skip(c, n)
      PROVE  Promise!Next \/ Stutter
  <2>1. UNCHANGED <<status, posts>>
    BY <1>40 DEF Skip
  <2>2. QED
    BY <2>1, SamePhases DEF Phase
<1>41. ASSUME NEW c \in Commands, NEW n \in Deliveries, BatchDies(c, n)
      PROVE  Promise!Next \/ Stutter
  <2>1. UNCHANGED <<status, posts>>
    BY <1>41 DEF BatchDies, Fault
  <2>2. QED
    BY <2>1, SamePhases DEF Phase
<1>42. ASSUME NEW c \in Commands, LeaseExpires(c)
      PROVE  Promise!Next \/ Stutter
  <2>1. UNCHANGED <<status, posts>>
    BY <1>42 DEF LeaseExpires, Fault, Healthy
  <2>2. QED
    BY <2>1, SamePhases DEF Phase
<1>43. ASSUME NEW c \in Commands, CallbackLeaseExpires(c)
      PROVE  Promise!Next \/ Stutter
  <2>1. UNCHANGED <<status, posts>>
    BY <1>43 DEF CallbackLeaseExpires, Fault, Healthy
  <2>2. QED
    BY <2>1, SamePhases DEF Phase
<1>44. ASSUME NEW c \in Commands, BackoffElapses(c)
      PROVE  Promise!Next \/ Stutter
  <2>1. UNCHANGED <<status, posts>>
    BY <1>44 DEF BackoffElapses
  <2>2. QED
    BY <2>1, SamePhases DEF Phase
<1>45. CASE UNCHANGED vars
  BY <1>45, SamePhases DEF vars, Phase
<1>46. QED
  BY <1>1, <1>2, <1>3, <1>4, <1>5, <1>6, <1>7, <1>8, <1>9, <1>10, <1>11, <1>12, <1>13,
     <1>14, <1>15, <1>16, <1>17, <1>18, <1>19, <1>20, <1>21, <1>22, <1>23, <1>24, <1>25,
     <1>26, <1>27, <1>28, <1>29, <1>30, <1>31, <1>32, <1>33, <1>34, <1>35, <1>36, <1>37,
     <1>38, <1>39, <1>40, <1>41, <1>42, <1>43, <1>44, <1>45
     DEF Next, Start, Continue, Queueing, Executing, CallbackQueueing, CallbackExecuting

\* The outbox implements what TransportPromise states, under Calm.
THEOREM PromiseKept == ASSUME Calm PROVE Spec => KeepsPromise
<1>1. Init => Promise!Init
  BY DEF Init, Promise!Init, Phase
<1>2. Init => ReceiptInv /\ LeaseInv /\ MarkedInv
  <2> USE DEF Init, Terminal, Refused, Working
  <2>1. Init => ReceiptInv
    BY DEF ReceiptInv, DeliveredWasPosted
  <2>2. Init => LeaseInv
    BY DEF LeaseInv, Exclusive
  <2>3. Init => MarkedInv
    BY CommandsAssumption DEF MarkedInv, MarkedOnce
  <2>4. QED
    BY <2>1, <2>2, <2>3
<1>3. Spec => []TypeOK
  BY TypeCorrect
<1>4. Stutter => UNCHANGED <<[c \in Commands |-> Phase(c)], posts>>
  BY DEF Stutter
<1>5. Timely
  BY CalmExcludes
<1>6. QED
  BY <1>1, <1>2, <1>3, <1>4, <1>5, ReceiptStep, LeaseStep, MarkedStep, PromiseStep, PTL
     DEF Spec, KeepsPromise, Promise!Spec

-----------------------------------------------------------------------------
(* A completed callback has applied the outcome *)

\* What one step does to a row: no operator reopens a command that is not Slack's.
RowStep ==
    \A c \in Commands :
        /\ receipt'[c] = receipt[c] \/ status'[c] \in Terminal
        /\ c \notin Slack /\ status[c] \in Terminal =>
               status'[c] = status[c] /\ receipt'[c] = receipt[c]

\* Only a worker settles a row, and it works on a row that is being processed.
LEMMA RowsStay == Timely /\ TypeOK /\ LeaseInv /\ [Next]_vars => RowStep
<1> SUFFICES ASSUME Timely, TypeOK, LeaseInv, [Next]_vars
             PROVE  RowStep
  OBVIOUS
<1> USE DEF outboxVars, LeaseInv, Working, RowStep, TypeOK, ThreadTypeOK, Terminal, Refused,
            Sendable, Between
<1>1. ASSUME NEW t \in Threads, NEW c \in Commands, Publish(t, c)
      PROVE  RowStep
  BY <1>1 DEF Publish
<1>2. ASSUME NEW t \in Threads, NEW c \in Commands, PublishDuplicate(t, c)
      PROVE  RowStep
  BY <1>2 DEF PublishDuplicate
<1>3. ASSUME NEW t \in Threads, StoreCallback(t)
      PROVE  RowStep
  BY <1>3 DEF StoreCallback
<1>4. ASSUME NEW t \in Threads, NEW c \in Commands, Send(t, c)
      PROVE  RowStep
  BY <1>4 DEF Send
<1>5. ASSUME NEW t \in Threads, NEW c \in Commands, SendFails(t, c)
      PROVE  RowStep
  BY <1>5, TimelyExcludes
<1>6. ASSUME NEW t \in Threads, Confirm(t)
      PROVE  RowStep
  BY <1>6 DEF Confirm
<1>7. ASSUME NEW t \in Threads, ConfirmFails(t)
      PROVE  RowStep
  BY <1>7, TimelyExcludes
<1>8. ASSUME NEW t \in Threads, Demote(t)
      PROVE  RowStep
  BY <1>8 DEF Demote
<1>9. ASSUME NEW t \in Threads, SweepStale(t)
      PROVE  RowStep
  BY <1>9 DEF SweepStale, Reset, Stale
<1>10. ASSUME NEW t \in Threads, SweepSelect(t)
      PROVE  RowStep
  BY <1>10 DEF SweepSelect
<1>11. ASSUME NEW t \in Threads, NEW scope \in SUBSET Slack, Requeue(t, scope)
      PROVE  RowStep
  BY <1>11 DEF Requeue, Reset, Reopened
<1>12. ASSUME NEW t \in Threads, NEW c \in Commands, NEW n \in Deliveries, Claim(t, c, n)
      PROVE  RowStep
  BY <1>12 DEF Claim, Claimable
<1>13. ASSUME NEW t \in Threads, Lookup(t) \/ LookupMisses(t) \/ Post(t) \/ PostUnconfirmed(t) \/ HandlerFails(t)
      PROVE  RowStep
  BY <1>13 DEF Lookup, LookupMisses, Post, PostUnconfirmed, HandlerFails
<1>14. ASSUME NEW t \in Threads, SettleDelivered(t)
      PROVE  RowStep
  BY <1>14 DEF SettleDelivered, Finish
<1>15. ASSUME NEW t \in Threads, SettleRetrying(t)
      PROVE  RowStep
  BY <1>15 DEF SettleRetrying
<1>16. ASSUME NEW t \in Threads, SettleRefused(t)
      PROVE  RowStep
  BY <1>16 DEF SettleRefused, Outcome, Finish
<1>17. ASSUME NEW t \in Threads, SettleFails(t)
      PROVE  RowStep
  BY <1>17, TimelyExcludes
<1>18. ASSUME NEW t \in Threads, CallbackQueueing(t)
      PROVE  RowStep
  BY <1>18 DEF CallbackQueueing, CallbackSelect, CallbackSend,
          CallbackConfirm, CallbackSendFails, CallbackNote, CallbackThrows
<1>19. ASSUME NEW t \in Threads, NEW c \in Commands, NEW n \in Deliveries, ClaimCallback(t, c, n)
      PROVE  RowStep
  BY <1>19 DEF ClaimCallback
<1>20. ASSUME NEW t \in Threads, CallbackExecuting(t)
      PROVE  RowStep
  BY <1>20 DEF CallbackExecuting, ReadReceipt, Apply, ApplyFails,
          CallbackSettle, CallbackSettleFails
<1>21. ASSUME NEW t \in Threads, CallbackSweepStale(t) \/ CallbackSweepScan(t)
      PROVE  RowStep
  BY <1>21 DEF CallbackSweepStale, CallbackSweepScan
<1>22. ASSUME NEW t \in Threads, Ack(t) \/ Nack(t) \/ Crash(t) \/ Abort(t)
      PROVE  RowStep
  BY <1>22 DEF Ack, Nack, Crash, Abort
<1>23. ASSUME NEW c \in Commands, NEW n \in Deliveries, Skip(c, n) \/ BatchDies(c, n)
      PROVE  RowStep
  BY <1>23 DEF Skip, BatchDies
<1>24. ASSUME NEW c \in Commands, LeaseExpires(c) \/ CallbackLeaseExpires(c) \/ BackoffElapses(c)
      PROVE  RowStep
  BY <1>24 DEF LeaseExpires, CallbackLeaseExpires, BackoffElapses
<1>25. CASE UNCHANGED vars
  BY <1>25 DEF vars
<1>26. QED
  BY <1>1, <1>2, <1>3, <1>4, <1>5, <1>6, <1>7, <1>8, <1>9, <1>10, <1>11, <1>12, <1>13,
     <1>14, <1>15, <1>16, <1>17, <1>18, <1>19, <1>20, <1>21, <1>22, <1>23, <1>24,
     <1>25
     DEF Next, Start, Continue, Queueing, Executing, CallbackQueueing, CallbackExecuting

\* A callback belongs to a command that was published with one, whose receipt no step takes
\* back; the handler is given that receipt, and a callback that completes, or is about to,
\* has applied it.
AtCallback(t) ==
    /\ pc[t] \in {"store", "finalize", "apply", "cbSettle"} => cur[t] \in WithCallback
    /\ pc[t] = "apply" => receipt[cur[t]] # "none" /\ memo[t] = receipt[cur[t]]
    /\ pc[t] = "cbSettle" /\ memo[t] # "retryable" =>
           receipt[cur[t]] # "none" /\ applied[cur[t]] = receipt[cur[t]]

CallbackInv ==
    /\ \A c \in Commands : cbStatus[c] # "none" => c \in WithCallback
    /\ \A c \in WithCallback : receipt[c] # "none" => status[c] \in Terminal
    /\ \A c \in Commands : cbStatus[c] = "completed" =>
           receipt[c] # "none" /\ applied[c] = receipt[c]
    /\ \A t \in Threads : AtCallback(t)

\* The receipt of a command with a callback stays, and settles its row.
ReceiptsStay ==
    \A c \in WithCallback :
        /\ receipt[c] # "none" => receipt'[c] = receipt[c]
        /\ receipt'[c] # "none" => status'[c] \in Terminal

LEMMA ReceiptsOfCallbacks ==
    ASSUME CallbackInv, RowStep
    PROVE  ReceiptsStay
BY CommandsAssumption DEF CallbackInv, RowStep, ReceiptsStay

\* No callback comes into being or completes.
CallbacksKept ==
    \A c \in Commands :
        \/ cbStatus'[c] = cbStatus[c]
        \/ cbStatus[c] # "none" /\ cbStatus'[c] # "completed"

\* No invocation comes to store or to finalize a callback, or goes on doing so.
NobodyCalls ==
    \A u \in Threads :
        pc'[u] \in {"store", "finalize", "apply", "cbSettle"} =>
            pc'[u] = pc[u] /\ cur'[u] = cur[u] /\ memo'[u] = memo[u]

LEMMA CallbackFrame ==
    ASSUME TypeOK, CallbackInv, RowStep, applied' = applied, CallbacksKept, NobodyCalls
    PROVE  CallbackInv'
<1> USE CommandsAssumption
<1>1. ReceiptsStay
  BY ReceiptsOfCallbacks
<1>2. \A c \in Commands : cbStatus'[c] # "none" => cbStatus[c] # "none" /\ c \in WithCallback
  BY DEF CallbacksKept, CallbackInv
<1>3. \A c \in Commands : cbStatus'[c] = "completed" =>
          receipt'[c] # "none" /\ applied'[c] = receipt'[c]
  BY <1>1, <1>2 DEF CallbacksKept, CallbackInv, ReceiptsStay
<1>4. \A t \in Threads : AtCallback(t)'
  BY <1>1 DEF NobodyCalls, CallbackInv, AtCallback, ReceiptsStay
<1>5. QED
  BY <1>1, <1>2, <1>3, <1>4 DEF CallbackInv, ReceiptsStay

LEMMA CallbackPublish ==
    ASSUME TypeOK, CallbackInv, RowStep, NEW t \in Threads, NEW c \in Commands,
           Publish(t, c) \/ PublishDuplicate(t, c)
    PROVE  CallbackInv'
<1> USE CommandsAssumption
<1>1. /\ receipt' = receipt /\ cbStatus' = cbStatus /\ applied' = applied
      /\ pc' = [pc EXCEPT ![t] = pc'[t]] /\ pc'[t] \in {"store", "send"}
      /\ cur' = [cur EXCEPT ![t] = c]
      /\ pc'[t] = "store" => c \in WithCallback
      /\ \A u \in Threads \ {t} : memo'[u] = memo[u]
  BY DEF Publish, PublishDuplicate, Enter, TypeOK, ThreadTypeOK,
         outboxVars, callbackVars, productVars
<1>2. ReceiptsStay
  BY ReceiptsOfCallbacks
<1>3. \A u \in Threads : AtCallback(u)'
  BY <1>1 DEF CallbackInv, AtCallback, TypeOK, ThreadTypeOK
<1>4. QED
  BY <1>1, <1>2, <1>3 DEF CallbackInv, ReceiptsStay

LEMMA CallbackStore ==
    ASSUME TypeOK, CallbackInv, RowStep, NEW t \in Threads, StoreCallback(t)
    PROVE  CallbackInv'
<1> USE CommandsAssumption
<1>1. /\ pc[t] = "store" /\ cur[t] \in WithCallback
      /\ receipt' = receipt /\ status' = status /\ applied' = applied
      /\ cbStatus' = [cbStatus EXCEPT ![cur[t]] = cbStatus'[cur[t]]]
      /\ cbStatus'[cur[t]] \in {cbStatus[cur[t]], "pending"}
  BY DEF StoreCallback, CallbackInv, AtCallback, TypeOK, outboxVars, productVars
<1>2. NobodyCalls
  BY DEF StoreCallback, Goto, End, Enter, NobodyCalls, TypeOK, ThreadTypeOK
<1>3. \A u \in Threads : AtCallback(u)'
  BY <1>1, <1>2 DEF NobodyCalls, CallbackInv, AtCallback
<1>4. QED
  BY <1>1, <1>3 DEF CallbackInv, TypeOK

LEMMA CallbackClaim ==
    ASSUME TypeOK, CallbackInv, RowStep, NEW t \in Threads,
           NEW c \in Commands, NEW n \in Deliveries, ClaimCallback(t, c, n)
    PROVE  CallbackInv'
<1> USE CommandsAssumption
<1>1. /\ receipt' = receipt /\ status' = status /\ applied' = applied
      /\ cbStatus[c] # "none" /\ cbStatus' = [cbStatus EXCEPT ![c] = "processing"]
      /\ pc' = [pc EXCEPT ![t] = "finalize"] /\ cur' = [cur EXCEPT ![t] = c]
      /\ memo' = [memo EXCEPT ![t] = "none"]
  BY DEF ClaimCallback, Enter, outboxVars, productVars
<1>2. c \in WithCallback
  BY <1>1 DEF CallbackInv
<1>3. \A u \in Threads : AtCallback(u)'
  BY <1>1, <1>2 DEF CallbackInv, AtCallback, TypeOK, ThreadTypeOK
<1>4. QED
  BY <1>1, <1>3 DEF CallbackInv, TypeOK

LEMMA CallbackRead ==
    ASSUME TypeOK, CallbackInv, RowStep, NEW t \in Threads, ReadReceipt(t)
    PROVE  CallbackInv'
<1>1. /\ receipt' = receipt /\ status' = status /\ applied' = applied /\ cbStatus' = cbStatus
      /\ pc[t] = "finalize" /\ cur' = cur
  BY DEF ReadReceipt, Returns, outboxVars, callbackVars, productVars
<1>2. /\ \A u \in Threads \ {t} : pc'[u] = pc[u] /\ memo'[u] = memo[u]
      /\ \/ pc'[t] = "cbSettle" /\ memo'[t] = "retryable"
         \/ pc'[t] = "apply" /\ memo'[t] = receipt[cur[t]] /\ receipt[cur[t]] # "none"
  BY DEF ReadReceipt, Returns, TypeOK, ThreadTypeOK
<1>3. \A u \in Threads : AtCallback(u)'
  BY <1>1, <1>2 DEF CallbackInv, AtCallback
<1>4. QED
  BY <1>1, <1>3 DEF CallbackInv

\* Whoever applies, applies the receipt.
LEMMA CallbackApply ==
    ASSUME TypeOK, CallbackInv, RowStep, NEW t \in Threads, Apply(t) \/ ApplyFails(t)
    PROVE  CallbackInv'
<1> USE CommandsAssumption
<1>1. /\ receipt' = receipt /\ status' = status /\ cbStatus' = cbStatus
      /\ pc[t] = "apply" /\ pc'[t] = "cbSettle" /\ cur' = cur
      /\ memo[t] = receipt[cur[t]] /\ receipt[cur[t]] # "none" /\ cur[t] \in Commands
      /\ \A u \in Threads \ {t} : pc'[u] = pc[u] /\ memo'[u] = memo[u]
  BY DEF Apply, ApplyFails, Goto, Returns, CallbackInv, AtCallback, TypeOK, ThreadTypeOK,
         outboxVars, callbackVars
<1>2. \A c \in Commands : applied[c] = receipt[c] => applied'[c] = receipt[c]
  BY <1>1 DEF Apply, ApplyFails, Applied, TypeOK
<1>3. memo'[t] = "retryable" \/ applied'[cur[t]] = receipt[cur[t]]
  BY <1>1 DEF Apply, ApplyFails, Applied, Returns, TypeOK, ThreadTypeOK
<1>4. \A u \in Threads : AtCallback(u)'
  BY <1>1, <1>2, <1>3 DEF CallbackInv, AtCallback
<1>5. QED
  BY <1>1, <1>2, <1>4 DEF CallbackInv

LEMMA CallbackEnd ==
    ASSUME TypeOK, CallbackInv, RowStep, NEW t \in Threads, CallbackSettle(t)
    PROVE  CallbackInv'
<1> USE CommandsAssumption
<1>1. /\ receipt' = receipt /\ status' = status /\ applied' = applied
      /\ pc[t] = "cbSettle" /\ cur[t] \in WithCallback
      /\ cbStatus' = [cbStatus EXCEPT ![cur[t]] = cbStatus'[cur[t]]]
      /\ cbStatus'[cur[t]] = "pending" \/ (memo[t] # "retryable" /\ cbStatus'[cur[t]] = "completed")
  BY DEF CallbackSettle, CallbackInv, AtCallback, TypeOK, outboxVars, productVars
<1>2. NobodyCalls
  BY DEF CallbackSettle, Goto, NobodyCalls, TypeOK, ThreadTypeOK
<1>3. \A u \in Threads : AtCallback(u)'
  BY <1>1, <1>2 DEF NobodyCalls, CallbackInv, AtCallback
<1>4. cbStatus'[cur[t]] = "completed" =>
          receipt[cur[t]] # "none" /\ applied[cur[t]] = receipt[cur[t]]
  BY <1>1 DEF CallbackInv, AtCallback
<1>5. QED
  BY <1>1, <1>3, <1>4 DEF CallbackInv, TypeOK

\* No step breaks the inductive invariant.
LEMMA CallbackStep == Timely /\ TypeOK /\ LeaseInv /\ CallbackInv /\ [Next]_vars => CallbackInv'
<1> SUFFICES ASSUME Timely, TypeOK, LeaseInv, CallbackInv, [Next]_vars, RowStep
             PROVE  CallbackInv'
  BY RowsStay
<1> USE DEF outboxVars, callbackVars, productVars, threadVars, TypeOK, ThreadTypeOK
<1>1. ASSUME NEW t \in Threads, NEW c \in Commands, Publish(t, c) \/ PublishDuplicate(t, c)
      PROVE  CallbackInv'
  BY <1>1, CallbackPublish
<1>2. ASSUME NEW t \in Threads, StoreCallback(t)
      PROVE  CallbackInv'
  BY <1>2, CallbackStore
<1>3. ASSUME NEW t \in Threads, NEW c \in Commands, Send(t, c)
      PROVE  CallbackInv'
  <2>1. applied' = applied /\ CallbacksKept
    BY <1>3 DEF CallbacksKept, Send
  <2>2. NobodyCalls
    BY <1>3 DEF NobodyCalls, Send, Takes
  <2>3. QED
    BY <2>1, <2>2, CallbackFrame
<1>4. ASSUME NEW t \in Threads, NEW c \in Commands, SendFails(t, c)
      PROVE  CallbackInv'
  BY <1>4, TimelyExcludes
<1>5. ASSUME NEW t \in Threads, Confirm(t)
      PROVE  CallbackInv'
  <2>1. applied' = applied /\ CallbacksKept
    BY <1>5 DEF CallbacksKept, Confirm
  <2>2. NobodyCalls
    BY <1>5 DEF NobodyCalls, Confirm, NextRow, Loop, Enter, End
  <2>3. QED
    BY <2>1, <2>2, CallbackFrame
<1>6. ASSUME NEW t \in Threads, ConfirmFails(t)
      PROVE  CallbackInv'
  BY <1>6, TimelyExcludes
<1>7. ASSUME NEW t \in Threads, Demote(t)
      PROVE  CallbackInv'
  <2>1. applied' = applied /\ CallbacksKept
    BY <1>7 DEF CallbacksKept, Demote
  <2>2. NobodyCalls
    BY <1>7 DEF NobodyCalls, Demote, NextRow, Loop, Enter, End
  <2>3. QED
    BY <2>1, <2>2, CallbackFrame
<1>8. ASSUME NEW t \in Threads, SweepStale(t)
      PROVE  CallbackInv'
  <2>1. applied' = applied /\ CallbacksKept
    BY <1>8 DEF CallbacksKept, SweepStale
  <2>2. NobodyCalls
    BY <1>8 DEF NobodyCalls, SweepStale, Goto
  <2>3. QED
    BY <2>1, <2>2, CallbackFrame
<1>9. ASSUME NEW t \in Threads, SweepSelect(t)
      PROVE  CallbackInv'
  <2>1. applied' = applied /\ CallbacksKept
    BY <1>9 DEF CallbacksKept, SweepSelect
  <2>2. NobodyCalls
    BY <1>9 DEF NobodyCalls, SweepSelect, NextRow, Loop, Enter, End
  <2>3. QED
    BY <2>1, <2>2, CallbackFrame
<1>10. ASSUME NEW t \in Threads, NEW scope \in SUBSET Slack, Requeue(t, scope)
      PROVE  CallbackInv'
  <2>1. applied' = applied /\ CallbacksKept
    BY <1>10 DEF CallbacksKept, Requeue
  <2>2. NobodyCalls
    BY <1>10 DEF NobodyCalls, Requeue, NextRow, Loop, Enter, End
  <2>3. QED
    BY <2>1, <2>2, CallbackFrame
<1>11. ASSUME NEW t \in Threads, NEW c \in Commands, NEW n \in Deliveries, Claim(t, c, n)
      PROVE  CallbackInv'
  <2>1. applied' = applied /\ CallbacksKept
    BY <1>11 DEF CallbacksKept, Claim
  <2>2. NobodyCalls
    BY <1>11 DEF NobodyCalls, Claim, Enter
  <2>3. QED
    BY <2>1, <2>2, CallbackFrame
<1>12. ASSUME NEW t \in Threads, Lookup(t)
      PROVE  CallbackInv'
  <2>1. applied' = applied /\ CallbacksKept
    BY <1>12 DEF CallbacksKept, Lookup
  <2>2. NobodyCalls
    BY <1>12 DEF NobodyCalls, Lookup, Goto, Returns
  <2>3. QED
    BY <2>1, <2>2, CallbackFrame
<1>13. ASSUME NEW t \in Threads, LookupMisses(t)
      PROVE  CallbackInv'
  <2>1. applied' = applied /\ CallbacksKept
    BY <1>13 DEF CallbacksKept, LookupMisses
  <2>2. NobodyCalls
    BY <1>13 DEF NobodyCalls, LookupMisses, Goto
  <2>3. QED
    BY <2>1, <2>2, CallbackFrame
<1>14. ASSUME NEW t \in Threads, Post(t) \/ PostUnconfirmed(t) \/ HandlerFails(t)
      PROVE  CallbackInv'
  <2>1. applied' = applied /\ CallbacksKept
    BY <1>14 DEF CallbacksKept, Post, PostUnconfirmed, HandlerFails
  <2>2. NobodyCalls
    BY <1>14 DEF NobodyCalls, Post, PostUnconfirmed, HandlerFails, Returns
  <2>3. QED
    BY <2>1, <2>2, CallbackFrame
<1>15. ASSUME NEW t \in Threads, SettleDelivered(t) \/ SettleRetrying(t) \/ SettleRefused(t)
      PROVE  CallbackInv'
  <2>1. applied' = applied /\ CallbacksKept
    BY <1>15 DEF CallbacksKept, SettleDelivered, SettleRetrying, SettleRefused
  <2>2. NobodyCalls
    BY <1>15 DEF NobodyCalls, SettleDelivered, SettleRetrying, SettleRefused, Goto
  <2>3. QED
    BY <2>1, <2>2, CallbackFrame
<1>16. ASSUME NEW t \in Threads, SettleFails(t)
      PROVE  CallbackInv'
  BY <1>16, TimelyExcludes
<1>17. ASSUME NEW t \in Threads, NEW c \in Commands, CallbackSelect(t, c)
      PROVE  CallbackInv'
  <2>1. applied' = applied /\ CallbacksKept
    BY <1>17 DEF CallbacksKept, CallbackSelect
  <2>2. NobodyCalls
    BY <1>17 DEF NobodyCalls, CallbackSelect, Takes, CallbackDone, Goto, NextRow, Loop, Enter, End
  <2>3. QED
    BY <2>1, <2>2, CallbackFrame
<1>18. ASSUME NEW t \in Threads, CallbackSend(t)
      PROVE  CallbackInv'
  <2>1. applied' = applied /\ CallbacksKept
    BY <1>18 DEF CallbacksKept, CallbackSend
  <2>2. NobodyCalls
    BY <1>18 DEF NobodyCalls, CallbackSend, Goto
  <2>3. QED
    BY <2>1, <2>2, CallbackFrame
<1>19. ASSUME NEW t \in Threads, CallbackConfirm(t)
      PROVE  CallbackInv'
  <2>1. applied' = applied /\ CallbacksKept
    BY <1>19 DEF CallbacksKept, CallbackConfirm
  <2>2. NobodyCalls
    BY <1>19 DEF NobodyCalls, CallbackConfirm, CallbackDone, Goto, NextRow, Loop, Enter, End
  <2>3. QED
    BY <2>1, <2>2, CallbackFrame
<1>20. ASSUME NEW t \in Threads, CallbackNote(t)
      PROVE  CallbackInv'
  <2>1. applied' = applied /\ CallbacksKept
    BY <1>20 DEF CallbacksKept, CallbackNote
  <2>2. NobodyCalls
    BY <1>20 DEF NobodyCalls, CallbackNote, CallbackDone, Goto, NextRow, Loop, Enter, End
  <2>3. QED
    BY <2>1, <2>2, CallbackFrame
<1>21. ASSUME NEW t \in Threads, CallbackSendFails(t) \/ CallbackThrows(t)
      PROVE  CallbackInv'
  BY <1>21, TimelyExcludes
<1>22. ASSUME NEW t \in Threads, NEW c \in Commands, NEW n \in Deliveries, ClaimCallback(t, c, n)
      PROVE  CallbackInv'
  BY <1>22, CallbackClaim
<1>23. ASSUME NEW t \in Threads, ReadReceipt(t)
      PROVE  CallbackInv'
  BY <1>23, CallbackRead
<1>24. ASSUME NEW t \in Threads, Apply(t) \/ ApplyFails(t)
      PROVE  CallbackInv'
  BY <1>24, CallbackApply
<1>25. ASSUME NEW t \in Threads, CallbackSettle(t)
      PROVE  CallbackInv'
  BY <1>25, CallbackEnd
<1>26. ASSUME NEW t \in Threads, CallbackSettleFails(t)
      PROVE  CallbackInv'
  BY <1>26, TimelyExcludes
<1>27. ASSUME NEW t \in Threads, CallbackSweepStale(t)
      PROVE  CallbackInv'
  <2>1. applied' = applied /\ CallbacksKept
    BY <1>27 DEF CallbacksKept, CallbackSweepStale, CallbackStale
  <2>2. NobodyCalls
    BY <1>27 DEF NobodyCalls, CallbackSweepStale, Goto
  <2>3. QED
    BY <2>1, <2>2, CallbackFrame
<1>28. ASSUME NEW t \in Threads, CallbackSweepScan(t)
      PROVE  CallbackInv'
  <2>1. applied' = applied /\ CallbacksKept
    BY <1>28 DEF CallbacksKept, CallbackSweepScan
  <2>2. NobodyCalls
    BY <1>28 DEF NobodyCalls, CallbackSweepScan, NextRow, Loop, Enter, End
  <2>3. QED
    BY <2>1, <2>2, CallbackFrame
<1>29. ASSUME NEW t \in Threads, Ack(t) \/ Nack(t) \/ Crash(t)
      PROVE  CallbackInv'
  <2>1. applied' = applied /\ CallbacksKept
    BY <1>29 DEF CallbacksKept, Ack, Nack, Crash
  <2>2. NobodyCalls
    BY <1>29 DEF NobodyCalls, Ack, Nack, Crash, Release, Enter, End
  <2>3. QED
    BY <2>1, <2>2, CallbackFrame
<1>30. ASSUME NEW t \in Threads, Abort(t)
      PROVE  CallbackInv'
  BY <1>30, TimelyExcludes
<1>31. ASSUME NEW c \in Commands, NEW n \in Deliveries, Skip(c, n) \/ BatchDies(c, n)
      PROVE  CallbackInv'
  <2>1. applied' = applied /\ CallbacksKept
    BY <1>31 DEF CallbacksKept, Skip, BatchDies
  <2>2. NobodyCalls
    BY <1>31 DEF NobodyCalls, Skip, BatchDies
  <2>3. QED
    BY <2>1, <2>2, CallbackFrame
<1>32. ASSUME NEW c \in Commands, LeaseExpires(c) \/ CallbackLeaseExpires(c) \/ BackoffElapses(c)
      PROVE  CallbackInv'
  <2>1. applied' = applied /\ CallbacksKept
    BY <1>32 DEF CallbacksKept, LeaseExpires, CallbackLeaseExpires, BackoffElapses
  <2>2. NobodyCalls
    BY <1>32 DEF NobodyCalls, LeaseExpires, CallbackLeaseExpires, BackoffElapses
  <2>3. QED
    BY <2>1, <2>2, CallbackFrame
<1>33. CASE UNCHANGED vars
  BY <1>33, CallbackFrame DEF vars, CallbacksKept, NobodyCalls
<1>34. QED
  BY <1>1, <1>2, <1>3, <1>4, <1>5, <1>6, <1>7, <1>8, <1>9, <1>10, <1>11, <1>12, <1>13,
     <1>14, <1>15, <1>16, <1>17, <1>18, <1>19, <1>20, <1>21, <1>22, <1>23, <1>24,
     <1>25, <1>26, <1>27, <1>28, <1>29, <1>30, <1>31, <1>32, <1>33
     DEF Next, Start, Continue, Queueing, Executing, CallbackQueueing, CallbackExecuting

\* A completed callback has applied the outcome its command ended with
\* (executeTransportCallback), for every number of commands, invocations and attempts.
THEOREM CallbacksApplyTheOutcome == ASSUME Timely PROVE Spec => []CompletedAppliedTheOutcome
<1>1. Init => LeaseInv /\ ReceiptInv /\ CallbackInv
  <2>1. Init => LeaseInv
    BY DEF Init, LeaseInv, Working, Exclusive
  <2>2. Init => ReceiptInv
    BY DEF Init, ReceiptInv, DeliveredWasPosted, Terminal, Refused
  <2>3. Init => CallbackInv
    BY CommandsAssumption DEF Init, CallbackInv, AtCallback
  <2>4. QED
    BY <2>1, <2>2, <2>3
<1>2. ReceiptInv /\ CallbackInv => CompletedAppliedTheOutcome
  BY DEF ReceiptInv, DeliveredWasPosted, CallbackInv, CompletedAppliedTheOutcome
<1>3. QED
  BY TypeCorrect, LeaseStep, ReceiptStep, CallbackStep, <1>1, <1>2, PTL DEF Spec
=============================================================================
