----------------------- MODULE TransportOutboxProofs -----------------------
(* Theorems about TransportOutbox, for every value of its constants and in every environment, *)
(* whatever faults it is given: types, receipts, and the budget of attempts.                 *)
EXTENDS TransportOutbox, TaskQueueProofs, FiniteSets, FiniteSetTheorems

-----------------------------------------------------------------------------
(* Types *)

\* What an invocation was started with, taken apart.
LEMMA JobFields ==
    ASSUME TypeOK, NEW t \in Threads
    PROVE  /\ job[t].todo \in SUBSET Commands
           /\ job[t].kind \in Kinds \cup {"none"}
           /\ job[t].n \in Deliveries
           /\ memo[t] \in Memos
           /\ pc[t] \notin Between \/ job[t].kind # "none" => cur[t] \in Commands
BY DEF TypeOK, ThreadTypeOK, Job

\* Every job an invocation is started with is one.
LEMMA JobsTyped ==
    /\ \A todo \in SUBSET Commands : Rows(todo) \in Job
    /\ \A todo \in SUBSET Commands : Rows(todo).kind = "none"
    /\ NoJob \in Job
    /\ NoJob.kind = "none"
    /\ \A c \in Commands, kind \in Kinds, n \in Deliveries, exhausted \in BOOLEAN :
          [todo |-> {c}, kind |-> kind, n |-> n, exhausted |-> exhausted] \in Job
BY MaxDeliveriesAssumption DEF Rows, NoJob, Job, Deliveries, Kinds

\* A kind and a command make a task.
LEMMA TasksTyped == \A kind \in Kinds, c \in Commands : <<kind, c>> \in Tasks
BY DEF Tasks

\* Counting one more provider action keeps the counts natural numbers.
LEMMA PostedTyped ==
    ASSUME TypeOK, NEW t \in Threads, Posted(t)
    PROVE  posts' \in [Commands -> Nat]
<1>1. CASE cur[t] \in Commands
  BY <1>1 DEF TypeOK, Posted
<1>2. CASE cur[t] \notin Commands
  BY <1>2 DEF TypeOK, Posted
<1>3. QED
  BY <1>1, <1>2

\* A loop over commands, empty or not, leaves a well-typed invocation.
LEMMA LoopTyped ==
    ASSUME TypeOK, NEW t \in Threads, NEW label \in Between, NEW rows \in SUBSET Commands,
           Loop(t, label, rows)
    PROVE  ThreadTypeOK'
BY JobsTyped, SMTT(30) DEF TypeOK, ThreadTypeOK, Loop, End, Enter, Labels, Between, Memos, Receipts

\* So does going on to the next row,
LEMMA NextRowTyped ==
    ASSUME TypeOK, NEW t \in Threads, NEW label \in Between, NEW c,
           NextRow(t, label, c)
    PROVE  ThreadTypeOK'
BY JobFields, LoopTyped DEF NextRow

\* and leaving the loop over callbacks for the message that is held.
LEMMA CallbackDoneTyped ==
    ASSUME TypeOK, NEW t \in Threads, NEW c, CallbackDone(t, c)
    PROVE  ThreadTypeOK'
BY NextRowTyped DEF CallbackDone, Goto, TypeOK, ThreadTypeOK, Labels, Between

\* The type invariant is inductive.
THEOREM TypeCorrect == Spec => []TypeOK
<1> USE CommandsAssumption, LimitsAssumption, JobsTyped
    DEF TypeOK, ThreadTypeOK, Statuses, Receipts, Leases, Terminal, Refused, Sendable,
        CallbackStatuses, Labels, Between, Memos
<1>1. Init => TypeOK
  BY HoldsEmpty DEF Init
<1>2. TypeOK /\ [Next]_vars => TypeOK'
  <2> SUFFICES ASSUME TypeOK, [Next]_vars
               PROVE  TypeOK'
    OBVIOUS
  <2> USE DEF outboxVars, callbackVars, productVars, threadVars
  <2>1. ASSUME NEW t \in Threads, NEW c \in Commands, Publish(t, c)
        PROVE  TypeOK'
    BY <2>1 DEF Publish, Enter
  <2>2. ASSUME NEW t \in Threads, NEW c \in Commands, PublishDuplicate(t, c)
        PROVE  TypeOK'
    BY <2>2 DEF PublishDuplicate, Enter
  <2>3. ASSUME NEW t \in Threads, StoreCallback(t)
        PROVE  TypeOK'
    BY <2>3, JobsTyped DEF StoreCallback, Goto, Enter, End
  <2>4. ASSUME NEW t \in Threads, NEW c \in Commands, Send(t, c)
        PROVE  TypeOK'
    BY <2>4, SentTyped, JobFields DEF Send, Takes
  <2>5. ASSUME NEW t \in Threads, NEW c \in Commands, SendFails(t, c)
        PROVE  TypeOK'
    BY <2>5 DEF SendFails, Takes, Fault
  <2>6. ASSUME NEW t \in Threads, Confirm(t)
        PROVE  TypeOK'
    <3>1. ThreadTypeOK'
      BY <2>6, NextRowTyped DEF Confirm
    <3>2. status' \in [Commands -> Statuses] /\ backoff' \in [Commands -> BOOLEAN]
      <4>1. CASE status[cur[t]] \in Sendable
        <5>1. /\ status' = [status EXCEPT ![cur[t]] = "queued"]
              /\ backoff' = [backoff EXCEPT ![cur[t]] = FALSE]
          BY <2>6, <4>1 DEF Confirm
        <5>2. QED
          BY <5>1
      <4>2. CASE status[cur[t]] \notin Sendable
        BY <2>6, <4>2 DEF Confirm
      <4>3. QED
        BY <4>1, <4>2
    <3>3. QED
      BY <2>6, <3>1, <3>2 DEF Confirm
  <2>7. ASSUME NEW t \in Threads, ConfirmFails(t)
        PROVE  TypeOK'
    BY <2>7 DEF ConfirmFails, Goto, Fault
  <2>8. ASSUME NEW t \in Threads, Demote(t)
        PROVE  TypeOK'
    BY <2>8, NextRowTyped DEF Demote
  <2>9. ASSUME NEW t \in Threads, SweepStale(t)
        PROVE  TypeOK'
    BY <2>9 DEF SweepStale, Goto, Reset, Stale
  <2>10. ASSUME NEW t \in Threads, SweepSelect(t)
        PROVE  TypeOK'
    BY <2>10, LoopTyped DEF SweepSelect
  <2>11. ASSUME NEW t \in Threads, NEW scope \in SUBSET Slack, Requeue(t, scope)
        PROVE  TypeOK'
    <3>1. Reopened(scope) \in SUBSET Commands
      BY CommandsAssumption DEF Reopened
    <3>2. /\ status' \in [Commands -> Statuses]
          /\ backoff' \in [Commands -> BOOLEAN]
          /\ lease' \in [Commands -> Leases]
      BY <2>11 DEF Requeue, Reset
    <3>3. ThreadTypeOK'
      BY <2>11, <3>1, LoopTyped DEF Requeue
    <3>4. QED
      BY <2>11, <3>2, <3>3 DEF Requeue, Reset
  <2>12. ASSUME NEW t \in Threads, NEW c \in Commands, NEW n \in Deliveries, Claim(t, c, n)
        PROVE  TypeOK'
    <3>1. queue' \in Queues(Tasks)
      BY <2>12, TakenTyped, TasksTyped DEF Claim, Kinds
    <3>2. ThreadTypeOK'
      <4>1. Exhausted(attempts[c] + 1) \in BOOLEAN
        BY DEF Exhausted
      <4>2. QED
        BY <2>12, <4>1 DEF Claim, Enter, Kinds
    <3>3. QED
      BY <2>12, <3>1, <3>2 DEF Claim
  <2>13. ASSUME NEW t \in Threads, Lookup(t)
        PROVE  TypeOK'
    BY <2>13 DEF Lookup, Goto, Returns
  <2>14. ASSUME NEW t \in Threads, LookupMisses(t)
        PROVE  TypeOK'
    BY <2>14 DEF LookupMisses, Goto, Fault
  <2>15. ASSUME NEW t \in Threads, Post(t)
        PROVE  TypeOK'
    BY <2>15, PostedTyped DEF Post, Returns
  <2>16. ASSUME NEW t \in Threads, PostUnconfirmed(t)
        PROVE  TypeOK'
    BY <2>16, PostedTyped DEF PostUnconfirmed, Returns, Fault
  <2>17. ASSUME NEW t \in Threads, HandlerFails(t)
        PROVE  TypeOK'
    BY <2>17 DEF HandlerFails, Returns
  <2>18. ASSUME NEW t \in Threads, SettleDelivered(t)
        PROVE  TypeOK'
    BY <2>18 DEF SettleDelivered, Goto, Finish
  <2>19. ASSUME NEW t \in Threads, SettleRetrying(t)
        PROVE  TypeOK'
    BY <2>19 DEF SettleRetrying, Goto
  <2>20. ASSUME NEW t \in Threads, SettleRefused(t)
        PROVE  TypeOK'
    BY <2>20 DEF SettleRefused, Outcome, Goto, Finish
  <2>21. ASSUME NEW t \in Threads, SettleFails(t)
        PROVE  TypeOK'
    BY <2>21 DEF SettleFails, Fault, Throw, Goto, Returns
  <2>22. ASSUME NEW t \in Threads, NEW c \in Commands, CallbackSelect(t, c)
        PROVE  TypeOK'
    <3>1. CASE cbStatus[c] = "pending"
      BY <2>22, <3>1 DEF CallbackSelect, Takes
    <3>2. CASE cbStatus[c] # "pending"
      BY <2>22, <3>2, CallbackDoneTyped DEF CallbackSelect
    <3>3. QED
      BY <3>1, <3>2
  <2>23. ASSUME NEW t \in Threads, CallbackSend(t)
        PROVE  TypeOK'
    BY <2>23, SentTyped DEF CallbackSend, Goto
  <2>24. ASSUME NEW t \in Threads, CallbackConfirm(t)
        PROVE  TypeOK'
    BY <2>24, CallbackDoneTyped DEF CallbackConfirm
  <2>25. ASSUME NEW t \in Threads, CallbackSendFails(t)
        PROVE  TypeOK'
    BY <2>25 DEF CallbackSendFails, Goto, Fault
  <2>26. ASSUME NEW t \in Threads, CallbackNote(t)
        PROVE  TypeOK'
    BY <2>26, CallbackDoneTyped DEF CallbackNote
  <2>27. ASSUME NEW t \in Threads, CallbackThrows(t)
        PROVE  TypeOK'
    <3>1. CASE job[t].kind = "none"
      BY <2>27, <3>1 DEF CallbackThrows, End, Fault, Enter
    <3>2. CASE job[t].kind # "none"
      BY <2>27, <3>2 DEF CallbackThrows, Fault, Throw, Goto, Returns
    <3>3. QED
      BY <3>1, <3>2
  <2>28. ASSUME NEW t \in Threads, NEW c \in Commands, NEW n \in Deliveries, ClaimCallback(t, c, n)
        PROVE  TypeOK'
    <3>1. queue' \in Queues(Tasks)
      BY <2>28, TakenTyped, TasksTyped DEF ClaimCallback, Kinds
    <3>2. ThreadTypeOK'
      BY <2>28 DEF ClaimCallback, Enter, Kinds
    <3>3. QED
      BY <2>28, <3>1, <3>2 DEF ClaimCallback
  <2>29. ASSUME NEW t \in Threads, ReadReceipt(t)
        PROVE  TypeOK'
    BY <2>29 DEF ReadReceipt, Returns
  <2>30. ASSUME NEW t \in Threads, Apply(t)
        PROVE  TypeOK'
    BY <2>30 DEF Apply, Goto, Applied
  <2>31. ASSUME NEW t \in Threads, ApplyFails(t)
        PROVE  TypeOK'
    BY <2>31 DEF ApplyFails, Returns, Applied
  <2>32. ASSUME NEW t \in Threads, CallbackSettle(t)
        PROVE  TypeOK'
    BY <2>32 DEF CallbackSettle, Goto
  <2>33. ASSUME NEW t \in Threads, CallbackSettleFails(t)
        PROVE  TypeOK'
    BY <2>33 DEF CallbackSettleFails, Goto, Returns, Fault
  <2>34. ASSUME NEW t \in Threads, CallbackSweepStale(t)
        PROVE  TypeOK'
    BY <2>34 DEF CallbackSweepStale, Goto
  <2>35. ASSUME NEW t \in Threads, CallbackSweepScan(t)
        PROVE  TypeOK'
    BY <2>35, LoopTyped DEF CallbackSweepScan
  <2>36. ASSUME NEW t \in Threads, Ack(t)
        PROVE  TypeOK'
    BY <2>36 DEF Ack, End, Enter
  <2>37. ASSUME NEW t \in Threads, Nack(t)
        PROVE  TypeOK'
    BY <2>37, ReturnedTyped, JobFields DEF Nack, Release, End, Enter
  <2>38. ASSUME NEW t \in Threads, Crash(t)
        PROVE  TypeOK'
    BY <2>38, ReturnedTyped, JobFields DEF Crash, Release, End, Enter, Fault
  <2>39. ASSUME NEW t \in Threads, Abort(t)
        PROVE  TypeOK'
    BY <2>39 DEF Abort, End, Fault, Enter
  <2>40. ASSUME NEW c \in Commands, NEW n \in Deliveries, Skip(c, n)
        PROVE  TypeOK'
    BY <2>40, TakenTyped, TasksTyped DEF Skip
  <2>41. ASSUME NEW c \in Commands, NEW n \in Deliveries, BatchDies(c, n)
        PROVE  TypeOK'
    BY <2>41, TakenTyped, ReturnedTyped, TasksTyped DEF BatchDies, Fault
  <2>42. ASSUME NEW c \in Commands, LeaseExpires(c)
        PROVE  TypeOK'
    BY <2>42 DEF LeaseExpires, Fault, Healthy
  <2>43. ASSUME NEW c \in Commands, CallbackLeaseExpires(c)
        PROVE  TypeOK'
    BY <2>43 DEF CallbackLeaseExpires, Fault, Healthy
  <2>44. ASSUME NEW c \in Commands, BackoffElapses(c)
        PROVE  TypeOK'
    BY <2>44 DEF BackoffElapses
  <2>45. CASE UNCHANGED vars
    BY <2>45 DEF vars
  <2>46. QED
    BY <2>1, <2>2, <2>3, <2>4, <2>5, <2>6, <2>7, <2>8, <2>9, <2>10, <2>11, <2>12, <2>13,
       <2>14, <2>15, <2>16, <2>17, <2>18, <2>19, <2>20, <2>21, <2>22, <2>23, <2>24, <2>25,
       <2>26, <2>27, <2>28, <2>29, <2>30, <2>31, <2>32, <2>33, <2>34, <2>35, <2>36, <2>37,
       <2>38, <2>39, <2>40, <2>41, <2>42, <2>43, <2>44, <2>45
       DEF Next, Start, Continue, Queueing, Executing, CallbackQueueing, CallbackExecuting
<1>3. QED
  BY <1>1, <1>2, PTL DEF Spec

-----------------------------------------------------------------------------
(* A delivery is backed by a provider action *)

\* A command is one of those that carry its marker.
LEMMA OwnMarker == \A c \in Commands : c \in Alike(c) /\ Alike(c) \subseteq Commands
BY CommandsAssumption DEF Alike

\* An executor settles a delivery only after the provider has acted.
ReceiptInv ==
    /\ DeliveredWasPosted
    /\ \A t \in Threads :
           pc[t] = "settle" /\ memo[t] = "delivered" => Backed(cur[t])

\* No step breaks the inductive invariant.
LEMMA ReceiptStep == TypeOK /\ ReceiptInv /\ [Next]_vars => ReceiptInv'
<1> SUFFICES ASSUME TypeOK, ReceiptInv, [Next]_vars
             PROVE  ReceiptInv'
  OBVIOUS
<1> USE OwnMarker DEF Backed, outboxVars, callbackVars, productVars, threadVars, ReceiptInv, DeliveredWasPosted,
            TypeOK, ThreadTypeOK, Terminal, Refused, Sendable, Between
<1>1. ASSUME NEW t \in Threads, NEW c \in Commands, Publish(t, c)
      PROVE  ReceiptInv'
  BY <1>1 DEF Publish, Enter
<1>2. ASSUME NEW t \in Threads, NEW c \in Commands, PublishDuplicate(t, c)
      PROVE  ReceiptInv'
  BY <1>2 DEF PublishDuplicate, Enter
<1>3. ASSUME NEW t \in Threads, StoreCallback(t)
      PROVE  ReceiptInv'
  BY <1>3 DEF StoreCallback, Goto, End, Enter
<1>4. ASSUME NEW t \in Threads, NEW c \in Commands, Send(t, c)
      PROVE  ReceiptInv'
  BY <1>4 DEF Send, Takes
<1>5. ASSUME NEW t \in Threads, NEW c \in Commands, SendFails(t, c)
      PROVE  ReceiptInv'
  BY <1>5 DEF SendFails, Takes, Fault
<1>6. ASSUME NEW t \in Threads, Confirm(t)
      PROVE  ReceiptInv'
  BY <1>6 DEF Confirm, NextRow, Loop, Enter, End
<1>7. ASSUME NEW t \in Threads, ConfirmFails(t)
      PROVE  ReceiptInv'
  BY <1>7 DEF ConfirmFails, Goto, Fault
<1>8. ASSUME NEW t \in Threads, Demote(t)
      PROVE  ReceiptInv'
  BY <1>8 DEF Demote, NextRow, Loop, Enter, End
<1>9. ASSUME NEW t \in Threads, SweepStale(t)
      PROVE  ReceiptInv'
  BY <1>9 DEF SweepStale, Goto, Reset, Stale
<1>10. ASSUME NEW t \in Threads, SweepSelect(t)
      PROVE  ReceiptInv'
  BY <1>10 DEF SweepSelect, Loop, Enter, End
<1>11. ASSUME NEW t \in Threads, NEW scope \in SUBSET Slack, Requeue(t, scope)
      PROVE  ReceiptInv'
  BY <1>11 DEF Requeue, Loop, Reset, Reopened, Enter, End
<1>12. ASSUME NEW t \in Threads, NEW c \in Commands, NEW n \in Deliveries, Claim(t, c, n)
      PROVE  ReceiptInv'
  BY <1>12 DEF Claim, Enter
<1>13. ASSUME NEW t \in Threads, Lookup(t)
      PROVE  ReceiptInv'
  BY <1>13 DEF Lookup, Goto, Returns
<1>14. ASSUME NEW t \in Threads, LookupMisses(t)
      PROVE  ReceiptInv'
  BY <1>14 DEF LookupMisses, Goto, Fault
<1>15. ASSUME NEW t \in Threads, Post(t)
      PROVE  ReceiptInv'
  BY <1>15 DEF Post, Returns, Posted
<1>16. ASSUME NEW t \in Threads, PostUnconfirmed(t)
      PROVE  ReceiptInv'
  BY <1>16 DEF PostUnconfirmed, Returns, Fault, Posted
<1>17. ASSUME NEW t \in Threads, HandlerFails(t)
      PROVE  ReceiptInv'
  BY <1>17 DEF HandlerFails, Returns
<1>18. ASSUME NEW t \in Threads, SettleDelivered(t)
      PROVE  ReceiptInv'
  BY <1>18 DEF SettleDelivered, Goto, Finish
<1>19. ASSUME NEW t \in Threads, SettleRetrying(t)
      PROVE  ReceiptInv'
  BY <1>19 DEF SettleRetrying, Goto
<1>20. ASSUME NEW t \in Threads, SettleRefused(t)
      PROVE  ReceiptInv'
  BY <1>20 DEF SettleRefused, Outcome, Goto, Finish
<1>21. ASSUME NEW t \in Threads, SettleFails(t)
      PROVE  ReceiptInv'
  BY <1>21 DEF SettleFails, Fault, Throw, Goto, Returns
<1>22. ASSUME NEW t \in Threads, NEW c \in Commands, CallbackSelect(t, c)
      PROVE  ReceiptInv'
  BY <1>22 DEF CallbackSelect, Takes, CallbackDone, Goto, NextRow, Loop, Enter, End
<1>23. ASSUME NEW t \in Threads, CallbackSend(t)
      PROVE  ReceiptInv'
  BY <1>23 DEF CallbackSend, Goto
<1>24. ASSUME NEW t \in Threads, CallbackConfirm(t)
      PROVE  ReceiptInv'
  BY <1>24 DEF CallbackConfirm, CallbackDone, Goto, NextRow, Loop, Enter, End
<1>25. ASSUME NEW t \in Threads, CallbackSendFails(t)
      PROVE  ReceiptInv'
  BY <1>25 DEF CallbackSendFails, Goto, Fault
<1>26. ASSUME NEW t \in Threads, CallbackNote(t)
      PROVE  ReceiptInv'
  BY <1>26 DEF CallbackNote, CallbackDone, Goto, NextRow, Loop, Enter, End
<1>27. ASSUME NEW t \in Threads, CallbackThrows(t)
      PROVE  ReceiptInv'
  BY <1>27 DEF CallbackThrows, End, Fault, Throw, Goto, Returns, Enter
<1>28. ASSUME NEW t \in Threads, NEW c \in Commands, NEW n \in Deliveries, ClaimCallback(t, c, n)
      PROVE  ReceiptInv'
  BY <1>28 DEF ClaimCallback, Enter
<1>29. ASSUME NEW t \in Threads, ReadReceipt(t)
      PROVE  ReceiptInv'
  BY <1>29 DEF ReadReceipt, Returns
<1>30. ASSUME NEW t \in Threads, Apply(t)
      PROVE  ReceiptInv'
  BY <1>30 DEF Apply, Goto, Applied
<1>31. ASSUME NEW t \in Threads, ApplyFails(t)
      PROVE  ReceiptInv'
  BY <1>31 DEF ApplyFails, Returns, Applied
<1>32. ASSUME NEW t \in Threads, CallbackSettle(t)
      PROVE  ReceiptInv'
  BY <1>32 DEF CallbackSettle, Goto
<1>33. ASSUME NEW t \in Threads, CallbackSettleFails(t)
      PROVE  ReceiptInv'
  BY <1>33 DEF CallbackSettleFails, Goto, Returns, Fault
<1>34. ASSUME NEW t \in Threads, CallbackSweepStale(t)
      PROVE  ReceiptInv'
  BY <1>34 DEF CallbackSweepStale, Goto
<1>35. ASSUME NEW t \in Threads, CallbackSweepScan(t)
      PROVE  ReceiptInv'
  BY <1>35 DEF CallbackSweepScan, Loop, Enter, End
<1>36. ASSUME NEW t \in Threads, Ack(t)
      PROVE  ReceiptInv'
  BY <1>36 DEF Ack, End, Enter
<1>37. ASSUME NEW t \in Threads, Nack(t)
      PROVE  ReceiptInv'
  BY <1>37 DEF Nack, Release, End, Enter
<1>38. ASSUME NEW t \in Threads, Crash(t)
      PROVE  ReceiptInv'
  BY <1>38 DEF Crash, Fault, Release, End, Enter
<1>39. ASSUME NEW t \in Threads, Abort(t)
      PROVE  ReceiptInv'
  BY <1>39 DEF Abort, End, Fault, Enter
<1>40. ASSUME NEW c \in Commands, NEW n \in Deliveries, Skip(c, n)
      PROVE  ReceiptInv'
  BY <1>40 DEF Skip
<1>41. ASSUME NEW c \in Commands, NEW n \in Deliveries, BatchDies(c, n)
      PROVE  ReceiptInv'
  BY <1>41 DEF BatchDies, Fault
<1>42. ASSUME NEW c \in Commands, LeaseExpires(c)
      PROVE  ReceiptInv'
  BY <1>42 DEF LeaseExpires, Fault, Healthy
<1>43. ASSUME NEW c \in Commands, CallbackLeaseExpires(c)
      PROVE  ReceiptInv'
  BY <1>43 DEF CallbackLeaseExpires, Fault, Healthy
<1>44. ASSUME NEW c \in Commands, BackoffElapses(c)
      PROVE  ReceiptInv'
  BY <1>44 DEF BackoffElapses
<1>45. CASE UNCHANGED vars
  BY <1>45 DEF vars
<1>46. QED
  BY <1>1, <1>2, <1>3, <1>4, <1>5, <1>6, <1>7, <1>8, <1>9, <1>10, <1>11, <1>12, <1>13,
     <1>14, <1>15, <1>16, <1>17, <1>18, <1>19, <1>20, <1>21, <1>22, <1>23, <1>24, <1>25,
     <1>26, <1>27, <1>28, <1>29, <1>30, <1>31, <1>32, <1>33, <1>34, <1>35, <1>36, <1>37,
     <1>38, <1>39, <1>40, <1>41, <1>42, <1>43, <1>44, <1>45
     DEF Next, Start, Continue, Queueing, Executing, CallbackQueueing, CallbackExecuting

\* DeliveredWasPosted for every number of commands, invocations, attempts and faults.
THEOREM DeliveriesArePosted == Spec => []DeliveredWasPosted
<1>1. Init => ReceiptInv
  BY DEF Init, ReceiptInv, DeliveredWasPosted, Terminal, Refused
<1>2. ReceiptInv => DeliveredWasPosted
  BY DEF ReceiptInv
<1>3. QED
  BY TypeCorrect, ReceiptStep, <1>1, <1>2, PTL DEF Spec

-----------------------------------------------------------------------------
(* A finalizer finds a receipt *)

\* What an invocation holds at each await.
ShapeInv ==
    \A t \in Threads :
        /\ pc[t] \in {"lookup", "post", "settle"} => job[t].kind = "deliver"
        /\ pc[t] \in {"finalize", "apply", "cbSettle"} => job[t].kind = "finalize"
        /\ pc[t] \in Between \cup {"store", "confirm", "demote"} /\ pc[t] # "cbSelect" => job[t].kind = "none"
        /\ pc[t] \in {"cbSelect", "cbSend", "cbConfirm", "cbNote"} => job[t].kind # "finalize"
        /\ pc[t] = "store" \/ job[t].kind = "deliver" => job[t].todo = {cur[t]}

\* Whoever may come to run a finalizer, or to queue one, has a receipt for it.
ReceiptsQueued ==
    \A c \in Commands : Holds(queue, <<"finalize", c>>) => receipt[c] # "none"

ReceiptsHeld ==
    \A t \in Threads :
           /\ job[t].kind = "finalize" => receipt[cur[t]] # "none"
           /\ pc[t] \in {"cbSend", "cbConfirm", "cbNote"} => receipt[cur[t]] # "none"
           /\ pc[t] \in {"cbSelect", "cbSend", "cbConfirm", "cbNote"} =>
                 \A c \in job[t].todo : receipt[c] # "none"
           /\ pc[t] = "store" /\ memo[t] \in Terminal => receipt[cur[t]] # "none"

FinalizeInv == ReceiptsQueued /\ ReceiptsHeld

\* The fields of a new job.
LEMMA NewJob ==
    /\ \A todo : Rows(todo).todo = todo /\ Rows(todo).kind = "none"
    /\ NoJob.todo = {} /\ NoJob.kind = "none"
    /\ \A todo, kind, n, exhausted :
          LET new == [todo |-> todo, kind |-> kind, n |-> n, exhausted |-> exhausted]
          IN  new.todo = todo /\ new.kind = kind /\ new.exhausted = exhausted
BY DEF Rows, NoJob

\* No step breaks the control shape.
LEMMA ShapeStep == TypeOK /\ ShapeInv /\ [Next]_vars => ShapeInv'
<1> SUFFICES ASSUME TypeOK, ShapeInv, [Next]_vars
             PROVE  ShapeInv'
  OBVIOUS
<1> USE NewJob DEF outboxVars, callbackVars, productVars, threadVars, ShapeInv,
            TypeOK, ThreadTypeOK, Between
<1>1. ASSUME NEW t \in Threads, NEW c \in Commands, Publish(t, c)
      PROVE  ShapeInv'
  BY <1>1 DEF Publish, Enter
<1>2. ASSUME NEW t \in Threads, NEW c \in Commands, PublishDuplicate(t, c)
      PROVE  ShapeInv'
  BY <1>2 DEF PublishDuplicate, Enter
<1>3. ASSUME NEW t \in Threads, StoreCallback(t)
      PROVE  ShapeInv'
  BY <1>3 DEF StoreCallback, Goto, End, Enter
<1>4. ASSUME NEW t \in Threads, NEW c \in Commands, Send(t, c)
      PROVE  ShapeInv'
  BY <1>4 DEF Send, Takes
<1>5. ASSUME NEW t \in Threads, NEW c \in Commands, SendFails(t, c)
      PROVE  ShapeInv'
  BY <1>5 DEF SendFails, Takes, Fault
<1>6. ASSUME NEW t \in Threads, Confirm(t)
      PROVE  ShapeInv'
  BY <1>6 DEF Confirm, NextRow, Loop, Enter, End
<1>7. ASSUME NEW t \in Threads, ConfirmFails(t)
      PROVE  ShapeInv'
  BY <1>7 DEF ConfirmFails, Goto, Fault
<1>8. ASSUME NEW t \in Threads, Demote(t)
      PROVE  ShapeInv'
  BY <1>8 DEF Demote, NextRow, Loop, Enter, End
<1>9. ASSUME NEW t \in Threads, SweepStale(t)
      PROVE  ShapeInv'
  BY <1>9 DEF SweepStale, Goto, Reset, Stale
<1>10. ASSUME NEW t \in Threads, SweepSelect(t)
      PROVE  ShapeInv'
  BY <1>10 DEF SweepSelect, Loop, Enter, End
<1>11. ASSUME NEW t \in Threads, NEW scope \in SUBSET Slack, Requeue(t, scope)
      PROVE  ShapeInv'
  BY <1>11 DEF Requeue, Loop, Reset, Reopened, Enter, End
<1>12. ASSUME NEW t \in Threads, NEW c \in Commands, NEW n \in Deliveries, Claim(t, c, n)
      PROVE  ShapeInv'
  BY <1>12 DEF Claim, Enter
<1>13. ASSUME NEW t \in Threads, Lookup(t)
      PROVE  ShapeInv'
  BY <1>13 DEF Lookup, Goto, Returns
<1>14. ASSUME NEW t \in Threads, LookupMisses(t)
      PROVE  ShapeInv'
  BY <1>14 DEF LookupMisses, Goto, Fault
<1>15. ASSUME NEW t \in Threads, Post(t)
      PROVE  ShapeInv'
  BY <1>15 DEF Post, Returns, Posted
<1>16. ASSUME NEW t \in Threads, PostUnconfirmed(t)
      PROVE  ShapeInv'
  BY <1>16 DEF PostUnconfirmed, Returns, Fault, Posted
<1>17. ASSUME NEW t \in Threads, HandlerFails(t)
      PROVE  ShapeInv'
  BY <1>17 DEF HandlerFails, Returns
<1>18. ASSUME NEW t \in Threads, SettleDelivered(t)
      PROVE  ShapeInv'
  BY <1>18 DEF SettleDelivered, Goto, Finish
<1>19. ASSUME NEW t \in Threads, SettleRetrying(t)
      PROVE  ShapeInv'
  BY <1>19 DEF SettleRetrying, Goto
<1>20. ASSUME NEW t \in Threads, SettleRefused(t)
      PROVE  ShapeInv'
  BY <1>20 DEF SettleRefused, Outcome, Goto, Finish
<1>21. ASSUME NEW t \in Threads, SettleFails(t)
      PROVE  ShapeInv'
  BY <1>21 DEF SettleFails, Fault, Throw, Goto, Returns
<1>22. ASSUME NEW t \in Threads, NEW c \in Commands, CallbackSelect(t, c)
      PROVE  ShapeInv'
  BY <1>22 DEF CallbackSelect, Takes, CallbackDone, Goto, NextRow, Loop, Enter, End
<1>23. ASSUME NEW t \in Threads, CallbackSend(t)
      PROVE  ShapeInv'
  BY <1>23 DEF CallbackSend, Goto
<1>24. ASSUME NEW t \in Threads, CallbackConfirm(t)
      PROVE  ShapeInv'
  BY <1>24 DEF CallbackConfirm, CallbackDone, Goto, NextRow, Loop, Enter, End
<1>25. ASSUME NEW t \in Threads, CallbackSendFails(t)
      PROVE  ShapeInv'
  BY <1>25 DEF CallbackSendFails, Goto, Fault
<1>26. ASSUME NEW t \in Threads, CallbackNote(t)
      PROVE  ShapeInv'
  BY <1>26 DEF CallbackNote, CallbackDone, Goto, NextRow, Loop, Enter, End
<1>27. ASSUME NEW t \in Threads, CallbackThrows(t)
      PROVE  ShapeInv'
  BY <1>27, JobFields DEF Kinds, CallbackThrows, End, Fault, Throw, Goto, Returns, Enter
<1>28. ASSUME NEW t \in Threads, NEW c \in Commands, NEW n \in Deliveries, ClaimCallback(t, c, n)
      PROVE  ShapeInv'
  BY <1>28 DEF ClaimCallback, Enter
<1>29. ASSUME NEW t \in Threads, ReadReceipt(t)
      PROVE  ShapeInv'
  BY <1>29 DEF ReadReceipt, Returns
<1>30. ASSUME NEW t \in Threads, Apply(t)
      PROVE  ShapeInv'
  BY <1>30 DEF Apply, Goto, Applied
<1>31. ASSUME NEW t \in Threads, ApplyFails(t)
      PROVE  ShapeInv'
  BY <1>31 DEF ApplyFails, Returns, Applied
<1>32. ASSUME NEW t \in Threads, CallbackSettle(t)
      PROVE  ShapeInv'
  BY <1>32 DEF CallbackSettle, Goto
<1>33. ASSUME NEW t \in Threads, CallbackSettleFails(t)
      PROVE  ShapeInv'
  BY <1>33 DEF CallbackSettleFails, Goto, Returns, Fault
<1>34. ASSUME NEW t \in Threads, CallbackSweepStale(t)
      PROVE  ShapeInv'
  BY <1>34 DEF CallbackSweepStale, Goto
<1>35. ASSUME NEW t \in Threads, CallbackSweepScan(t)
      PROVE  ShapeInv'
  BY <1>35 DEF CallbackSweepScan, Loop, Enter, End
<1>36. ASSUME NEW t \in Threads, Ack(t)
      PROVE  ShapeInv'
  BY <1>36 DEF Ack, End, Enter
<1>37. ASSUME NEW t \in Threads, Nack(t)
      PROVE  ShapeInv'
  BY <1>37 DEF Nack, Release, End, Enter
<1>38. ASSUME NEW t \in Threads, Crash(t)
      PROVE  ShapeInv'
  BY <1>38 DEF Crash, Fault, Release, End, Enter
<1>39. ASSUME NEW t \in Threads, Abort(t)
      PROVE  ShapeInv'
  BY <1>39 DEF Abort, End, Fault, Enter
<1>40. ASSUME NEW c \in Commands, NEW n \in Deliveries, Skip(c, n)
      PROVE  ShapeInv'
  BY <1>40 DEF Skip
<1>41. ASSUME NEW c \in Commands, NEW n \in Deliveries, BatchDies(c, n)
      PROVE  ShapeInv'
  BY <1>41 DEF BatchDies, Fault
<1>42. ASSUME NEW c \in Commands, LeaseExpires(c)
      PROVE  ShapeInv'
  BY <1>42 DEF LeaseExpires, Fault, Healthy
<1>43. ASSUME NEW c \in Commands, CallbackLeaseExpires(c)
      PROVE  ShapeInv'
  BY <1>43 DEF CallbackLeaseExpires, Fault, Healthy
<1>44. ASSUME NEW c \in Commands, BackoffElapses(c)
      PROVE  ShapeInv'
  BY <1>44 DEF BackoffElapses
<1>45. CASE UNCHANGED vars
  BY <1>45 DEF vars
<1>46. QED
  BY <1>1, <1>2, <1>3, <1>4, <1>5, <1>6, <1>7, <1>8, <1>9, <1>10, <1>11, <1>12, <1>13,
     <1>14, <1>15, <1>16, <1>17, <1>18, <1>19, <1>20, <1>21, <1>22, <1>23, <1>24, <1>25,
     <1>26, <1>27, <1>28, <1>29, <1>30, <1>31, <1>32, <1>33, <1>34, <1>35, <1>36, <1>37,
     <1>38, <1>39, <1>40, <1>41, <1>42, <1>43, <1>44, <1>45
     DEF Next, Start, Continue, Queueing, Executing, CallbackQueueing, CallbackExecuting

\* No step breaks the receipts of finalizers.
LEMMA FinalizeStep ==
    TypeOK /\ ReceiptInv /\ ShapeInv /\ FinalizeInv /\ [Next]_vars => FinalizeInv'
<1> SUFFICES ASSUME TypeOK, ReceiptInv, ShapeInv, FinalizeInv, [Next]_vars
             PROVE  FinalizeInv'
  OBVIOUS
<1> USE NewJob DEF outboxVars, callbackVars, productVars, threadVars, ReceiptInv, DeliveredWasPosted,
            ShapeInv, FinalizeInv, ReceiptsQueued, ReceiptsHeld, TypeOK, ThreadTypeOK,
            Terminal, Refused, Sendable, Between, Receipts, Kinds
<1>1. ASSUME NEW t \in Threads, NEW c \in Commands, Publish(t, c)
      PROVE  FinalizeInv'
  BY <1>1 DEF Publish, Enter
<1>2. ASSUME NEW t \in Threads, NEW c \in Commands, PublishDuplicate(t, c)
      PROVE  FinalizeInv'
  BY <1>2 DEF PublishDuplicate, Enter
<1>3. ASSUME NEW t \in Threads, StoreCallback(t)
      PROVE  FinalizeInv'
  BY <1>3 DEF StoreCallback, Goto, End, Enter
<1>4. ASSUME NEW t \in Threads, NEW c \in Commands, Send(t, c)
      PROVE  FinalizeInv'
  <2>1. ReceiptsQueued'
    BY <1>4, HoldsSent, TasksTyped DEF Send, Takes
  <2>2. ReceiptsHeld'
    BY <1>4, JobFields DEF Send, Takes
  <2>3. QED
    BY <2>1, <2>2
<1>5. ASSUME NEW t \in Threads, NEW c \in Commands, SendFails(t, c)
      PROVE  FinalizeInv'
  <2>1. ReceiptsQueued'
    BY <1>5 DEF SendFails, Takes, Fault
  <2>2. ReceiptsHeld'
    BY <1>5, JobFields DEF SendFails, Takes, Fault
  <2>3. QED
    BY <2>1, <2>2
<1>6. ASSUME NEW t \in Threads, Confirm(t)
      PROVE  FinalizeInv'
  BY <1>6 DEF Confirm, NextRow, Loop, Enter, End
<1>7. ASSUME NEW t \in Threads, ConfirmFails(t)
      PROVE  FinalizeInv'
  BY <1>7 DEF ConfirmFails, Goto, Fault
<1>8. ASSUME NEW t \in Threads, Demote(t)
      PROVE  FinalizeInv'
  BY <1>8 DEF Demote, NextRow, Loop, Enter, End
<1>9. ASSUME NEW t \in Threads, SweepStale(t)
      PROVE  FinalizeInv'
  BY <1>9 DEF SweepStale, Goto, Reset, Stale
<1>10. ASSUME NEW t \in Threads, SweepSelect(t)
      PROVE  FinalizeInv'
  BY <1>10 DEF SweepSelect, Loop, Enter, End
<1>11. ASSUME NEW t \in Threads, NEW scope \in SUBSET Slack, Requeue(t, scope)
      PROVE  FinalizeInv'
  BY <1>11 DEF Requeue, Loop, Reset, Reopened, Enter, End
<1>12. ASSUME NEW t \in Threads, NEW c \in Commands, NEW n \in Deliveries, Claim(t, c, n)
      PROVE  FinalizeInv'
  <2>1. ReceiptsQueued'
    BY <1>12, HoldsTaken, TasksTyped DEF Claim, Enter
  <2>2. ReceiptsHeld'
    BY <1>12, JobFields DEF Claim, Enter
  <2>3. QED
    BY <2>1, <2>2
<1>13. ASSUME NEW t \in Threads, Lookup(t)
      PROVE  FinalizeInv'
  BY <1>13 DEF Lookup, Goto, Returns
<1>14. ASSUME NEW t \in Threads, LookupMisses(t)
      PROVE  FinalizeInv'
  BY <1>14 DEF LookupMisses, Goto, Fault
<1>15. ASSUME NEW t \in Threads, Post(t)
      PROVE  FinalizeInv'
  BY <1>15 DEF Post, Returns, Posted
<1>16. ASSUME NEW t \in Threads, PostUnconfirmed(t)
      PROVE  FinalizeInv'
  BY <1>16 DEF PostUnconfirmed, Returns, Fault, Posted
<1>17. ASSUME NEW t \in Threads, HandlerFails(t)
      PROVE  FinalizeInv'
  BY <1>17 DEF HandlerFails, Returns
<1>18. ASSUME NEW t \in Threads, SettleDelivered(t)
      PROVE  FinalizeInv'
  BY <1>18 DEF SettleDelivered, Goto, Finish
<1>19. ASSUME NEW t \in Threads, SettleRetrying(t)
      PROVE  FinalizeInv'
  BY <1>19 DEF SettleRetrying, Goto
<1>20. ASSUME NEW t \in Threads, SettleRefused(t)
      PROVE  FinalizeInv'
  BY <1>20 DEF SettleRefused, Outcome, Goto, Finish
<1>21. ASSUME NEW t \in Threads, SettleFails(t)
      PROVE  FinalizeInv'
  BY <1>21 DEF SettleFails, Fault, Throw, Goto, Returns
<1>22. ASSUME NEW t \in Threads, NEW c \in Commands, CallbackSelect(t, c)
      PROVE  FinalizeInv'
  BY <1>22 DEF CallbackSelect, Takes, CallbackDone, Goto, NextRow, Loop, Enter, End
<1>23. ASSUME NEW t \in Threads, CallbackSend(t)
      PROVE  FinalizeInv'
  <2>1. ReceiptsQueued'
    BY <1>23, HoldsSent, TasksTyped DEF CallbackSend, Goto
  <2>2. ReceiptsHeld'
    BY <1>23, JobFields DEF CallbackSend, Goto
  <2>3. QED
    BY <2>1, <2>2
<1>24. ASSUME NEW t \in Threads, CallbackConfirm(t)
      PROVE  FinalizeInv'
  <2>1. ReceiptsQueued'
    BY <1>24 DEF CallbackConfirm, CallbackDone, Goto, NextRow, Loop, Enter, End
  <2>2. ReceiptsHeld'
    BY <1>24, JobFields DEF CallbackConfirm, CallbackDone, Goto, NextRow, Loop, Enter, End
  <2>3. QED
    BY <2>1, <2>2
<1>25. ASSUME NEW t \in Threads, CallbackSendFails(t)
      PROVE  FinalizeInv'
  BY <1>25 DEF CallbackSendFails, Goto, Fault
<1>26. ASSUME NEW t \in Threads, CallbackNote(t)
      PROVE  FinalizeInv'
  <2>1. ReceiptsQueued'
    BY <1>26 DEF CallbackNote, CallbackDone, Goto, NextRow, Loop, Enter, End
  <2>2. ReceiptsHeld'
    BY <1>26, JobFields DEF CallbackNote, CallbackDone, Goto, NextRow, Loop, Enter, End
  <2>3. QED
    BY <2>1, <2>2
<1>27. ASSUME NEW t \in Threads, CallbackThrows(t)
      PROVE  FinalizeInv'
  BY <1>27 DEF CallbackThrows, End, Fault, Throw, Goto, Returns, Enter
<1>28. ASSUME NEW t \in Threads, NEW c \in Commands, NEW n \in Deliveries, ClaimCallback(t, c, n)
      PROVE  FinalizeInv'
  <2>1. ReceiptsQueued'
    BY <1>28, HoldsTaken, TasksTyped DEF ClaimCallback, Enter
  <2>2. ReceiptsHeld'
    BY <1>28, WaitingHolds DEF ClaimCallback, Enter
  <2>3. QED
    BY <2>1, <2>2
<1>29. ASSUME NEW t \in Threads, ReadReceipt(t)
      PROVE  FinalizeInv'
  BY <1>29 DEF ReadReceipt, Returns
<1>30. ASSUME NEW t \in Threads, Apply(t)
      PROVE  FinalizeInv'
  BY <1>30 DEF Apply, Goto, Applied
<1>31. ASSUME NEW t \in Threads, ApplyFails(t)
      PROVE  FinalizeInv'
  BY <1>31 DEF ApplyFails, Returns, Applied
<1>32. ASSUME NEW t \in Threads, CallbackSettle(t)
      PROVE  FinalizeInv'
  BY <1>32 DEF CallbackSettle, Goto
<1>33. ASSUME NEW t \in Threads, CallbackSettleFails(t)
      PROVE  FinalizeInv'
  BY <1>33 DEF CallbackSettleFails, Goto, Returns, Fault
<1>34. ASSUME NEW t \in Threads, CallbackSweepStale(t)
      PROVE  FinalizeInv'
  BY <1>34 DEF CallbackSweepStale, Goto
<1>35. ASSUME NEW t \in Threads, CallbackSweepScan(t)
      PROVE  FinalizeInv'
  <2>1. ReceiptsQueued'
    BY <1>35 DEF CallbackSweepScan, CallbackReady, Loop, Enter, End
  <2>2. ReceiptsHeld'
    BY <1>35 DEF CallbackSweepScan, CallbackReady, Loop, Enter, End
  <2>3. QED
    BY <2>1, <2>2
<1>36. ASSUME NEW t \in Threads, Ack(t)
      PROVE  FinalizeInv'
  BY <1>36 DEF Ack, End, Enter
<1>37. ASSUME NEW t \in Threads, Nack(t)
      PROVE  FinalizeInv'
  <2>1. ReceiptsQueued'
    BY <1>37, HoldsReturned, TasksTyped, JobFields DEF Nack, Release, End, Enter
  <2>2. ReceiptsHeld'
    BY <1>37 DEF Nack, Release, End, Enter
  <2>3. QED
    BY <2>1, <2>2
<1>38. ASSUME NEW t \in Threads, Crash(t)
      PROVE  FinalizeInv'
  <2>1. ReceiptsQueued'
    BY <1>38, HoldsReturned, TasksTyped, JobFields DEF Crash, Fault, Release, End, Enter
  <2>2. ReceiptsHeld'
    BY <1>38 DEF Crash, Fault, Release, End, Enter
  <2>3. QED
    BY <2>1, <2>2
<1>39. ASSUME NEW t \in Threads, Abort(t)
      PROVE  FinalizeInv'
  BY <1>39 DEF Abort, End, Fault, Enter
<1>40. ASSUME NEW c \in Commands, NEW n \in Deliveries, Skip(c, n)
      PROVE  FinalizeInv'
  <2>1. ReceiptsQueued'
    BY <1>40, HoldsTaken, TasksTyped DEF Skip
  <2>2. ReceiptsHeld'
    BY <1>40 DEF Skip
  <2>3. QED
    BY <2>1, <2>2
<1>41. ASSUME NEW c \in Commands, NEW n \in Deliveries, BatchDies(c, n)
      PROVE  FinalizeInv'
  <2>1. ReceiptsQueued'
    <3>1. PICK kind \in Kinds :
             /\ Waiting(queue, <<kind, c>>, n)
             /\ queue' = Returned(Taken(queue, <<kind, c>>, n), <<kind, c>>, n)
      BY <1>41 DEF BatchDies
    <3>2. <<kind, c>> \in Tasks /\ \A d \in Commands : <<"finalize", d>> \in Tasks
      BY TasksTyped
    <3>3. Taken(queue, <<kind, c>>, n) \in Queues(Tasks)
      BY <3>1, <3>2, TakenTyped
    <3>4. \A d \in Commands : Holds(queue', <<"finalize", d>>) => Holds(queue, <<"finalize", d>>)
      BY <3>1, <3>2, <3>3, HoldsReturned, HoldsTaken, WaitingHolds
    <3>5. QED
      BY <1>41, <3>4 DEF BatchDies
  <2>2. ReceiptsHeld'
    BY <1>41 DEF BatchDies, Fault
  <2>3. QED
    BY <2>1, <2>2
<1>42. ASSUME NEW c \in Commands, LeaseExpires(c)
      PROVE  FinalizeInv'
  BY <1>42 DEF LeaseExpires, Fault, Healthy
<1>43. ASSUME NEW c \in Commands, CallbackLeaseExpires(c)
      PROVE  FinalizeInv'
  BY <1>43 DEF CallbackLeaseExpires, Fault, Healthy
<1>44. ASSUME NEW c \in Commands, BackoffElapses(c)
      PROVE  FinalizeInv'
  BY <1>44 DEF BackoffElapses
<1>45. CASE UNCHANGED vars
  BY <1>45 DEF vars
<1>46. QED
  BY <1>1, <1>2, <1>3, <1>4, <1>5, <1>6, <1>7, <1>8, <1>9, <1>10, <1>11, <1>12, <1>13,
     <1>14, <1>15, <1>16, <1>17, <1>18, <1>19, <1>20, <1>21, <1>22, <1>23, <1>24, <1>25,
     <1>26, <1>27, <1>28, <1>29, <1>30, <1>31, <1>32, <1>33, <1>34, <1>35, <1>36, <1>37,
     <1>38, <1>39, <1>40, <1>41, <1>42, <1>43, <1>44, <1>45
     DEF Next, Start, Continue, Queueing, Executing, CallbackQueueing, CallbackExecuting

\* FinalizerHasReceipt for every number of commands, invocations, attempts and faults.
THEOREM FinalizersHaveReceipts == Spec => []FinalizerHasReceipt
<1>1. Init => ReceiptInv /\ ShapeInv /\ FinalizeInv
  BY NewJob, HoldsEmpty, TasksTyped
     DEF Init, ReceiptInv, ShapeInv, FinalizeInv, ReceiptsQueued, ReceiptsHeld,
         DeliveredWasPosted, Terminal, Refused, Kinds
<1>2. TypeOK /\ ShapeInv /\ FinalizeInv => FinalizerHasReceipt
  BY DEF ShapeInv, FinalizeInv, ReceiptsHeld, FinalizerHasReceipt, Finalizing
<1>3. QED
  BY TypeCorrect, ReceiptStep, ShapeStep, FinalizeStep, <1>1, <1>2, PTL DEF Spec

-----------------------------------------------------------------------------
(* Attempts stay within their budget *)

\* An invocation that may yet hand the row of c out for another attempt, whatever has
\* happened to that row since: it will demote it, or settle it as retrying.
Owes(t, c) ==
    /\ cur[t] = c
    /\ pc[t] = "demote" \/ (Working(t, c) /\ ~job[t].exhausted)

Owing(c) == {t \in Threads : Owes(t, c)}

Claimables == Sendable \cup {"absent", "queued"}

\* A row that is to be claimed, or whose claim the sweep may take back.
Free(c) ==
    \/ status[c] \in Claimables
    \/ /\ status[c] = "processing"
       /\ lease[c] # "live" \/ \A t \in Threads : ~Working(t, c)

\* The attempts a row may come to without any further fault or requeue.
Debt(c) == Cardinality(Owing(c)) + IF Free(c) THEN 1 ELSE 0

\* Each fault and each requeue adds one debt at most, and only debts turn into attempts.
BudgetInv ==
    \A c \in Commands :
        /\ IsFiniteSet(Owing(c))
        /\ Debt(c) <= 1 + faults + requeues
        /\ attempts[c] >= MaxAttempts =>
              attempts[c] + Debt(c) <= MaxAttempts + faults + requeues

\* A step of one invocation changes by one at most how many owe.
LEMMA OwingMoves ==
    ASSUME NEW t \in Threads, NEW c, IsFiniteSet(Owing(c)),
           \A u \in Threads \ {t} : Owes(u, c)' <=> Owes(u, c)
    PROVE  /\ IsFiniteSet(Owing(c)')
           /\ Cardinality(Owing(c)) \in Nat
           /\ Cardinality(Owing(c)') \in Nat
           /\ (Owes(t, c)' <=> Owes(t, c)) => Cardinality(Owing(c)') = Cardinality(Owing(c))
           /\ (Owes(t, c)' /\ ~Owes(t, c)) => Cardinality(Owing(c)') = Cardinality(Owing(c)) + 1
           /\ (~Owes(t, c)' /\ Owes(t, c)) => Cardinality(Owing(c)') = Cardinality(Owing(c)) - 1
<1>1. CASE Owes(t, c)' <=> Owes(t, c)
  <2>1. Owing(c)' = Owing(c)
    BY <1>1, Zenon DEF Owing
  <2>2. QED
    BY <1>1, <2>1, FS_CardinalityType
<1>2. CASE Owes(t, c)' /\ ~Owes(t, c)
  <2>1. Owing(c)' = Owing(c) \cup {t} /\ t \notin Owing(c)
    BY <1>2, Zenon DEF Owing
  <2>2. QED
    BY <1>2, <2>1, FS_CardinalityType, FS_AddElement
<1>3. CASE ~Owes(t, c)' /\ Owes(t, c)
  <2>1. Owing(c)' = Owing(c) \ {t} /\ t \in Owing(c)
    BY <1>3, Zenon DEF Owing
  <2>2. IsFiniteSet(Owing(c)')
    BY <2>1, FS_RemoveElement
  <2>3. QED
    BY <1>3, <2>1, <2>2, FS_CardinalityType, FS_RemoveElement
<1>4. QED
  BY <1>1, <1>2, <1>3, Zenon

\* A step that nothing pays for adds no debt: a row that it frees was owed by its invocation.
LEMMA DebtKept ==
    ASSUME NEW t \in Threads, NEW c, IsFiniteSet(Owing(c)),
           \A u \in Threads \ {t} : Owes(u, c)' <=> Owes(u, c),
           Owes(t, c)' => Owes(t, c),
           Free(c)' => Free(c) \/ (Owes(t, c) /\ ~Owes(t, c)')
    PROVE  /\ IsFiniteSet(Owing(c)')
           /\ Debt(c) \in Nat
           /\ Debt(c)' \in Nat
           /\ Debt(c)' <= Debt(c)
BY OwingMoves, SMT DEF Debt

\* A fault or a requeue adds one: it makes its invocation owe, or it frees the row.
LEMMA DebtPaid ==
    ASSUME NEW t \in Threads, NEW c, IsFiniteSet(Owing(c)),
           \A u \in Threads \ {t} : Owes(u, c)' <=> Owes(u, c),
           (Owes(t, c)' => Owes(t, c)) \/ (Free(c)' => Free(c))
    PROVE  /\ IsFiniteSet(Owing(c)')
           /\ Debt(c) \in Nat
           /\ Debt(c)' \in Nat
           /\ Debt(c)' <= Debt(c) + 1
BY OwingMoves, SMT DEF Debt

Unpaid == UNCHANGED <<faults, requeues>>

Paid ==
    \/ faults' = faults + 1 /\ UNCHANGED requeues
    \/ requeues' = requeues + 1 /\ UNCHANGED faults

\* Steps that claim nothing keep the budget, if nothing pays for them
LEMMA BudgetKept ==
    ASSUME TypeOK, BudgetInv, UNCHANGED attempts, Unpaid, NEW t \in Threads,
           \A c \in Commands :
               /\ \A u \in Threads \ {t} : Owes(u, c)' <=> Owes(u, c)
               /\ Owes(t, c)' => Owes(t, c)
               /\ Free(c)' => Free(c) \/ (Owes(t, c) /\ ~Owes(t, c)')
    PROVE  BudgetInv'
<1>1. SUFFICES ASSUME NEW c \in Commands
               PROVE  BudgetInv!(c)'
  BY DEF BudgetInv
<1>2. /\ attempts[c] \in Nat /\ MaxAttempts \in Nat /\ faults \in Nat /\ requeues \in Nat
      /\ attempts'[c] = attempts[c] /\ faults' = faults /\ requeues' = requeues
  BY LimitsAssumption DEF TypeOK, Unpaid
<1>3. /\ IsFiniteSet(Owing(c)')
      /\ Debt(c) \in Nat
      /\ Debt(c)' \in Nat
      /\ Debt(c)' <= Debt(c)
  BY DebtKept, Zenon DEF BudgetInv
<1>4. BudgetInv!(c)
  BY DEF BudgetInv
<1>5. QED
  BY <1>2, <1>3, <1>4

\* and if a fault or a requeue does.
LEMMA BudgetPaid ==
    ASSUME TypeOK, BudgetInv, UNCHANGED attempts, Paid, NEW t \in Threads,
           \A c \in Commands :
               /\ \A u \in Threads \ {t} : Owes(u, c)' <=> Owes(u, c)
               /\ (Owes(t, c)' => Owes(t, c)) \/ (Free(c)' => Free(c))
    PROVE  BudgetInv'
<1>1. SUFFICES ASSUME NEW c \in Commands
               PROVE  BudgetInv!(c)'
  BY DEF BudgetInv
<1>2. /\ attempts[c] \in Nat /\ MaxAttempts \in Nat /\ faults \in Nat /\ requeues \in Nat
      /\ attempts'[c] = attempts[c]
  BY LimitsAssumption DEF TypeOK
<1>3. /\ IsFiniteSet(Owing(c)')
      /\ Debt(c) \in Nat
      /\ Debt(c)' \in Nat
      /\ Debt(c)' <= Debt(c) + 1
  BY DebtPaid, Zenon DEF BudgetInv
<1>4. BudgetInv!(c)
  BY DEF BudgetInv
<1>5. CASE faults' = faults + 1 /\ UNCHANGED requeues
  BY <1>2, <1>3, <1>4, <1>5
<1>6. CASE requeues' = requeues + 1 /\ UNCHANGED faults
  BY <1>2, <1>3, <1>4, <1>6
<1>7. QED
  BY <1>5, <1>6 DEF Paid

Charged == {"lookup", "post", "settle", "demote"}

\* The other invocations stay where they are.
OthersStay(t) ==
    \A u \in Threads \ {t} : pc'[u] = pc[u] /\ cur'[u] = cur[u] /\ job'[u] = job[u]

\* No row becomes claimable, or is claimed, and no claim of one loses its lease.
RowsKept ==
    \A c \in Commands :
        /\ status'[c] \in Claimables => status[c] \in Claimables
        /\ status'[c] = "processing" => status[c] = "processing" /\ lease'[c] = lease[c]

\* Nobody else comes to owe by a step.
LEMMA OthersOwe ==
    ASSUME NEW t, OthersStay(t)
    PROVE  \A c \in Commands, u \in Threads \ {t} :
               /\ Owes(u, c)' <=> Owes(u, c)
               /\ Working(u, c)' <=> Working(u, c)
BY DEF OthersStay, Owes, Working

\* A step that leaves the rows alone and whose invocation goes on working, if it works,
\* frees no row.
LEMMA NoneFreed ==
    ASSUME NEW t \in Threads, OthersStay(t), RowsKept,
           \A c \in Commands : Working(t, c) => Working(t, c)'
    PROVE  \A c \in Commands : Free(c)' => Free(c)
<1>1. \A c \in Commands, u \in Threads \ {t} : Working(u, c) => Working(u, c)'
  BY OthersOwe, Zenon
<1>2. \A c \in Commands, u \in Threads : Working(u, c) => Working(u, c)'
  BY <1>1, Zenon
<1>3. QED
  BY <1>2, Zenon DEF Free, RowsKept

\* A step of an invocation that executes no command, before or after it, and demotes none.
LEMMA BudgetBystander ==
    ASSUME TypeOK, BudgetInv, UNCHANGED attempts, Unpaid \/ Paid, NEW t \in Threads,
           OthersStay(t), RowsKept, pc[t] \notin Charged, pc'[t] \notin Charged
    PROVE  BudgetInv'
<1>1. \A c \in Commands : ~Owes(t, c) /\ ~Owes(t, c)' /\ ~Working(t, c) /\ ~Working(t, c)'
  BY DEF Owes, Working, Charged
<1>2. \A c \in Commands : Free(c)' => Free(c)
  BY <1>1, NoneFreed, Zenon
<1>3. \A c \in Commands, u \in Threads \ {t} : Owes(u, c)' <=> Owes(u, c)
  BY OthersOwe, Zenon
<1>4. QED
  BY <1>1, <1>2, <1>3, BudgetKept, BudgetPaid, Zenon

\* A step of the worker of a command that stays one.
LEMMA BudgetWorker ==
    ASSUME TypeOK, BudgetInv, UNCHANGED attempts, Unpaid \/ Paid, NEW t \in Threads,
           OthersStay(t), RowsKept,
           pc[t] \in {"lookup", "post", "settle"}, pc'[t] \in {"lookup", "post", "settle"},
           cur'[t] = cur[t], job'[t] = job[t]
    PROVE  BudgetInv'
<1>1. \A c \in Commands :
         /\ Owes(t, c)' <=> Owes(t, c)
         /\ Working(t, c)' <=> Working(t, c)
  BY DEF Owes, Working
<1>2. \A c \in Commands : Free(c)' => Free(c)
  BY <1>1, NoneFreed, Zenon
<1>3. \A c \in Commands, u \in Threads \ {t} : Owes(u, c)' <=> Owes(u, c)
  BY OthersOwe, Zenon
<1>4. QED
  BY <1>1, <1>2, <1>3, BudgetKept, BudgetPaid, Zenon

\* A step that no invocation takes, and that changes rows only where they were free.
LEMMA BudgetAlone ==
    ASSUME TypeOK, BudgetInv, UNCHANGED <<attempts, threadVars>>,
           \/ Unpaid /\ \A c \in Commands : Free(c)' => Free(c)
           \/ Paid
    PROVE  BudgetInv'
<1>1. \A c \in Commands : Owing(c)' = Owing(c)
  BY DEF Owing, Owes, Working, threadVars
<1>2. SUFFICES ASSUME NEW c \in Commands
               PROVE  BudgetInv!(c)'
  BY DEF BudgetInv
<1>3. /\ attempts[c] \in Nat /\ MaxAttempts \in Nat /\ faults \in Nat /\ requeues \in Nat
      /\ attempts'[c] = attempts[c]
  BY LimitsAssumption DEF TypeOK
<1>4. IsFiniteSet(Owing(c)) /\ Cardinality(Owing(c)) \in Nat /\ Owing(c)' = Owing(c)
  BY <1>1, FS_CardinalityType DEF BudgetInv
<1>5. BudgetInv!(c)
  BY DEF BudgetInv
<1>6. CASE Unpaid /\ (Free(c)' => Free(c))
  BY <1>3, <1>4, <1>5, <1>6 DEF Debt, Unpaid
<1>7. CASE Paid
  BY <1>3, <1>4, <1>5, <1>7 DEF Debt, Paid
<1>8. QED
  BY <1>6, <1>7

\* A worker that settles its command for good leaves nothing to owe.
LEMMA BudgetSettled ==
    ASSUME TypeOK, BudgetInv, UNCHANGED attempts, Unpaid, NEW t \in Threads,
           OthersStay(t), pc[t] = "settle", pc'[t] \notin Charged,
           status'[cur[t]] \in Terminal,
           \A d \in Commands \ {cur[t]} : status'[d] = status[d] /\ lease'[d] = lease[d]
    PROVE  BudgetInv'
<1>1. \A d \in Commands \ {cur[t]} : ~Owes(t, d) /\ ~Working(t, d) /\ ~Working(t, d)'
  BY DEF Owes, Working, Charged
<1>2. \A d \in Commands : ~Owes(t, d)'
  BY DEF Owes, Working, Charged
<1>3. \A d \in Commands \ {cur[t]}, u \in Threads : Working(u, d)' <=> Working(u, d)
  BY <1>1, OthersOwe, Zenon
<1>4. \A d \in Commands \ {cur[t]} : Free(d)' => Free(d)
  BY <1>3, Zenon DEF Free
<1>5. \A d \in Commands : d = cur[t] => ~Free(d)'
  BY DEF Free, Terminal, Refused, Claimables, Sendable
<1>6. QED
  BY <1>2, <1>4, <1>5, OthersOwe, BudgetKept, Zenon

\* No step breaks the inductive invariant.
LEMMA BudgetStep == TypeOK /\ BudgetInv /\ [Next]_vars => BudgetInv'
<1> SUFFICES ASSUME TypeOK, BudgetInv, [Next]_vars
             PROVE  BudgetInv'
  OBVIOUS
<1> USE DEF outboxVars, callbackVars, productVars
<1>0. /\ pc \in [Threads -> Labels]
      /\ cur \in [Threads -> Commands \cup {NoCommand}]
      /\ job \in [Threads -> Job]
      /\ status \in [Commands -> Statuses]
      /\ lease \in [Commands -> Leases]
  BY DEF TypeOK, ThreadTypeOK
<1>1. ASSUME NEW t \in Threads, NEW c \in Commands, Publish(t, c)
      PROVE  BudgetInv'
  <2>1. OthersStay(t) /\ pc[t] \notin Charged /\ pc'[t] \notin Charged
    BY <1>0, <1>1 DEF Publish, Enter, OthersStay, Charged
  <2>2. RowsKept /\ UNCHANGED attempts /\ (Unpaid \/ Paid)
    BY <1>0, <1>1 DEF Publish, Enter, RowsKept, Claimables, Sendable, Unpaid, Paid
  <2>3. QED
    BY <2>1, <2>2, BudgetBystander
<1>2. ASSUME NEW t \in Threads, NEW c \in Commands, PublishDuplicate(t, c)
      PROVE  BudgetInv'
  <2>1. OthersStay(t) /\ pc[t] \notin Charged /\ pc'[t] \notin Charged
    BY <1>0, <1>2 DEF PublishDuplicate, Enter, OthersStay, Charged
  <2>2. RowsKept /\ UNCHANGED attempts /\ (Unpaid \/ Paid)
    BY <1>0, <1>2 DEF PublishDuplicate, Enter, RowsKept, Claimables, Sendable, Unpaid, Paid
  <2>3. QED
    BY <2>1, <2>2, BudgetBystander
<1>3. ASSUME NEW t \in Threads, StoreCallback(t)
      PROVE  BudgetInv'
  <2>1. OthersStay(t) /\ pc[t] \notin Charged /\ pc'[t] \notin Charged
    BY <1>0, <1>3 DEF StoreCallback, Goto, End, Enter, OthersStay, Charged
  <2>2. RowsKept /\ UNCHANGED attempts /\ (Unpaid \/ Paid)
    BY <1>0, <1>3 DEF StoreCallback, Goto, End, Enter, RowsKept, Claimables, Sendable, Unpaid, Paid
  <2>3. QED
    BY <2>1, <2>2, BudgetBystander
<1>4. ASSUME NEW t \in Threads, NEW c \in Commands, Send(t, c)
      PROVE  BudgetInv'
  <2>1. OthersStay(t) /\ pc[t] \notin Charged /\ pc'[t] \notin Charged
    BY <1>0, <1>4 DEF Send, Takes, OthersStay, Charged
  <2>2. RowsKept /\ UNCHANGED attempts /\ (Unpaid \/ Paid)
    BY <1>0, <1>4 DEF Send, Takes, RowsKept, Claimables, Sendable, Unpaid, Paid
  <2>3. QED
    BY <2>1, <2>2, BudgetBystander
<1>5. ASSUME NEW t \in Threads, NEW c \in Commands, SendFails(t, c)
      PROVE  BudgetInv'
  <2>1. OthersStay(t) /\ pc[t] \notin {"lookup", "post", "settle"}
    BY <1>0, <1>5 DEF SendFails, Fault, Takes, OthersStay
  <2>2. RowsKept /\ UNCHANGED attempts /\ Paid
    BY <1>5 DEF SendFails, Fault, Takes, RowsKept, Paid
  <2>3. \A d \in Commands : Working(t, d) => Working(t, d)'
    BY <2>1 DEF Working
  <2>4. \A d \in Commands : Free(d)' => Free(d)
    BY <2>1, <2>2, <2>3, NoneFreed, Zenon
  <2>5. QED
    BY <2>1, <2>2, <2>4, OthersOwe, BudgetPaid, Zenon
<1>6. ASSUME NEW t \in Threads, Confirm(t)
      PROVE  BudgetInv'
  <2>1. OthersStay(t) /\ pc[t] \notin Charged /\ pc'[t] \notin Charged
    BY <1>0, <1>6 DEF Confirm, NextRow, Loop, Enter, End, OthersStay, Charged
  <2>2. RowsKept /\ UNCHANGED attempts /\ (Unpaid \/ Paid)
    BY <1>0, <1>6 DEF Confirm, NextRow, Loop, Enter, End, RowsKept, Claimables, Sendable, Unpaid, Paid
  <2>3. QED
    BY <2>1, <2>2, BudgetBystander
<1>7. ASSUME NEW t \in Threads, ConfirmFails(t)
      PROVE  BudgetInv'
  <2>1. OthersStay(t) /\ pc[t] \notin {"lookup", "post", "settle"}
    BY <1>0, <1>7 DEF ConfirmFails, Fault, Goto, OthersStay
  <2>2. RowsKept /\ UNCHANGED attempts /\ Paid
    BY <1>7 DEF ConfirmFails, Fault, Goto, RowsKept, Paid
  <2>3. \A d \in Commands : Working(t, d) => Working(t, d)'
    BY <2>1 DEF Working
  <2>4. \A d \in Commands : Free(d)' => Free(d)
    BY <2>1, <2>2, <2>3, NoneFreed, Zenon
  <2>5. QED
    BY <2>1, <2>2, <2>4, OthersOwe, BudgetPaid, Zenon
<1>8. ASSUME NEW t \in Threads, Demote(t)
      PROVE  BudgetInv'
  <2>1. /\ OthersStay(t) /\ pc[t] = "demote" /\ pc'[t] \in {"send", "idle"}
        /\ UNCHANGED attempts /\ Unpaid
    BY <1>0, <1>8 DEF Demote, NextRow, Loop, Enter, End, OthersStay, Unpaid
  <2>2. \A d \in Commands : ~Owes(t, d)' /\ (Owes(t, d) <=> d = cur[t])
    BY <2>1 DEF Owes, Working
  <2>3. \A d \in Commands \ {cur[t]} : status'[d] = status[d] /\ lease'[d] = lease[d]
    BY <1>0, <1>8 DEF Demote
  <2>4. \A d \in Commands, u \in Threads : Working(u, d)' <=> Working(u, d)
    BY <2>1 DEF OthersStay, Working
  <2>5. \A d \in Commands \ {cur[t]} : Free(d)' => Free(d)
    BY <2>3, <2>4, Zenon DEF Free
  <2>6. QED
    BY <2>1, <2>2, <2>5, OthersOwe, BudgetKept, Zenon
<1>9. ASSUME NEW t \in Threads, SweepStale(t)
      PROVE  BudgetInv'
  <2>1. /\ OthersStay(t) /\ pc[t] = "idle" /\ pc'[t] = "select"
        /\ UNCHANGED attempts /\ Unpaid
    BY <1>0, <1>9 DEF SweepStale, Goto, Reset, OthersStay, Unpaid
  <2>2. \A d \in Commands : ~Owes(t, d) /\ ~Owes(t, d)' /\ ~Working(t, d) /\ ~Working(t, d)'
    BY <2>1 DEF Owes, Working
  <2>3. \A d \in Commands, u \in Threads : Working(u, d)' <=> Working(u, d)
    BY <2>1, <2>2, OthersOwe, Zenon
  <2>4. \A d \in Commands :
           Stale(d) \/ (status'[d] = status[d] /\ lease'[d] = lease[d])
    BY <1>9 DEF SweepStale, Reset
  <2>5. \A d \in Commands : Stale(d) => Free(d)
    BY DEF Stale, Free
  <2>6. \A d \in Commands : Free(d)' => Free(d)
    BY <2>3, <2>4, <2>5, Zenon DEF Free
  <2>7. QED
    BY <2>1, <2>2, <2>6, OthersOwe, BudgetKept, Zenon
<1>10. ASSUME NEW t \in Threads, SweepSelect(t)
      PROVE  BudgetInv'
  <2>1. OthersStay(t) /\ pc[t] \notin Charged /\ pc'[t] \notin Charged
    BY <1>0, <1>10 DEF SweepSelect, Loop, Enter, End, OthersStay, Charged
  <2>2. RowsKept /\ UNCHANGED attempts /\ (Unpaid \/ Paid)
    BY <1>0, <1>10 DEF SweepSelect, Loop, Enter, End, RowsKept, Claimables, Sendable, Unpaid, Paid
  <2>3. QED
    BY <2>1, <2>2, BudgetBystander
<1>11. ASSUME NEW t \in Threads, NEW scope \in SUBSET Slack, Requeue(t, scope)
      PROVE  BudgetInv'
  <2>1. /\ OthersStay(t) /\ pc[t] \notin Charged /\ pc'[t] \notin Charged
        /\ UNCHANGED attempts /\ Paid
    BY <1>0, <1>11 DEF Requeue, Loop, Enter, End, Reset, OthersStay, Charged, Paid
  <2>2. \A d \in Commands : ~Owes(t, d)'
    BY <2>1 DEF Owes, Working, Charged
  <2>3. QED
    BY <2>1, <2>2, OthersOwe, BudgetPaid, Zenon
<1>12. ASSUME NEW t \in Threads, NEW c \in Commands, NEW n \in Deliveries, Claim(t, c, n)
      PROVE  BudgetInv'
  <2>1. /\ OthersStay(t) /\ pc[t] = "idle" /\ pc'[t] \in {"lookup", "post"} /\ cur'[t] = c
        /\ job'[t].exhausted = Exhausted(attempts[c] + 1)
    BY <1>0, <1>12 DEF Claim, Enter, OthersStay
  <2>2. /\ Unpaid
        /\ attempts' = [attempts EXCEPT ![c] = @ + 1]
        /\ status[c] \in Claimables /\ status'[c] = "processing" /\ lease'[c] = "live"
        /\ \A d \in Commands \ {c} : status'[d] = status[d] /\ lease'[d] = lease[d]
    BY <1>0, <1>12 DEF Claim, Claimable, Claimables, Unpaid
  <2>3. \A d \in Commands : ~Owes(t, d) /\ ~Working(t, d)
    BY <2>1 DEF Owes, Working
  <2>4. /\ \A d \in Commands \ {c} : ~Owes(t, d)' /\ ~Working(t, d)'
        /\ Working(t, c)'
    BY <2>1 DEF Owes, Working
  <2>5. \A d \in Commands : IsFiniteSet(Owing(d))
    BY DEF BudgetInv
  <2>6. \A d \in Commands, u \in Threads \ {t} :
           (Owes(u, d)' <=> Owes(u, d)) /\ (Working(u, d)' <=> Working(u, d))
    BY <2>1, OthersOwe, Zenon
  <2>7. /\ MaxAttempts \in Nat /\ faults \in Nat /\ requeues \in Nat
        /\ faults' = faults /\ requeues' = requeues
        /\ \A d \in Commands : attempts[d] \in Nat
        /\ \A d \in Commands \ {c} : attempts'[d] = attempts[d]
        /\ attempts'[c] = attempts[c] + 1
    BY <2>2, LimitsAssumption DEF TypeOK, Unpaid
  <2>8. ASSUME NEW d \in Commands \ {c}
        PROVE  BudgetInv!(d)'
    <3>1. \A u \in Threads : Working(u, d)' <=> Working(u, d)
      BY <2>3, <2>4, <2>6, Zenon
    <3>2. Free(d)' => Free(d)
      BY <2>2, <3>1, Zenon DEF Free
    <3>3. IsFiniteSet(Owing(d)') /\ Debt(d) \in Nat /\ Debt(d)' \in Nat /\ Debt(d)' <= Debt(d)
      BY <2>3, <2>4, <2>5, <2>6, <3>2, DebtKept, Zenon
    <3>4. BudgetInv!(d)
      BY DEF BudgetInv
    <3>5. attempts[d] \in Nat /\ attempts'[d] = attempts[d]
      BY <2>7
    <3>6. QED
      BY <2>7, <3>3, <3>4, <3>5
  <2>9. BudgetInv!(c)'
    <3>1. Free(c) /\ ~Free(c)'
      BY <2>2, <2>4 DEF Free, Claimables, Sendable
    <3>2. /\ IsFiniteSet(Owing(c)')
          /\ Cardinality(Owing(c)) \in Nat
          /\ Cardinality(Owing(c)') \in Nat
          /\ ~Owes(t, c)' => Cardinality(Owing(c)') = Cardinality(Owing(c))
          /\ Owes(t, c)' => Cardinality(Owing(c)') = Cardinality(Owing(c)) + 1
      BY <2>3, <2>5, <2>6, OwingMoves, Zenon
    <3>3. Debt(c) = Cardinality(Owing(c)) + 1 /\ Debt(c)' = Cardinality(Owing(c)')
      BY <3>1, <3>2 DEF Debt
    <3>4. Owes(t, c)' => attempts[c] + 1 < MaxAttempts
      <4>1. Owes(t, c)' => ~job'[t].exhausted
        BY <2>1 DEF Owes
      <4>2. ~job'[t].exhausted => ~Exhausted(attempts[c] + 1)
        BY <2>1, Zenon
      <4>3. attempts[c] \in Nat /\ MaxAttempts \in Nat
        BY <2>7
      <4>4. QED
        BY <4>1, <4>2, <4>3 DEF Exhausted
    <3>5. BudgetInv!(c)
      BY DEF BudgetInv
    <3>6. attempts[c] \in Nat
      BY <2>7
    <3>7. QED
      BY <2>7, <3>2, <3>3, <3>4, <3>5, <3>6
  <2>10. QED
    BY <2>8, <2>9 DEF BudgetInv
<1>13. ASSUME NEW t \in Threads, Lookup(t)
      PROVE  BudgetInv'
  <2>1. /\ OthersStay(t)
        /\ pc[t] \in {"lookup", "post", "settle"} /\ pc'[t] \in {"lookup", "post", "settle"}
        /\ cur'[t] = cur[t] /\ job'[t] = job[t]
    BY <1>0, <1>13 DEF Lookup, Goto, Returns, OthersStay
  <2>2. RowsKept /\ UNCHANGED attempts /\ (Unpaid \/ Paid)
    BY <1>13 DEF Lookup, Goto, Returns, RowsKept, Unpaid, Paid
  <2>3. QED
    BY <2>1, <2>2, BudgetWorker
<1>14. ASSUME NEW t \in Threads, LookupMisses(t)
      PROVE  BudgetInv'
  <2>1. /\ OthersStay(t)
        /\ pc[t] \in {"lookup", "post", "settle"} /\ pc'[t] \in {"lookup", "post", "settle"}
        /\ cur'[t] = cur[t] /\ job'[t] = job[t]
    BY <1>0, <1>14 DEF LookupMisses, Goto, Fault, OthersStay
  <2>2. RowsKept /\ UNCHANGED attempts /\ (Unpaid \/ Paid)
    BY <1>14 DEF LookupMisses, Goto, Fault, RowsKept, Unpaid, Paid
  <2>3. QED
    BY <2>1, <2>2, BudgetWorker
<1>15. ASSUME NEW t \in Threads, Post(t)
      PROVE  BudgetInv'
  <2>1. /\ OthersStay(t)
        /\ pc[t] \in {"lookup", "post", "settle"} /\ pc'[t] \in {"lookup", "post", "settle"}
        /\ cur'[t] = cur[t] /\ job'[t] = job[t]
    BY <1>0, <1>15 DEF Post, Returns, OthersStay
  <2>2. RowsKept /\ UNCHANGED attempts /\ (Unpaid \/ Paid)
    BY <1>15 DEF Post, Returns, RowsKept, Unpaid, Paid
  <2>3. QED
    BY <2>1, <2>2, BudgetWorker
<1>16. ASSUME NEW t \in Threads, PostUnconfirmed(t)
      PROVE  BudgetInv'
  <2>1. /\ OthersStay(t)
        /\ pc[t] \in {"lookup", "post", "settle"} /\ pc'[t] \in {"lookup", "post", "settle"}
        /\ cur'[t] = cur[t] /\ job'[t] = job[t]
    BY <1>0, <1>16 DEF PostUnconfirmed, Returns, Fault, OthersStay
  <2>2. RowsKept /\ UNCHANGED attempts /\ (Unpaid \/ Paid)
    BY <1>16 DEF PostUnconfirmed, Returns, Fault, RowsKept, Unpaid, Paid
  <2>3. QED
    BY <2>1, <2>2, BudgetWorker
<1>17. ASSUME NEW t \in Threads, HandlerFails(t)
      PROVE  BudgetInv'
  <2>1. /\ OthersStay(t)
        /\ pc[t] \in {"lookup", "post", "settle"} /\ pc'[t] \in {"lookup", "post", "settle"}
        /\ cur'[t] = cur[t] /\ job'[t] = job[t]
    BY <1>0, <1>17 DEF HandlerFails, Returns, OthersStay
  <2>2. RowsKept /\ UNCHANGED attempts /\ (Unpaid \/ Paid)
    BY <1>17 DEF HandlerFails, Returns, RowsKept, Unpaid, Paid
  <2>3. QED
    BY <2>1, <2>2, BudgetWorker
<1>18. ASSUME NEW t \in Threads, SettleDelivered(t)
      PROVE  BudgetInv'
  <2>1. /\ OthersStay(t) /\ pc[t] = "settle" /\ pc'[t] \notin Charged
        /\ UNCHANGED attempts /\ Unpaid
    BY <1>0, <1>18 DEF SettleDelivered, Goto, Finish, OthersStay, Charged, Unpaid
  <2>2. cur[t] \in Commands
    BY <2>1, JobFields DEF Between
  <2>3. /\ status'[cur[t]] \in Terminal
        /\ \A d \in Commands \ {cur[t]} : status'[d] = status[d] /\ lease'[d] = lease[d]
    BY <1>0, <2>2, <1>18 DEF SettleDelivered, Finish, Terminal
  <2>4. QED
    BY <2>1, <2>3, BudgetSettled
<1>19. ASSUME NEW t \in Threads, SettleRetrying(t)
      PROVE  BudgetInv'
  <2>1. /\ OthersStay(t) /\ pc[t] = "settle" /\ pc'[t] = "nack" /\ ~job[t].exhausted
        /\ UNCHANGED attempts /\ Unpaid
        /\ \A d \in Commands \ {cur[t]} : status'[d] = status[d] /\ lease'[d] = lease[d]
    BY <1>0, <1>19 DEF SettleRetrying, Goto, OthersStay, Unpaid
  <2>2. \A d \in Commands : ~Owes(t, d)' /\ (d = cur[t] => Owes(t, d))
    BY <2>1 DEF Owes, Working
  <2>3. \A d \in Commands \ {cur[t]} : ~Owes(t, d) /\ ~Working(t, d) /\ ~Working(t, d)'
    BY <2>1 DEF Owes, Working
  <2>4. \A d \in Commands \ {cur[t]}, u \in Threads : Working(u, d)' <=> Working(u, d)
    BY <2>1, <2>3, OthersOwe, Zenon
  <2>5. \A d \in Commands \ {cur[t]} : Free(d)' => Free(d)
    BY <2>1, <2>4, Zenon DEF Free
  <2>6. QED
    BY <2>1, <2>2, <2>5, OthersOwe, BudgetKept, Zenon
<1>20. ASSUME NEW t \in Threads, SettleRefused(t)
      PROVE  BudgetInv'
  <2>1. /\ OthersStay(t) /\ pc[t] = "settle" /\ pc'[t] \notin Charged
        /\ UNCHANGED attempts /\ Unpaid
    BY <1>0, <1>20 DEF SettleRefused, Outcome, Goto, Finish, OthersStay, Charged, Unpaid
  <2>2. cur[t] \in Commands
    BY <2>1, JobFields DEF Between
  <2>3. /\ status'[cur[t]] \in Terminal
        /\ \A d \in Commands \ {cur[t]} : status'[d] = status[d] /\ lease'[d] = lease[d]
    BY <1>0, <2>2, <1>20 DEF SettleRefused, Outcome, Finish, Terminal, Refused
  <2>4. QED
    BY <2>1, <2>3, BudgetSettled
<1>21. ASSUME NEW t \in Threads, SettleFails(t)
      PROVE  BudgetInv'
  <2>1. /\ OthersStay(t) /\ pc[t] = "settle" /\ pc'[t] \in {"settle", "nack"}
        /\ cur'[t] = cur[t] /\ job'[t] = job[t]
        /\ UNCHANGED <<attempts, status, lease>> /\ Paid
    BY <1>0, <1>21 DEF SettleFails, Fault, Throw, Goto, Returns, OthersStay, Paid
  <2>2. \A d \in Commands : Owes(t, d)' => Owes(t, d)
    BY <2>1 DEF Owes, Working
  <2>3. QED
    BY <2>1, <2>2, OthersOwe, BudgetPaid, Zenon
<1>22. ASSUME NEW t \in Threads, NEW c \in Commands, CallbackSelect(t, c)
      PROVE  BudgetInv'
  <2>1. OthersStay(t) /\ pc[t] \notin Charged /\ pc'[t] \notin Charged
    BY <1>0, <1>22 DEF CallbackSelect, Takes, CallbackDone, Goto, NextRow, Loop, Enter, End, OthersStay, Charged
  <2>2. RowsKept /\ UNCHANGED attempts /\ (Unpaid \/ Paid)
    BY <1>0, <1>22 DEF CallbackSelect, Takes, CallbackDone, Goto, NextRow, Loop, Enter, End, RowsKept, Claimables, Sendable, Unpaid, Paid
  <2>3. QED
    BY <2>1, <2>2, BudgetBystander
<1>23. ASSUME NEW t \in Threads, CallbackSend(t)
      PROVE  BudgetInv'
  <2>1. OthersStay(t) /\ pc[t] \notin Charged /\ pc'[t] \notin Charged
    BY <1>0, <1>23 DEF CallbackSend, Goto, OthersStay, Charged
  <2>2. RowsKept /\ UNCHANGED attempts /\ (Unpaid \/ Paid)
    BY <1>0, <1>23 DEF CallbackSend, Goto, RowsKept, Claimables, Sendable, Unpaid, Paid
  <2>3. QED
    BY <2>1, <2>2, BudgetBystander
<1>24. ASSUME NEW t \in Threads, CallbackConfirm(t)
      PROVE  BudgetInv'
  <2>1. OthersStay(t) /\ pc[t] \notin Charged /\ pc'[t] \notin Charged
    BY <1>0, <1>24 DEF CallbackConfirm, CallbackDone, Goto, NextRow, Loop, Enter, End, OthersStay, Charged
  <2>2. RowsKept /\ UNCHANGED attempts /\ (Unpaid \/ Paid)
    BY <1>0, <1>24 DEF CallbackConfirm, CallbackDone, Goto, NextRow, Loop, Enter, End, RowsKept, Claimables, Sendable, Unpaid, Paid
  <2>3. QED
    BY <2>1, <2>2, BudgetBystander
<1>25. ASSUME NEW t \in Threads, CallbackSendFails(t)
      PROVE  BudgetInv'
  <2>1. OthersStay(t) /\ pc[t] \notin Charged /\ pc'[t] \notin Charged
    BY <1>0, <1>25 DEF CallbackSendFails, Goto, Fault, OthersStay, Charged
  <2>2. RowsKept /\ UNCHANGED attempts /\ (Unpaid \/ Paid)
    BY <1>0, <1>25 DEF CallbackSendFails, Goto, Fault, RowsKept, Claimables, Sendable, Unpaid, Paid
  <2>3. QED
    BY <2>1, <2>2, BudgetBystander
<1>26. ASSUME NEW t \in Threads, CallbackNote(t)
      PROVE  BudgetInv'
  <2>1. OthersStay(t) /\ pc[t] \notin Charged /\ pc'[t] \notin Charged
    BY <1>0, <1>26 DEF CallbackNote, CallbackDone, Goto, NextRow, Loop, Enter, End, OthersStay, Charged
  <2>2. RowsKept /\ UNCHANGED attempts /\ (Unpaid \/ Paid)
    BY <1>0, <1>26 DEF CallbackNote, CallbackDone, Goto, NextRow, Loop, Enter, End, RowsKept, Claimables, Sendable, Unpaid, Paid
  <2>3. QED
    BY <2>1, <2>2, BudgetBystander
<1>27. ASSUME NEW t \in Threads, CallbackThrows(t)
      PROVE  BudgetInv'
  <2>1. OthersStay(t) /\ pc[t] \notin {"lookup", "post", "settle"}
    BY <1>0, <1>27 DEF CallbackThrows, Throw, Goto, Returns, End, Enter, OthersStay
  <2>2. RowsKept /\ UNCHANGED attempts /\ Paid
    BY <1>27 DEF CallbackThrows, Fault, RowsKept, Paid
  <2>3. \A d \in Commands : Working(t, d) => Working(t, d)'
    BY <2>1 DEF Working
  <2>4. \A d \in Commands : Free(d)' => Free(d)
    BY <2>1, <2>2, <2>3, NoneFreed, Zenon
  <2>5. QED
    BY <2>1, <2>2, <2>4, OthersOwe, BudgetPaid, Zenon
<1>28. ASSUME NEW t \in Threads, NEW c \in Commands, NEW n \in Deliveries, ClaimCallback(t, c, n)
      PROVE  BudgetInv'
  <2>1. OthersStay(t) /\ pc[t] \notin Charged /\ pc'[t] \notin Charged
    BY <1>0, <1>28 DEF ClaimCallback, Enter, OthersStay, Charged
  <2>2. RowsKept /\ UNCHANGED attempts /\ (Unpaid \/ Paid)
    BY <1>0, <1>28 DEF ClaimCallback, Enter, RowsKept, Claimables, Sendable, Unpaid, Paid
  <2>3. QED
    BY <2>1, <2>2, BudgetBystander
<1>29. ASSUME NEW t \in Threads, ReadReceipt(t)
      PROVE  BudgetInv'
  <2>1. OthersStay(t) /\ pc[t] \notin Charged /\ pc'[t] \notin Charged
    BY <1>0, <1>29 DEF ReadReceipt, Returns, OthersStay, Charged
  <2>2. RowsKept /\ UNCHANGED attempts /\ (Unpaid \/ Paid)
    BY <1>0, <1>29 DEF ReadReceipt, Returns, RowsKept, Claimables, Sendable, Unpaid, Paid
  <2>3. QED
    BY <2>1, <2>2, BudgetBystander
<1>30. ASSUME NEW t \in Threads, Apply(t)
      PROVE  BudgetInv'
  <2>1. OthersStay(t) /\ pc[t] \notin Charged /\ pc'[t] \notin Charged
    BY <1>0, <1>30 DEF Apply, Goto, OthersStay, Charged
  <2>2. RowsKept /\ UNCHANGED attempts /\ (Unpaid \/ Paid)
    BY <1>0, <1>30 DEF Apply, Goto, RowsKept, Claimables, Sendable, Unpaid, Paid
  <2>3. QED
    BY <2>1, <2>2, BudgetBystander
<1>31. ASSUME NEW t \in Threads, ApplyFails(t)
      PROVE  BudgetInv'
  <2>1. OthersStay(t) /\ pc[t] \notin Charged /\ pc'[t] \notin Charged
    BY <1>0, <1>31 DEF ApplyFails, Returns, OthersStay, Charged
  <2>2. RowsKept /\ UNCHANGED attempts /\ (Unpaid \/ Paid)
    BY <1>0, <1>31 DEF ApplyFails, Returns, RowsKept, Claimables, Sendable, Unpaid, Paid
  <2>3. QED
    BY <2>1, <2>2, BudgetBystander
<1>32. ASSUME NEW t \in Threads, CallbackSettle(t)
      PROVE  BudgetInv'
  <2>1. OthersStay(t) /\ pc[t] \notin Charged /\ pc'[t] \notin Charged
    BY <1>0, <1>32 DEF CallbackSettle, Goto, OthersStay, Charged
  <2>2. RowsKept /\ UNCHANGED attempts /\ (Unpaid \/ Paid)
    BY <1>0, <1>32 DEF CallbackSettle, Goto, RowsKept, Claimables, Sendable, Unpaid, Paid
  <2>3. QED
    BY <2>1, <2>2, BudgetBystander
<1>33. ASSUME NEW t \in Threads, CallbackSettleFails(t)
      PROVE  BudgetInv'
  <2>1. OthersStay(t) /\ pc[t] \notin Charged /\ pc'[t] \notin Charged
    BY <1>0, <1>33 DEF CallbackSettleFails, Goto, Returns, Fault, OthersStay, Charged
  <2>2. RowsKept /\ UNCHANGED attempts /\ (Unpaid \/ Paid)
    BY <1>0, <1>33 DEF CallbackSettleFails, Goto, Returns, Fault, RowsKept, Claimables, Sendable, Unpaid, Paid
  <2>3. QED
    BY <2>1, <2>2, BudgetBystander
<1>34. ASSUME NEW t \in Threads, CallbackSweepStale(t)
      PROVE  BudgetInv'
  <2>1. OthersStay(t) /\ pc[t] \notin Charged /\ pc'[t] \notin Charged
    BY <1>0, <1>34 DEF CallbackSweepStale, Goto, OthersStay, Charged
  <2>2. RowsKept /\ UNCHANGED attempts /\ (Unpaid \/ Paid)
    BY <1>0, <1>34 DEF CallbackSweepStale, Goto, RowsKept, Claimables, Sendable, Unpaid, Paid
  <2>3. QED
    BY <2>1, <2>2, BudgetBystander
<1>35. ASSUME NEW t \in Threads, CallbackSweepScan(t)
      PROVE  BudgetInv'
  <2>1. OthersStay(t) /\ pc[t] \notin Charged /\ pc'[t] \notin Charged
    BY <1>0, <1>35 DEF CallbackSweepScan, Loop, Enter, End, OthersStay, Charged
  <2>2. RowsKept /\ UNCHANGED attempts /\ (Unpaid \/ Paid)
    BY <1>0, <1>35 DEF CallbackSweepScan, Loop, Enter, End, RowsKept, Claimables, Sendable, Unpaid, Paid
  <2>3. QED
    BY <2>1, <2>2, BudgetBystander
<1>36. ASSUME NEW t \in Threads, Ack(t)
      PROVE  BudgetInv'
  <2>1. OthersStay(t) /\ pc[t] \notin Charged /\ pc'[t] \notin Charged
    BY <1>0, <1>36 DEF Ack, End, Enter, OthersStay, Charged
  <2>2. RowsKept /\ UNCHANGED attempts /\ (Unpaid \/ Paid)
    BY <1>0, <1>36 DEF Ack, End, Enter, RowsKept, Claimables, Sendable, Unpaid, Paid
  <2>3. QED
    BY <2>1, <2>2, BudgetBystander
<1>37. ASSUME NEW t \in Threads, Nack(t)
      PROVE  BudgetInv'
  <2>1. OthersStay(t) /\ pc[t] \notin Charged /\ pc'[t] \notin Charged
    BY <1>0, <1>37 DEF Nack, Release, End, Enter, OthersStay, Charged
  <2>2. RowsKept /\ UNCHANGED attempts /\ (Unpaid \/ Paid)
    BY <1>0, <1>37 DEF Nack, Release, End, Enter, RowsKept, Claimables, Sendable, Unpaid, Paid
  <2>3. QED
    BY <2>1, <2>2, BudgetBystander
<1>38. ASSUME NEW t \in Threads, Crash(t)
      PROVE  BudgetInv'
  <2>1. OthersStay(t) /\ pc'[t] = "idle" /\ UNCHANGED attempts /\ Paid
    BY <1>0, <1>38 DEF Crash, Fault, Release, End, Enter, OthersStay, Paid
  <2>2. \A d \in Commands : ~Owes(t, d)'
    BY <2>1 DEF Owes, Working
  <2>3. QED
    BY <2>1, <2>2, OthersOwe, BudgetPaid, Zenon
<1>39. ASSUME NEW t \in Threads, Abort(t)
      PROVE  BudgetInv'
  <2>1. OthersStay(t) /\ pc'[t] = "idle" /\ UNCHANGED attempts /\ Paid
    BY <1>0, <1>39 DEF Abort, Fault, End, Enter, OthersStay, Paid
  <2>2. \A d \in Commands : ~Owes(t, d)'
    BY <2>1 DEF Owes, Working
  <2>3. QED
    BY <2>1, <2>2, OthersOwe, BudgetPaid, Zenon
<1>40. ASSUME NEW c \in Commands, NEW n \in Deliveries, Skip(c, n)
      PROVE  BudgetInv'
  <2>1. UNCHANGED <<attempts, threadVars, status, lease>> /\ (Unpaid \/ Paid)
    BY <1>40 DEF Skip, threadVars, Unpaid, Paid
  <2>2. \A d \in Commands : Free(d)' => Free(d)
    BY <2>1 DEF Free, Working, threadVars
  <2>3. QED
    BY <2>1, <2>2, BudgetAlone
<1>41. ASSUME NEW c \in Commands, NEW n \in Deliveries, BatchDies(c, n)
      PROVE  BudgetInv'
  <2>1. UNCHANGED <<attempts, threadVars, status, lease>> /\ (Unpaid \/ Paid)
    BY <1>41 DEF BatchDies, Fault, threadVars, Unpaid, Paid
  <2>2. \A d \in Commands : Free(d)' => Free(d)
    BY <2>1 DEF Free, Working, threadVars
  <2>3. QED
    BY <2>1, <2>2, BudgetAlone
<1>42. ASSUME NEW c \in Commands, LeaseExpires(c)
      PROVE  BudgetInv'
  <2>1. /\ UNCHANGED <<attempts, threadVars, status>>
        /\ \A d \in Commands \ {c} : lease'[d] = lease[d]
        /\ Paid \/ (Unpaid /\ \A u \in Threads : ~Working(u, c))
    BY <1>0, <1>42 DEF LeaseExpires, Fault, Healthy, Paid, Unpaid
  <2>2. \A d \in Commands, u \in Threads : Working(u, d)' <=> Working(u, d)
    BY <2>1 DEF Working, threadVars
  <2>3. \A d \in Commands \ {c} : Free(d)' => Free(d)
    BY <2>1, <2>2 DEF Free
  <2>4. (\A u \in Threads : ~Working(u, c)) => (Free(c)' => Free(c))
    BY <2>1, <2>2 DEF Free
  <2>5. QED
    BY <2>1, <2>3, <2>4, BudgetAlone
<1>43. ASSUME NEW c \in Commands, CallbackLeaseExpires(c)
      PROVE  BudgetInv'
  <2>1. UNCHANGED <<attempts, threadVars, status, lease>> /\ (Unpaid \/ Paid)
    BY <1>43 DEF CallbackLeaseExpires, Fault, Healthy, threadVars, Unpaid, Paid
  <2>2. \A d \in Commands : Free(d)' => Free(d)
    BY <2>1 DEF Free, Working, threadVars
  <2>3. QED
    BY <2>1, <2>2, BudgetAlone
<1>44. ASSUME NEW c \in Commands, BackoffElapses(c)
      PROVE  BudgetInv'
  <2>1. UNCHANGED <<attempts, threadVars, status, lease>> /\ (Unpaid \/ Paid)
    BY <1>44 DEF BackoffElapses, threadVars, Unpaid, Paid
  <2>2. \A d \in Commands : Free(d)' => Free(d)
    BY <2>1 DEF Free, Working, threadVars
  <2>3. QED
    BY <2>1, <2>2, BudgetAlone
<1>45. CASE UNCHANGED vars
  <2>1. UNCHANGED <<attempts, threadVars, status, lease>> /\ Unpaid
    BY <1>45 DEF vars, Unpaid
  <2>2. \A d \in Commands : Free(d)' => Free(d)
    BY <2>1 DEF Free, Working, threadVars
  <2>3. QED
    BY <2>1, <2>2, BudgetAlone
<1>46. QED
  BY <1>1, <1>2, <1>3, <1>4, <1>5, <1>6, <1>7, <1>8, <1>9, <1>10, <1>11, <1>12, <1>13,
     <1>14, <1>15, <1>16, <1>17, <1>18, <1>19, <1>20, <1>21, <1>22, <1>23, <1>24, <1>25,
     <1>26, <1>27, <1>28, <1>29, <1>30, <1>31, <1>32, <1>33, <1>34, <1>35, <1>36, <1>37,
     <1>38, <1>39, <1>40, <1>41, <1>42, <1>43, <1>44, <1>45
     DEF Next, Start, Continue, Queueing, Executing, CallbackQueueing, CallbackExecuting

\* AttemptsWithinBudget for every number of commands, invocations, requeues and faults of
\* every kind: handlers that outlive their leases and failing statements included.
THEOREM AttemptsBounded == Spec => []AttemptsWithinBudget
<1>1. Init => BudgetInv
  <2> SUFFICES ASSUME Init
               PROVE  BudgetInv
    OBVIOUS
  <2>1. \A c \in Commands : Owing(c) = {}
    BY DEF Init, Owing, Owes, Working
  <2>2. IsFiniteSet({}) /\ Cardinality({}) = 0
    BY FS_EmptySet
  <2>3. \A c \in Commands : IsFiniteSet(Owing(c)) /\ Debt(c) <= 1
    BY <2>1, <2>2 DEF Debt
  <2>4. \A c \in Commands : attempts[c] = 0 /\ ~(attempts[c] >= MaxAttempts)
    BY LimitsAssumption DEF Init
  <2>5. faults = 0 /\ requeues = 0
    BY DEF Init
  <2>6. QED
    BY <2>3, <2>4, <2>5 DEF BudgetInv
<1>2. TypeOK /\ BudgetInv => AttemptsWithinBudget
  <2> SUFFICES ASSUME TypeOK, BudgetInv, NEW c \in Commands
               PROVE  attempts[c] <= MaxAttempts + faults + requeues
    BY DEF AttemptsWithinBudget
  <2>1. /\ attempts[c] \in Nat /\ MaxAttempts \in Nat /\ faults \in Nat /\ requeues \in Nat
        /\ Cardinality(Owing(c)) \in Nat
    BY LimitsAssumption, FS_CardinalityType DEF TypeOK, BudgetInv
  <2>2. Debt(c) \in Nat
    BY <2>1 DEF Debt
  <2>3. QED
    BY <2>1, <2>2 DEF BudgetInv
<1>3. QED
  BY TypeCorrect, BudgetStep, <1>1, <1>2, PTL DEF Spec
=============================================================================
