-------------------------- MODULE ReviewJobsProofs --------------------------
(***************************************************************************)
(* What holds of ReviewJobs for every number of heads, webhooks, runners   *)
(* and attempts.                                                           *)
(***************************************************************************)
EXTENDS ReviewJobs, TLAPS

USE DEF pullVars, hookVars, jobVars, runnerVars, counters, vars, Heads, Active, Ended,
        Actions, Payloads

LEMMA SendsAPayload ==
  ASSUME NEW action \in Actions, NEW h \in Heads, NEW isDraft \in BOOLEAN,
         sent \subseteq Payloads, waiting \subseteq sent, Sends(action, h, isDraft)
  PROVE  sent' \subseteq Payloads /\ waiting' \subseteq sent'
  BY DEF Sends

LEMMA Typed == Spec => []TypeOK
  <1> USE ReviewAssumption
  <1>1. Init => TypeOK
    BY DEF Init, TypeOK
  <1>2. TypeOK /\ [Next]_vars => TypeOK'
    <2> SUFFICES ASSUME TypeOK, [Next]_vars PROVE TypeOK'
      OBVIOUS
    <2> USE DEF TypeOK
    <2>1. CASE Push
      BY <2>1 DEF Push, Sends
    <2>2. CASE MarkReady
      <3>1. head \in Heads /\ "ready_for_review" \in Actions
        BY <2>2, SMT DEF MarkReady
      <3>2. sent' \subseteq Payloads /\ waiting' \subseteq sent'
        BY <2>2, <3>1, SendsAPayload, ZenonT(40) DEF MarkReady
      <3>3. QED
        BY <2>2, <3>2 DEF MarkReady
    <2>3. CASE Close
      <3>1. head \in Heads /\ "closed" \in Actions
        BY <2>3, SMT DEF Close
      <3>2. sent' \subseteq Payloads /\ waiting' \subseteq sent'
        BY <2>3, <3>1, SendsAPayload, ZenonT(40) DEF Close
      <3>3. QED
        BY <2>3, <3>2 DEF Close
    <2>4. ASSUME NEW p \in sent, Redeliver(p) PROVE TypeOK'
      BY <2>4 DEF Redeliver
    <2>5. ASSUME NEW p \in sent, Ignore(p) PROVE TypeOK'
      BY <2>5 DEF Ignore, Handles
    <2>6. ASSUME NEW p \in sent, Cancel(p) PROVE TypeOK'
      BY <2>6 DEF Cancel, Handles, Ends
    <2>7. ASSUME NEW w \in Webhooks, NEW p \in waiting, Supersede(w, p) PROVE TypeOK'
      BY <2>7 DEF Supersede, Handles, Ends
    <2>8. ASSUME NEW w \in Webhooks, Insert(w) PROVE TypeOK'
      BY <2>8 DEF Insert
    <2>9. ASSUME NEW w \in Webhooks, InsertFails(w) PROVE TypeOK'
      BY <2>9 DEF InsertFails, Dies
    <2>10. ASSUME NEW r \in Runners, NEW h \in Heads, Claim(r, h) PROVE TypeOK'
      BY <2>10, SMTT(30) DEF Claim
    <2>11. ASSUME NEW r \in Runners, Minted(r) PROVE TypeOK'
      BY <2>11 DEF Minted
    <2>12. ASSUME NEW r \in Runners, MintFails(r) PROVE TypeOK'
      BY <2>12 DEF MintFails, Rests
    <2>13. ASSUME NEW r \in Runners, Complete(r) PROVE TypeOK'
      BY <2>13 DEF Complete, Outcomes, Rests
    <2>14. ASSUME NEW r \in Runners, RunnerDies(r) PROVE TypeOK'
      BY <2>14 DEF RunnerDies, Rests, Dies
    <2>15. CASE UNCHANGED vars
      BY <2>15
    <2>16. QED
      BY <2>1, <2>2, <2>3, <2>4, <2>5, <2>6, <2>7, <2>8, <2>9, <2>10, <2>11, <2>12,
         <2>13, <2>14, <2>15 DEF Next, Webhook, Runner
  <1>3. QED
    BY <1>1, <1>2, PTL DEF Spec

-----------------------------------------------------------------------------
(* Attempts, and who has which job *)

\* A job that can be claimed has attempts left.
HasAttempts ==
    \A h \in Heads :
        /\ attempts[h] <= MaxAttempts
        /\ status[h] \in {"absent", "queued"} => attempts[h] < MaxAttempts

\* A runner that has a job is the one that claimed it last, and nobody has ended it but
\* a webhook.
Holds(r) ==
    job[r] # 0 => /\ claimedBy[job[r]] = r
                  /\ status[job[r]] \in {"running", "superseded", "cancelled"}

Held == \A r \in Runners : Holds(r)

ReviewInv == TypeOK /\ HasAttempts /\ Held

LEMMA Capped == Spec => []ReviewInv
  <1> USE ReviewAssumption
  <1>1. Init => HasAttempts /\ Held
    BY DEF Init, HasAttempts, Held, Holds
  <1>2. TypeOK /\ TypeOK' /\ HasAttempts /\ Held /\ [Next]_vars => HasAttempts' /\ Held'
    <2> SUFFICES ASSUME TypeOK, TypeOK', HasAttempts, Held, [Next]_vars
                 PROVE  HasAttempts' /\ Held'
      OBVIOUS
    <2> USE DEF TypeOK, HasAttempts, Held, Holds
    <2>1. CASE UNCHANGED <<jobVars, runnerVars>>
      BY <2>1
    <2>2. ASSUME NEW p \in sent, Cancel(p) PROVE HasAttempts' /\ Held'
      BY <2>2 DEF Cancel, Handles, Ends
    <2>3. ASSUME NEW w \in Webhooks, NEW p \in waiting, Supersede(w, p)
          PROVE  HasAttempts' /\ Held'
      BY <2>3 DEF Supersede, Handles, Ends
    <2>4. ASSUME NEW w \in Webhooks, Insert(w) PROVE HasAttempts' /\ Held'
      BY <2>4 DEF Insert, Retriable
    <2>5. ASSUME NEW r \in Runners, NEW h \in Heads, Claim(r, h)
          PROVE  HasAttempts' /\ Held'
      <3>1. status[h] = "queued"
        BY <2>5 DEF Claim, Claimable, ClaimedLongAgo
      <3>2. HasAttempts'
        BY <2>5, <3>1 DEF Claim
      <3>3. Held'
        BY <2>5, <3>1 DEF Claim
      <3>4. QED
        BY <3>2, <3>3
    <2>6. ASSUME NEW r \in Runners, Minted(r) PROVE HasAttempts' /\ Held'
      BY <2>6 DEF Minted
    <2>7. ASSUME NEW r \in Runners, MintFails(r) PROVE HasAttempts' /\ Held'
      BY <2>7 DEF MintFails, Rests
    <2>8. ASSUME NEW r \in Runners, Complete(r) PROVE HasAttempts' /\ Held'
      BY <2>8 DEF Complete, Outcomes, Rests
    <2>9. ASSUME NEW r \in Runners, RunnerDies(r) PROVE HasAttempts' /\ Held'
      BY <2>9 DEF RunnerDies, Rests
    <2>10. (Push \/ MarkReady \/ Close) => UNCHANGED <<jobVars, runnerVars>>
      BY DEF Push, MarkReady, Close
    <2>11. \A p \in sent :
             Redeliver(p) \/ Ignore(p) => UNCHANGED <<jobVars, runnerVars>>
      BY DEF Redeliver, Ignore, Handles
    <2>12. \A w \in Webhooks : InsertFails(w) => UNCHANGED <<jobVars, runnerVars>>
      BY DEF InsertFails
    <2>13. CASE UNCHANGED vars
      BY <2>1, <2>13
    <2>14. QED
      <3> HIDE DEF TypeOK, HasAttempts, Held, vars, jobVars, runnerVars
      <3>1. QED
        BY <2>1, <2>2, <2>3, <2>4, <2>5, <2>6, <2>7, <2>8, <2>9, <2>10, <2>11, <2>12, <2>13
        DEF Next, Webhook, Runner
  <1>3. QED
    BY <1>1, <1>2, Typed, PTL DEF Spec, ReviewInv

LEMMA NothingRevives ==
  ASSUME [Next]_vars, NEW h \in Heads, status[h] \in Ended \ {"failed"}, TypeOK
  PROVE  status'[h] = status[h]
  <1> USE DEF TypeOK
  <1>1. CASE UNCHANGED jobVars
    BY <1>1
  <1>2. ASSUME NEW p \in sent, Cancel(p) PROVE status'[h] = status[h]
    BY <1>2 DEF Cancel, Ends
  <1>3. ASSUME NEW w \in Webhooks, NEW p \in waiting, Supersede(w, p)
        PROVE  status'[h] = status[h]
    BY <1>3 DEF Supersede, Ends
  <1>4. ASSUME NEW w \in Webhooks, Insert(w) PROVE status'[h] = status[h]
    BY <1>4 DEF Insert, Retriable
  <1>5. ASSUME NEW r \in Runners, NEW g \in Heads, Claim(r, g) PROVE status'[h] = status[h]
    BY <1>5 DEF Claim, Claimable, ClaimedLongAgo
  <1>6. ASSUME NEW r \in Runners, MintFails(r) PROVE status'[h] = status[h]
    BY <1>6 DEF MintFails
  <1>7. ASSUME NEW r \in Runners, Complete(r) PROVE status'[h] = status[h]
    BY <1>7 DEF Complete, Outcomes, Owns
  <1>8. QED
    BY <1>1, <1>2, <1>3, <1>4, <1>5, <1>6, <1>7
    DEF Next, Webhook, Runner, Push, MarkReady, Close, Redeliver, Ignore, InsertFails,
        Minted, RunnerDies

-----------------------------------------------------------------------------
\* The rows of review_jobs, the webhooks and the runners keep their types.
THEOREM ReviewTypeCorrect == Spec => []TypeOK
  BY Typed

\* claimReviewJob and the requeueing of enqueueReviewJob together never let a job be
\* claimed more than MAX_ATTEMPTS times.
THEOREM ClaimsAreCapped == Spec => []AttemptsCapped
  <1>1. ReviewInv => AttemptsCapped
    BY DEF ReviewInv, HasAttempts, AttemptsCapped
  <1>2. QED
    BY <1>1, Capped, PTL

\* claimReviewJob never hands a job to a second runner while the first one has it.
THEOREM OneRunnerPerJob == Spec => []OneReviewer
  <1>1. ReviewInv => OneReviewer
    BY DEF ReviewInv, Held, Holds, OneReviewer
  <1>2. QED
    BY <1>1, Capped, PTL

\* No statement of review-jobs.js changes a job that is completed, superseded or
\* cancelled.
THEOREM EndsAreFinal == Spec => EndedIsFinal
  <1>1. TypeOK /\ [Next]_vars =>
            [\A h \in Heads : status[h] \in Ended \ {"failed"} => status'[h] = status[h]]_vars
    BY NothingRevives
  <1>2. QED
    BY <1>1, Typed, PTL DEF Spec, EndedIsFinal
=============================================================================
