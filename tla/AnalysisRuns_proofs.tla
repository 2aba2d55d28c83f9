------------------------ MODULE AnalysisRuns_proofs ------------------------
(***************************************************************************)
(* Proofs about AnalysisRuns, for every set of runs, dispatchers and users *)
(* and any number of crashes.                                              *)
(*                                                                         *)
(* The safety properties are not inductive by themselves: they say nothing *)
(* of the transition_run calls that have read the row and not yet updated  *)
(* it.  IInv adds what such a call knows (CallInv), what the phase of a    *)
(* worker says about the run it holds (WorkerInv) and that a row exists    *)
(* only after its POST was admitted (StartInv).                            *)
(***************************************************************************)
EXTENDS AnalysisRuns, TLAPS

\* The phases in which a worker has a transition_run call open, and its target.
Target == [claiming |-> "RUNNING", publishing |-> "SUCCEEDED", failing |-> "FAILED"]

StartInv ==
    \A r \in Runs :
        /\ start[r] \in {"none", "admitted"} => status[r] = "NONE"
        /\ start[r] \in {"none", "admitted", "inserted"} => pc[r] = "off"
        /\ status[r] = "NONE" => history[r] = <<>>

WorkerInv ==
    \A w \in Workers :
        /\ w \in Runs => job[w] = w
        /\ pc[w] \notin {"off", "polling"} => job[w] \in Runs
        /\ pc[w] \in Executing =>
               status[job[w]] \notin {"NONE", "QUEUED", "SUCCEEDED"}
        /\ (pc[w] \in {"computed", "publishing"} /\ job[w] \in ModelRuns) =>
               artifact[job[w]] = w

CallInv ==
    \A t \in open :
        /\ t.seen \in Predecessors[t.to]
        /\ status[t.run] # "NONE"
        /\ t.seen = "RUNNING" => status[t.run] # "QUEUED"
        /\ status[t.run] = t.seen => history[t.run] = t.seenHistory
        /\ t.by \in Users => t.to = "CANCELLED"
        /\ t.by = "start" => t.to = "FAILED" /\ t.seen = "QUEUED"
        /\ t.by \in Workers =>
               /\ job[t.by] = t.run
               /\ pc[t.by] \in DOMAIN Target
               /\ t.to = Target[pc[t.by]]
               /\ \A t2 \in open : t2.by = t.by => t2 = t

IInv ==
    /\ TypeOK
    /\ StartInv
    /\ WorkerInv
    /\ CallInv
    /\ AtMostOneExecutor
    /\ ResultMatchesStatus
    /\ CancelledOnce

-----------------------------------------------------------------------------
(***************************************************************************)
(* What the two halves of transition_run do to the state.                  *)
(***************************************************************************)

\* The SELECT half adds one call that remembers the row as it is now.
LEMMA ObserveAdds ==
    ASSUME TypeOK, NEW c \in Clients, NEW r \in Runs, NEW to \in DOMAIN Predecessors,
           Observe(c, r, to)
    PROVE  \E n \in Transition :
              /\ open' = open \cup {n}
              /\ n.by = c /\ n.run = r /\ n.to = to
              /\ n.seen = status[r] /\ n.seenHistory = history[r]
<1> DEFINE n == [by |-> c, run |-> r, to |-> to, seen |-> status[r], seenHistory |-> history[r]]
<1>1. status[r] \in Status /\ history[r] \in Seq(Status)
  BY DEF TypeOK
<1>2. n \in Transition
  BY <1>1 DEF Transition
<1>3. open' = open \cup {n}
  BY DEF Observe
<1> QED
  BY <1>2, <1>3

\* A call has a run, a target and an observed status the target may be reached from.
LEMMA CallFacts ==
    ASSUME TypeOK, CallInv, NEW t \in open
    PROVE  /\ t.run \in Runs
           /\ t.by \in Clients
           /\ t.seenHistory \in Seq(Status)
           /\ t.to \in {"RUNNING", "SUCCEEDED", "FAILED", "CANCELLED"}
           /\ t.seen \in {"QUEUED", "RUNNING"}
           /\ t.seen # t.to
           /\ t.to \in {"RUNNING"} => t.seen = "QUEUED"
<1>1. t \in Transition
  BY DEF TypeOK
<1>2. t.run \in Runs /\ t.by \in Clients /\ t.seenHistory \in Seq(Status)
      /\ t.to \in DOMAIN Predecessors
  BY <1>1 DEF Transition
<1>3. t.to \in {"RUNNING", "SUCCEEDED", "FAILED", "CANCELLED"}
  BY <1>2 DEF Predecessors, Terminal
<1>4. t.seen \in Predecessors[t.to]
  BY DEF CallInv
<1> QED
  BY <1>2, <1>3, <1>4 DEF Predecessors, Terminal

\* A call that is not made by a request handler is the call of a worker.
LEMMA CallOwner ==
    ASSUME TypeOK, CallInv, NEW t \in open
    PROVE  /\ t.by = "start" \/ t.by \in Users \/ t.by \in Workers
           /\ t.to \in {"RUNNING", "SUCCEEDED"} => t.by \in Workers
           /\ t.to = "CANCELLED" => t.by \in Users
           /\ t.by \in Workers => t.by # "start" /\ t.by \notin Users
<1>1. t.by \in Clients
  BY CallFacts
<1>2. t.by \in Users => t.to = "CANCELLED"
  BY DEF CallInv
<1>3. t.by = "start" => t.to = "FAILED"
  BY DEF CallInv
<1>4. t.by \in Workers => t.to # "CANCELLED"
  BY DEF CallInv, Target
<1> QED
  BY <1>1, <1>2, <1>3, <1>4, RunsAssumption DEF Clients, Workers

\* The UPDATE half changes one row, from the status that was observed, and
\* appends to the history that is still the stored one.
LEMMA WriteFacts ==
    ASSUME TypeOK, CallInv, NEW t \in open, Matches(t), Write(t)
    PROVE  /\ status[t.run] = t.seen
           /\ history[t.run] = t.seenHistory
           /\ status' \in [Runs -> Status]
           /\ history' \in [Runs -> Seq(Status)]
           /\ result' \in [Runs -> Workers \cup {NoOne}]
           /\ error' \in [Runs -> BOOLEAN]
           /\ \A r \in Runs :
                 IF r = t.run
                 THEN /\ status'[r] = t.to
                      /\ history'[r] = Append(history[r], t.to)
                      /\ t.to = "RUNNING" => result'[r] = result[r] /\ error'[r] = error[r]
                      /\ t.to = "SUCCEEDED" => result'[r] = t.by /\ error'[r] = FALSE
                      /\ t.to = "FAILED" => result'[r] = NoOne /\ error'[r] = TRUE
                      /\ t.to = "CANCELLED" => result'[r] = NoOne /\ error'[r] = FALSE
                 ELSE /\ status'[r] = status[r] /\ history'[r] = history[r]
                      /\ result'[r] = result[r] /\ error'[r] = error[r]
<1>1. status[t.run] = t.seen /\ history[t.run] = t.seenHistory
  BY DEF Matches, CallInv
<1>2. /\ t.run \in Runs /\ t.seenHistory \in Seq(Status)
      /\ t.to \in {"RUNNING", "SUCCEEDED", "FAILED", "CANCELLED"}
  BY CallFacts
<1>3. t.to \in Status
  BY <1>2 DEF Status, Terminal
<1>4. t.to = "SUCCEEDED" => t.by \in Workers
  BY CallOwner
<1>5. ResultOf(t) \in Workers \cup {NoOne}
  BY <1>4 DEF ResultOf
<1>6. status' = [status EXCEPT ![t.run] = t.to]
  BY DEF Write
<1>7. history' = [history EXCEPT ![t.run] = Append(t.seenHistory, t.to)]
  BY DEF Write
<1>8. Append(t.seenHistory, t.to) \in Seq(Status)
  BY <1>2, <1>3
<1>9. CASE t.to = "RUNNING"
  <2>1. result' = result /\ error' = error
    BY <1>9 DEF Write
  <2> QED
    BY <1>1, <1>2, <1>3, <1>6, <1>7, <1>8, <1>9, <2>1 DEF TypeOK
<1>10. CASE t.to # "RUNNING"
  <2>1. /\ result' = [result EXCEPT ![t.run] = ResultOf(t)]
        /\ error' = [error EXCEPT ![t.run] = (t.to = "FAILED")]
    BY <1>10 DEF Write
  <2>2. error' \in [Runs -> BOOLEAN]
    BY <1>2, <2>1 DEF TypeOK
  <2>3. error'[t.run] = (t.to = "FAILED") /\ \A r \in Runs \ {t.run} : error'[r] = error[r]
    BY <1>2, <2>1 DEF TypeOK
  <2>4. /\ result'[t.run] = ResultOf(t)
        /\ \A r \in Runs \ {t.run} : result'[r] = result[r]
        /\ result' \in [Runs -> Workers \cup {NoOne}]
    BY <1>2, <1>5, <2>1 DEF TypeOK
  <2> QED
    BY <1>1, <1>2, <1>3, <1>6, <1>7, <1>8, <1>10, <2>2, <2>3, <2>4 DEF TypeOK, ResultOf
<1> QED
  BY <1>9, <1>10

\* The calls still open after an UPDATE: the row they observed is gone, or still
\* has the history they hold, and it never returns to QUEUED behind their back.
LEMMA CallsSurvive ==
    ASSUME TypeOK, CallInv, NEW t \in open, Matches(t), Write(t)
    PROVE  \A o \in open :
              /\ status'[o.run] # "NONE"
              /\ o.seen = "RUNNING" => status'[o.run] # "QUEUED"
              /\ (o # t /\ status'[o.run] = o.seen) => history'[o.run] = o.seenHistory
<1> SUFFICES ASSUME NEW o \in open
             PROVE  /\ status'[o.run] # "NONE"
                    /\ o.seen = "RUNNING" => status'[o.run] # "QUEUED"
                    /\ (o # t /\ status'[o.run] = o.seen) => history'[o.run] = o.seenHistory
  OBVIOUS
<1>1. /\ t.run \in Runs /\ t.seen \in {"QUEUED", "RUNNING"}
      /\ t.to \in {"RUNNING", "SUCCEEDED", "FAILED", "CANCELLED"}
      /\ t.to \in {"RUNNING"} => t.seen = "QUEUED"
  BY CallFacts
<1>2. o.run \in Runs /\ o.seen \in {"QUEUED", "RUNNING"}
  BY CallFacts
<1>3. /\ status[o.run] # "NONE"
      /\ o.seen = "RUNNING" => status[o.run] # "QUEUED"
      /\ status[o.run] = o.seen => history[o.run] = o.seenHistory
  BY DEF CallInv
<1>4. CASE o.run # t.run
  BY <1>2, <1>3, <1>4, WriteFacts
<1>5. CASE o.run = t.run
  <2>1. status[o.run] = t.seen /\ status'[o.run] = t.to
    BY <1>1, <1>5, WriteFacts
  <2> QED
    BY <1>1, <1>2, <1>3, <2>1
<1> QED
  BY <1>4, <1>5

\* An UPDATE leaves result, error, artifact and audits in agreement with status,
\* provided a publisher has stored its artifact and a cancellation its audit row.
LEMMA WriteKeepsRows ==
    ASSUME IInv, NEW t \in open, Matches(t), Write(t), UNCHANGED artifact,
           (t.to = "SUCCEEDED" /\ t.run \in ModelRuns) => artifact[t.run] = t.by,
           IF t.to = "CANCELLED"
           THEN cancelAudits' = [cancelAudits EXCEPT ![t.run] = @ + 1]
           ELSE UNCHANGED cancelAudits
    PROVE  ResultMatchesStatus' /\ CancelledOnce' /\ cancelAudits' \in [Runs -> Nat]
<1>1. /\ t.run \in Runs /\ t.seen \in {"QUEUED", "RUNNING"} /\ status[t.run] = t.seen
      /\ t.to \in {"RUNNING", "SUCCEEDED", "FAILED", "CANCELLED"}
  BY CallFacts, WriteFacts DEF IInv
<1>2. t.to = "SUCCEEDED" => t.by \in Workers
  BY CallOwner DEF IInv
<1>3. ResultMatchesStatus'
  <2> SUFFICES ASSUME NEW r \in Runs
               PROVE  /\ (result'[r] # NoOne) <=> (status'[r] = "SUCCEEDED")
                      /\ error'[r] <=> (status'[r] = "FAILED")
                      /\ (status'[r] = "SUCCEEDED" /\ r \in ModelRuns) => artifact'[r] = result'[r]
    BY DEF ResultMatchesStatus
  <2>1. /\ (result[r] # NoOne) <=> (status[r] = "SUCCEEDED")
        /\ error[r] <=> (status[r] = "FAILED")
        /\ (status[r] = "SUCCEEDED" /\ r \in ModelRuns) => artifact[r] = result[r]
    BY DEF IInv, ResultMatchesStatus
  <2>2. CASE r # t.run
    BY <2>1, <2>2, WriteFacts DEF IInv
  <2>3. CASE r = t.run
    <3>1. error[r] = FALSE /\ result[r] = NoOne
      BY <1>1, <2>1, <2>3 DEF IInv, TypeOK
    <3>2. /\ status'[r] = t.to
          /\ t.to = "RUNNING" => result'[r] = result[r] /\ error'[r] = error[r]
          /\ t.to = "SUCCEEDED" => result'[r] = t.by /\ error'[r] = FALSE
          /\ t.to = "FAILED" => result'[r] = NoOne /\ error'[r] = TRUE
          /\ t.to = "CANCELLED" => result'[r] = NoOne /\ error'[r] = FALSE
      BY <2>3, WriteFacts DEF IInv
    <3>3. t.to = "SUCCEEDED" => t.by # NoOne
      BY <1>2, RunsAssumption DEF Workers
    <3> QED
      BY <1>1, <2>3, <3>1, <3>2, <3>3
  <2> QED
    BY <2>2, <2>3
<1>4. CancelledOnce' /\ cancelAudits' \in [Runs -> Nat]
  <2>1. /\ \A r \in Runs : cancelAudits[r] = IF status[r] = "CANCELLED" THEN 1 ELSE 0
        /\ cancelAudits \in [Runs -> Nat]
    BY DEF IInv, CancelledOnce, TypeOK
  <2>2. status'[t.run] = t.to /\ \A r \in Runs \ {t.run} : status'[r] = status[r]
    BY <1>1, WriteFacts DEF IInv
  <2>3. CASE t.to = "CANCELLED"
    BY <1>1, <2>1, <2>2, <2>3 DEF CancelledOnce
  <2>4. CASE t.to # "CANCELLED"
    BY <1>1, <2>1, <2>2, <2>4 DEF CancelledOnce
  <2> QED
    BY <2>3, <2>4
<1> QED
  BY <1>3, <1>4

\* A step that leaves the rows, the artifacts and the audits alone keeps what is
\* said of them.
LEMMA RowsUntouched ==
    ASSUME IInv, UNCHANGED <<rowVars, artifact, cancelAudits>>
    PROVE  ResultMatchesStatus' /\ CancelledOnce'
BY DEF IInv, rowVars, ResultMatchesStatus, CancelledOnce

-----------------------------------------------------------------------------
(***************************************************************************)
(* The SELECT half of a worker's call, for its three uses.                 *)
(***************************************************************************)
\* The phases from which a worker opens a call, and the phases it opens it in.
Opens(from, next) ==
    <<from, next>> \in {<<"picked", "claiming">>, <<"computed", "publishing">>,
                        <<"raised", "failing">>}

\* The SELECT half of a worker's call, its early return included.
LEMMA CallObserveKeeps ==
    ASSUME IInv, NEW w \in Workers, NEW from, NEW next, NEW expected, Opens(from, next),
           CallObserve(w, from, Target[next], expected, next)
    PROVE  IInv'
<1> DEFINE to == Target[next]
<1>1. /\ from \in {"picked", "computed", "raised"}
      /\ next \in {"claiming", "publishing", "failing"}
      /\ next = "claiming" <=> from = "picked"
      /\ next = "publishing" <=> from = "computed"
  BY DEF Opens
<1>2. /\ to \in DOMAIN Predecessors
      /\ to = "RUNNING" <=> next = "claiming"
      /\ to \in {"RUNNING", "SUCCEEDED", "FAILED"}
  BY <1>1 DEF Target, Predecessors, Terminal
<1>3. pc[w] = from /\ job[w] \in Runs
  BY <1>1 DEF CallObserve, IInv, WorkerInv
<1>4. /\ UNCHANGED <<rowVars, created, artifact, cancelAudits, start, job, orphaned, crashes>>
      /\ pc' = [pc EXCEPT ![w] = IF Legal(job[w], to, expected) THEN next ELSE Done(w)]
  BY DEF CallObserve, Goto
<1>5. pc' \in [Workers -> Phase]
  BY <1>1, <1>4 DEF IInv, TypeOK, Phase, Executing, Done
<1>6. open' \subseteq Transition
  <2>1. CASE Legal(job[w], to, expected)
    BY <1>2, <1>3, <2>1, ObserveAdds DEF CallObserve, IInv, TypeOK, Clients
  <2>2. CASE ~Legal(job[w], to, expected)
    BY <2>2 DEF CallObserve, IInv, TypeOK
  <2> QED
    BY <2>1, <2>2
<1>7. TypeOK'
  BY <1>4, <1>5, <1>6 DEF IInv, TypeOK, rowVars
<1>8. StartInv'
  BY <1>1, <1>3, <1>4 DEF IInv, StartInv, rowVars, TypeOK, Workers
<1>9. WorkerInv'
  BY <1>1, <1>3, <1>4 DEF IInv, WorkerInv, rowVars, TypeOK, Workers, Executing, Done
<1>10. \A t \in open : t.by # w
  BY <1>1, <1>3 DEF IInv, CallInv, Target
<1>11. CallInv'
  <2>1. \A t \in open : t.by \in Workers => pc'[t.by] = pc[t.by]
    BY <1>4, <1>10 DEF IInv, TypeOK
  <2>2. CASE Legal(job[w], to, expected)
    <3>1. PICK n \in Transition :
              /\ open' = open \cup {n}
              /\ n.by = w /\ n.run = job[w] /\ n.to = to
              /\ n.seen = status[job[w]] /\ n.seenHistory = history[job[w]]
      BY <1>2, <1>3, <2>2, ObserveAdds DEF CallObserve, IInv, Clients
    <3>2. status[job[w]] \in Predecessors[to]
      BY <2>2 DEF Legal
    <3>3. w # "start" /\ w \notin Users
      BY RunsAssumption DEF Workers
    <3>4. status[job[w]] # "NONE"
      BY <1>2, <3>2 DEF Predecessors, Terminal
    <3>5. pc'[w] = next
      BY <1>4, <2>2 DEF IInv, TypeOK
    <3>6. next \in DOMAIN Target
      BY <1>1 DEF Target
    <3>7. status' = status /\ history' = history /\ job' = job
      BY <1>4 DEF rowVars
    <3>8. SUFFICES ASSUME NEW t \in open'
                   PROVE  /\ t.seen \in Predecessors[t.to]
                          /\ status[t.run] # "NONE"
                          /\ t.seen = "RUNNING" => status[t.run] # "QUEUED"
                          /\ status[t.run] = t.seen => history[t.run] = t.seenHistory
                          /\ t.by \in Users => t.to = "CANCELLED"
                          /\ t.by = "start" => t.to = "FAILED" /\ t.seen = "QUEUED"
                          /\ t.by \in Workers =>
                                 /\ job[t.by] = t.run
                                 /\ pc'[t.by] \in DOMAIN Target
                                 /\ t.to = Target[pc'[t.by]]
                                 /\ \A t2 \in open' : t2.by = t.by => t2 = t
      BY <3>7 DEF CallInv
    <3>9. CASE t = n
      BY <1>10, <3>1, <3>2, <3>3, <3>4, <3>5, <3>6, <3>9
    <3>10. CASE t \in open
      BY <1>10, <2>1, <3>1, <3>10 DEF IInv, CallInv
    <3> QED
      BY <3>1, <3>9, <3>10
  <2>3. CASE ~Legal(job[w], to, expected)
    <3>1. open' = open
      BY <2>3 DEF CallObserve
    <3> QED
      BY <1>4, <2>1, <3>1 DEF IInv, CallInv, rowVars
  <2> QED
    BY <2>2, <2>3
<1>12. AtMostOneExecutor'
  <2>1. \A v \in Workers : pc'[v] \in Executing => pc[v] \in Executing
    BY <1>1, <1>3, <1>4 DEF IInv, TypeOK, Executing, Done
  <2> QED
    BY <1>4, <2>1 DEF IInv, AtMostOneExecutor
<1> QED
  BY <1>4, <1>7, <1>8, <1>9, <1>11, <1>12, RowsUntouched DEF IInv

-----------------------------------------------------------------------------
(***************************************************************************)
(* The UPDATE half of a call, for its four uses.                           *)
(***************************************************************************)
UpdateStep(t) ==
    /\ IF Matches(t) THEN Write(t) ELSE UNCHANGED rowVars
    /\ open' = open \ {t}
    /\ pc' = IF t.by \in Workers
             THEN [pc EXCEPT ![t.by] =
                       IF t.to = "RUNNING" /\ Matches(t) THEN "claimed" ELSE Done(t.by)]
             ELSE pc
    /\ start' = IF t.by = "start" THEN [start EXCEPT ![t.run] = "done"] ELSE start
    /\ IF t.to = "CANCELLED" /\ Matches(t)
       THEN cancelAudits' = [cancelAudits EXCEPT ![t.run] = @ + 1]
       ELSE UNCHANGED cancelAudits
    /\ UNCHANGED <<created, artifact, job, orphaned, crashes>>

\* Each of the four update actions is such a step.
LEMMA UpdateActions ==
    ASSUME IInv, NEW t \in open,
           FailLaunchUpdate(t) \/ CancelUpdate(t) \/ ClaimUpdate(t) \/ FinishUpdate(t)
    PROVE  UpdateStep(t)
<1>1. /\ t.by \in Users => t.to = "CANCELLED"
      /\ t.by = "start" => t.to = "FAILED"
      /\ t.by \in Workers => pc[t.by] \in DOMAIN Target /\ t.to = Target[pc[t.by]]
  BY DEF IInv, CallInv
<1>2. t.by \in Workers => t.by # "start" /\ t.by \notin Users
  BY CallOwner DEF IInv
<1>3. "start" \notin Users
  BY RunsAssumption
<1>4. CASE FailLaunchUpdate(t)
  BY <1>1, <1>2, <1>4 DEF FailLaunchUpdate, UpdateStep
<1>5. CASE CancelUpdate(t)
  BY <1>1, <1>2, <1>3, <1>5 DEF CancelUpdate, UpdateStep
<1>6. CASE ClaimUpdate(t)
  <2>1. t.by \in Workers /\ t.to = "RUNNING"
    BY <1>1, <1>6 DEF ClaimUpdate, Target
  <2> QED
    BY <1>2, <1>6, <2>1 DEF ClaimUpdate, Goto, UpdateStep
<1>7. CASE FinishUpdate(t)
  <2>1. t.by \in Workers /\ t.to \in {"SUCCEEDED", "FAILED"}
    BY <1>1, <1>7 DEF FinishUpdate, Target
  <2> QED
    BY <1>2, <1>7, <2>1 DEF FinishUpdate, Goto, UpdateStep
<1> QED
  BY <1>4, <1>5, <1>6, <1>7

\* An UPDATE half keeps the inductive invariant, matched or not.
LEMMA UpdateKeeps ==
    ASSUME IInv, NEW t \in open, UpdateStep(t)
    PROVE  IInv'
<1>1. /\ t.run \in Runs /\ t.seen \in {"QUEUED", "RUNNING"}
      /\ t.to \in {"RUNNING", "SUCCEEDED", "FAILED", "CANCELLED"}
      /\ t.to \in {"RUNNING"} => t.seen = "QUEUED"
  BY CallFacts DEF IInv
<1>2. /\ t.by \in Workers =>
             /\ job[t.by] = t.run /\ pc[t.by] \in {"claiming", "publishing", "failing"}
             /\ t.to = "RUNNING" <=> pc[t.by] = "claiming"
             /\ t.to = "SUCCEEDED" <=> pc[t.by] = "publishing"
      /\ t.to \in {"RUNNING", "SUCCEEDED"} => t.by \in Workers
      /\ \A o \in open : (o.by = t.by /\ t.by \in Workers) => o = t
  BY CallOwner DEF IInv, CallInv, Target
<1>3. /\ open' = open \ {t}
      /\ UNCHANGED <<created, artifact, job, orphaned, crashes>>
  BY DEF UpdateStep
<1>4. pc' \in [Workers -> Phase]
      /\ \A w \in Workers : pc'[w] =
            IF w = t.by THEN IF t.to = "RUNNING" /\ Matches(t) THEN "claimed" ELSE Done(w)
            ELSE pc[w]
  BY DEF UpdateStep, IInv, TypeOK, Phase, Executing, Done
<1>5. start' \in [Runs -> StartPhase]
      /\ \A r \in Runs : start'[r] = start[r] \/ start'[r] = "done"
  BY <1>1 DEF UpdateStep, IInv, TypeOK, StartPhase
<1>6. /\ status' \in [Runs -> Status] /\ history' \in [Runs -> Seq(Status)]
      /\ result' \in [Runs -> Workers \cup {NoOne}] /\ error' \in [Runs -> BOOLEAN]
  BY WriteFacts DEF UpdateStep, IInv, TypeOK, rowVars
<1>7. ResultMatchesStatus' /\ CancelledOnce' /\ cancelAudits' \in [Runs -> Nat]
  <2>1. CASE Matches(t)
    <3>1. (t.to = "SUCCEEDED" /\ t.run \in ModelRuns) => artifact[t.run] = t.by
      BY <1>2 DEF IInv, WorkerInv
    <3> QED
      BY <2>1, <3>1, WriteKeepsRows DEF UpdateStep
  <2>2. CASE ~Matches(t)
    BY <2>2, RowsUntouched DEF UpdateStep, IInv, TypeOK
  <2> QED
    BY <2>1, <2>2
<1>8. TypeOK'
  BY <1>3, <1>4, <1>5, <1>6, <1>7 DEF IInv, TypeOK
<1>9. \A r \in Runs :
         \/ status'[r] = status[r] /\ history'[r] = history[r]
         \/ r = t.run /\ Matches(t) /\ status[r] = t.seen /\ status'[r] = t.to
  <2>1. CASE Matches(t)
    BY <1>1, <2>1, WriteFacts DEF UpdateStep, IInv
  <2>2. CASE ~Matches(t)
    BY <2>2 DEF UpdateStep, rowVars
  <2> QED
    BY <2>1, <2>2
<1>10. StartInv'
  <2>1. ASSUME NEW r \in Runs
        PROVE  /\ start'[r] \in {"none", "admitted"} => status'[r] = "NONE"
               /\ start'[r] \in {"none", "admitted", "inserted"} => pc'[r] = "off"
               /\ status'[r] = "NONE" => history'[r] = <<>>
    <3>1. /\ start[r] \in {"none", "admitted"} => status[r] = "NONE"
          /\ start[r] \in {"none", "admitted", "inserted"} => pc[r] = "off"
          /\ status[r] = "NONE" => history[r] = <<>>
      BY DEF IInv, StartInv
    <3>2. r \in Workers
      BY DEF Workers
    <3> QED
      BY <1>1, <1>2, <1>4, <1>5, <1>9, <3>1, <3>2
  <2> QED
    BY <2>1 DEF StartInv
<1>11. AtMostOneExecutor'
  <2>1. \A w \in Workers : (pc[w] \in Executing /\ job[w] = t.run) => status[t.run] # "QUEUED"
    BY DEF IInv, WorkerInv
  <2>2. \A w \in Workers : (w # t.by /\ pc'[w] \in Executing) => pc[w] \in Executing
    BY <1>4
  <2>3. (t.by \in Workers /\ pc'[t.by] \in Executing) => status[t.run] = "QUEUED"
    BY <1>1, <1>4 DEF Executing, Done, Matches
  <2> QED
    BY <1>2, <1>3, <2>1, <2>2, <2>3 DEF IInv, AtMostOneExecutor
<1>12. WorkerInv'
  <2> SUFFICES ASSUME NEW w \in Workers
               PROVE  /\ w \in Runs => job[w] = w
                      /\ pc'[w] \notin {"off", "polling"} => job[w] \in Runs
                      /\ pc'[w] \in Executing =>
                             status'[job[w]] \notin {"NONE", "QUEUED", "SUCCEEDED"}
                      /\ (pc'[w] \in {"computed", "publishing"} /\ job[w] \in ModelRuns) =>
                             artifact[job[w]] = w
    BY <1>3 DEF WorkerInv
  <2>1. /\ w \in Runs => job[w] = w
        /\ pc[w] \notin {"off", "polling"} => job[w] \in Runs
        /\ pc[w] \in Executing => status[job[w]] \notin {"NONE", "QUEUED", "SUCCEEDED"}
        /\ (pc[w] \in {"computed", "publishing"} /\ job[w] \in ModelRuns) =>
               artifact[job[w]] = w
    BY DEF IInv, WorkerInv
  <2>2. CASE w = t.by
    BY <1>1, <1>2, <1>4, <2>1, <2>2, WriteFacts DEF UpdateStep, IInv, Executing, Done
  <2>3. CASE w # t.by
    <3>1. pc'[w] = pc[w]
      BY <1>4, <2>3
    <3>2. (pc[w] \in Executing /\ job[w] = t.run) => t.to # "SUCCEEDED"
      BY <1>2, <2>3 DEF IInv, AtMostOneExecutor, Executing
    <3>3. pc[w] \in Executing => job[w] \in Runs
      BY <2>1 DEF Executing
    <3> QED
      BY <1>1, <1>9, <2>1, <3>1, <3>2, <3>3
  <2> QED
    BY <2>2, <2>3
<1>13. CallInv'
  <2> SUFFICES ASSUME NEW o \in open'
               PROVE  /\ o.seen \in Predecessors[o.to]
                      /\ status'[o.run] # "NONE"
                      /\ o.seen = "RUNNING" => status'[o.run] # "QUEUED"
                      /\ status'[o.run] = o.seen => history'[o.run] = o.seenHistory
                      /\ o.by \in Users => o.to = "CANCELLED"
                      /\ o.by = "start" => o.to = "FAILED" /\ o.seen = "QUEUED"
                      /\ o.by \in Workers =>
                             /\ job[o.by] = o.run
                             /\ pc'[o.by] \in DOMAIN Target
                             /\ o.to = Target[pc'[o.by]]
                             /\ \A o2 \in open' : o2.by = o.by => o2 = o
    BY <1>3 DEF CallInv
  <2>1. o \in open /\ o # t
    BY <1>3
  <2>2. /\ status'[o.run] # "NONE"
        /\ o.seen = "RUNNING" => status'[o.run] # "QUEUED"
        /\ status'[o.run] = o.seen => history'[o.run] = o.seenHistory
    <3>1. CASE Matches(t)
      BY <2>1, <3>1, CallsSurvive DEF UpdateStep, IInv
    <3>2. CASE ~Matches(t)
      BY <2>1, <3>2 DEF UpdateStep, IInv, CallInv, rowVars
    <3> QED
      BY <3>1, <3>2
  <2>3. o.by \in Workers => pc'[o.by] = pc[o.by]
    BY <1>2, <1>4, <2>1
  <2> QED
    BY <1>3, <2>1, <2>2, <2>3 DEF IInv, CallInv
<1> QED
  BY <1>7, <1>8, <1>10, <1>11, <1>12, <1>13 DEF IInv

-----------------------------------------------------------------------------
(***************************************************************************)
(* The remaining actions, and the invariant.                               *)
(***************************************************************************)
\* The inductive invariant holds of the empty table.
LEMMA InitIInv == Init => IInv
<1> SUFFICES ASSUME Init PROVE IInv
  OBVIOUS
<1> USE RunsAssumption DEF Init
<1>1. TypeOK
  BY DEF TypeOK, Status, StartPhase, Phase, Workers
<1>2. StartInv
  BY DEF StartInv, Workers
<1>3. WorkerInv /\ AtMostOneExecutor
  BY DEF WorkerInv, AtMostOneExecutor, Executing
<1>4. CallInv
  BY DEF CallInv
<1>5. ResultMatchesStatus /\ CancelledOnce
  BY DEF ResultMatchesStatus, CancelledOnce
<1> QED
  BY <1>1, <1>2, <1>3, <1>4, <1>5 DEF IInv

\* POST /terminal/runs: admission, insert, launch, launch failure, crash.
LEMMA StartKeeps ==
    ASSUME IInv, NEW r \in Runs,
           \/ Admit(r) \/ Insert(r) \/ Launch(r) \/ LaunchFails(r)
           \/ FailLaunchObserve(r) \/ StartCrash(r)
    PROVE  IInv'
<1>1. CASE Admit(r)
  <2>1. TypeOK' /\ StartInv' /\ WorkerInv'
    BY <1>1 DEF Admit, IInv, TypeOK, StartInv, WorkerInv, rowVars, StartPhase
  <2>2. CallInv' /\ AtMostOneExecutor'
    BY <1>1 DEF Admit, IInv, CallInv, AtMostOneExecutor, rowVars
  <2> QED
    BY <1>1, <2>1, <2>2, RowsUntouched DEF Admit, IInv
<1>2. CASE Insert(r)
  <2>1. /\ status[r] = "NONE" /\ history[r] = <<>> /\ pc[r] = "off"
        /\ status' = [status EXCEPT ![r] = "QUEUED"]
        /\ history' = [history EXCEPT ![r] = <<"QUEUED">>]
        /\ start' = [start EXCEPT ![r] = "inserted"]
        /\ UNCHANGED <<result, error, artifact, cancelAudits, pc, job, open>>
    BY <1>2 DEF Insert, IInv, StartInv
  <2>2. TypeOK'
    BY <1>2 DEF Insert, IInv, TypeOK, Status, StartPhase
  <2>3. StartInv'
    BY <2>1 DEF IInv, StartInv, TypeOK
  <2>4. WorkerInv' /\ AtMostOneExecutor'
    BY <2>1 DEF IInv, WorkerInv, AtMostOneExecutor, TypeOK, Executing
  <2>5. \A t \in open : t.run # r /\ t.run \in Runs
    BY <2>1, CallFacts DEF IInv, CallInv
  <2>6. CallInv'
    BY <2>1, <2>5 DEF IInv, CallInv, TypeOK
  <2>7. result[r] = NoOne /\ error[r] = FALSE /\ cancelAudits[r] = 0
    BY <2>1 DEF IInv, ResultMatchesStatus, CancelledOnce, TypeOK
  <2>8. status'[r] = "QUEUED" /\ \A q \in Runs \ {r} : status'[q] = status[q]
    BY <2>1 DEF IInv, TypeOK
  <2>9. ResultMatchesStatus'
    BY <2>1, <2>7, <2>8 DEF IInv, ResultMatchesStatus
  <2>10. CancelledOnce'
    BY <2>1, <2>7, <2>8 DEF IInv, CancelledOnce
  <2> QED
    BY <2>2, <2>3, <2>4, <2>6, <2>9, <2>10 DEF IInv
<1>3. CASE Launch(r)
  <2>1. pc[r] = "off" /\ job[r] = r /\ r \in Workers
    BY <1>3 DEF Launch, IInv, StartInv, WorkerInv, Workers
  <2>2. TypeOK' /\ StartInv'
    BY <1>3, <2>1 DEF Launch, IInv, TypeOK, StartInv, rowVars, StartPhase, Phase
  <2>3. WorkerInv' /\ AtMostOneExecutor'
    BY <1>3, <2>1 DEF Launch, IInv, WorkerInv, AtMostOneExecutor, TypeOK, rowVars, Executing
  <2>4. CallInv'
    BY <1>3, <2>1 DEF Launch, IInv, CallInv, TypeOK, rowVars, Target
  <2> QED
    BY <1>3, <2>2, <2>3, <2>4, RowsUntouched DEF Launch, IInv
<1>4. CASE LaunchFails(r)
  <2>1. TypeOK' /\ StartInv' /\ WorkerInv'
    BY <1>4 DEF LaunchFails, IInv, TypeOK, StartInv, WorkerInv, rowVars, StartPhase
  <2>2. CallInv' /\ AtMostOneExecutor'
    BY <1>4 DEF LaunchFails, IInv, CallInv, AtMostOneExecutor, rowVars
  <2> QED
    BY <1>4, <2>1, <2>2, RowsUntouched DEF LaunchFails, IInv
<1>5. CASE FailLaunchObserve(r)
  <2>1. StartInv' /\ WorkerInv' /\ AtMostOneExecutor'
    BY <1>5 DEF FailLaunchObserve, IInv, StartInv, WorkerInv, AtMostOneExecutor, TypeOK, rowVars
  <2>2. start' \in [Runs -> StartPhase]
    BY <1>5 DEF FailLaunchObserve, IInv, TypeOK, StartPhase
  <2>3. CASE ~Legal(r, "FAILED", LaunchErrorExpects)
    BY <1>5, <2>1, <2>2, <2>3, RowsUntouched
    DEF FailLaunchObserve, IInv, TypeOK, CallInv, rowVars
  <2>4. CASE Legal(r, "FAILED", LaunchErrorExpects)
    <3>1. "FAILED" \in DOMAIN Predecessors /\ "start" \in Clients
      BY DEF Predecessors, Terminal, Clients
    <3>2. PICK n \in Transition :
              /\ open' = open \cup {n}
              /\ n.by = "start" /\ n.run = r /\ n.to = "FAILED"
              /\ n.seen = status[r] /\ n.seenHistory = history[r]
      BY <1>5, <2>4, <3>1, ObserveAdds DEF FailLaunchObserve, IInv
    <3>3. status[r] = "QUEUED" /\ status[r] \in Predecessors["FAILED"]
      BY <2>4 DEF Legal, LaunchErrorExpects
    <3>4. "start" \notin Workers /\ "start" \notin Users
      BY RunsAssumption DEF Workers
    <3>5. CallInv'
      BY <1>5, <3>2, <3>3, <3>4 DEF FailLaunchObserve, IInv, CallInv, rowVars
    <3>6. TypeOK'
      BY <1>5, <2>2, <3>2 DEF FailLaunchObserve, IInv, TypeOK, rowVars
    <3> QED
      BY <1>5, <2>1, <3>5, <3>6, RowsUntouched DEF FailLaunchObserve, IInv
  <2> QED
    BY <2>3, <2>4
<1>6. CASE StartCrash(r)
  <2>1. TypeOK' /\ StartInv' /\ WorkerInv'
    BY <1>6, RunsAssumption DEF StartCrash, IInv, TypeOK, StartInv, WorkerInv, rowVars, StartPhase
  <2>2. CallInv' /\ AtMostOneExecutor'
    BY <1>6 DEF StartCrash, IInv, CallInv, AtMostOneExecutor, rowVars
  <2> QED
    BY <1>6, <2>1, <2>2, RowsUntouched DEF StartCrash, IInv
<1> QED
  BY <1>1, <1>2, <1>3, <1>4, <1>5, <1>6

\* The SELECT half of a cancellation.
LEMMA CancelObserveKeeps ==
    ASSUME IInv, NEW u \in Users, NEW r \in Runs, CancelObserve(u, r)
    PROVE  IInv'
<1>1. "CANCELLED" \in DOMAIN Predecessors /\ u \in Clients
  BY DEF Predecessors, Terminal, Clients
<1>2. PICK n \in Transition :
          /\ open' = open \cup {n}
          /\ n.by = u /\ n.run = r /\ n.to = "CANCELLED"
          /\ n.seen = status[r] /\ n.seenHistory = history[r]
  BY <1>1, ObserveAdds DEF CancelObserve, IInv
<1>3. status[r] \in Predecessors["CANCELLED"] /\ status[r] # "NONE"
  BY DEF CancelObserve, Legal, Predecessors, Terminal
<1>4. u \notin Workers /\ u # "start"
  BY RunsAssumption DEF Workers
<1>5. CallInv'
  BY <1>2, <1>3, <1>4 DEF CancelObserve, IInv, CallInv, rowVars
<1>6. TypeOK'
  BY <1>2 DEF CancelObserve, IInv, TypeOK, rowVars
<1>7. StartInv' /\ WorkerInv' /\ AtMostOneExecutor'
  BY DEF CancelObserve, IInv, StartInv, WorkerInv, AtMostOneExecutor, rowVars
<1> QED
  BY <1>5, <1>6, <1>7, RowsUntouched DEF CancelObserve, IInv

\* The steps of a worker that are not a half of a call.
LEMMA WorkerKeeps ==
    ASSUME IInv, NEW w \in Workers,
           (\E r \in Runs : Pick(w, r)) \/ Load(w) \/ Compute(w) \/ Raise(w) \/ Crash(w)
    PROVE  IInv'
<1>1. CASE \E r \in Runs : Pick(w, r)
  <2>1. PICK r \in Runs : Pick(w, r)
    BY <1>1
  <2>2. w \in Dispatchers /\ w \notin Runs /\ pc[w] = "polling"
    BY <2>1, RunsAssumption DEF Pick
  <2>3. /\ pc' = [pc EXCEPT ![w] = "picked"] /\ job' = [job EXCEPT ![w] = r]
        /\ UNCHANGED <<rowVars, created, artifact, cancelAudits, start, open, orphaned, crashes>>
    BY <2>1 DEF Pick, Goto
  <2>4. TypeOK'
    BY <2>3 DEF IInv, TypeOK, rowVars, Phase
  <2>5. StartInv' /\ WorkerInv' /\ AtMostOneExecutor'
    BY <2>2, <2>3 DEF IInv, StartInv, WorkerInv, AtMostOneExecutor, TypeOK, rowVars, Executing
  <2>6. CallInv'
    BY <2>2, <2>3 DEF IInv, CallInv, TypeOK, rowVars, Target
  <2> QED
    BY <2>3, <2>4, <2>5, <2>6, RowsUntouched DEF IInv
<1>2. CASE Load(w)
  <2>1. pc[w] = "claimed" /\ job[w] \in Runs
    BY <1>2 DEF Load, IInv, WorkerInv
  <2>2. \E phase \in {"computing", "off", "polling"} :
           /\ phase = "computing" => status[job[w]] = "RUNNING"
           /\ pc' = [pc EXCEPT ![w] = phase]
    BY <1>2 DEF Load, Goto, Done
  <2>3. UNCHANGED <<rowVars, created, artifact, cancelAudits, start, job, open, orphaned, crashes>>
    BY <1>2 DEF Load
  <2>4. TypeOK'
    BY <2>2, <2>3 DEF IInv, TypeOK, rowVars, Phase, Executing
  <2>5. StartInv' /\ WorkerInv' /\ AtMostOneExecutor'
    BY <2>1, <2>2, <2>3
    DEF IInv, StartInv, WorkerInv, AtMostOneExecutor, TypeOK, rowVars, Executing
  <2>6. CallInv'
    BY <2>1, <2>2, <2>3 DEF IInv, CallInv, TypeOK, rowVars, Target
  <2> QED
    BY <2>3, <2>4, <2>5, <2>6, RowsUntouched DEF IInv
<1>3. CASE Compute(w)
  <2>1. /\ pc[w] = "computing" /\ job[w] \in Runs
        /\ status[job[w]] \notin {"NONE", "QUEUED", "SUCCEEDED"}
    BY <1>3 DEF Compute, IInv, WorkerInv, Executing
  <2>2. /\ pc' = [pc EXCEPT ![w] = "computed"]
        /\ artifact' = IF job[w] \in ModelRuns THEN [artifact EXCEPT ![job[w]] = w] ELSE artifact
        /\ UNCHANGED <<rowVars, created, cancelAudits, start, job, open, orphaned, crashes>>
    BY <1>3 DEF Compute, Goto
  <2>3. TypeOK'
    BY <2>2 DEF IInv, TypeOK, rowVars, Phase, Executing
  <2>4. StartInv' /\ AtMostOneExecutor'
    BY <2>1, <2>2 DEF IInv, StartInv, AtMostOneExecutor, TypeOK, rowVars, Executing
  <2>5. WorkerInv'
    <3>1. \A v \in Workers :
             (v # w /\ pc[v] \in {"computed", "publishing"}) => job[v] # job[w]
      BY <2>1 DEF IInv, AtMostOneExecutor, Executing
    <3> QED
      BY <2>1, <2>2, <3>1 DEF IInv, WorkerInv, TypeOK, rowVars, Executing
  <2>6. CallInv'
    BY <2>1, <2>2 DEF IInv, CallInv, TypeOK, rowVars, Target
  <2>7. ResultMatchesStatus' /\ CancelledOnce'
    BY <2>1, <2>2 DEF IInv, ResultMatchesStatus, CancelledOnce, TypeOK, rowVars
  <2> QED
    BY <2>3, <2>4, <2>5, <2>6, <2>7 DEF IInv
<1>4. CASE Raise(w)
  <2>1. pc[w] \in {"computing", "computed", "publishing"} /\ job[w] \in Runs
    BY <1>4 DEF Raise, IInv, WorkerInv
  <2>2. TypeOK'
    BY <1>4 DEF Raise, Goto, IInv, TypeOK, rowVars, Phase, Executing
  <2>3. StartInv' /\ WorkerInv' /\ AtMostOneExecutor'
    BY <1>4, <2>1 DEF Raise, Goto, IInv, StartInv, WorkerInv, AtMostOneExecutor, TypeOK,
                      rowVars, Executing
  <2>4. CallInv'
    BY <1>4 DEF Raise, Goto, IInv, CallInv, TypeOK, rowVars
  <2> QED
    BY <1>4, <2>2, <2>3, <2>4, RowsUntouched DEF Raise, IInv
<1>5. CASE Crash(w)
  <2>1. pc[w] \notin {"off", "polling"} /\ job[w] \in Runs
    BY <1>5 DEF Crash, IInv, WorkerInv
  <2>2. \E phase \in {"off", "polling"} : pc' = [pc EXCEPT ![w] = phase]
    BY <1>5 DEF Crash, Goto, Done
  <2>3. pc' \in [Workers -> Phase]
    BY <2>2 DEF IInv, TypeOK, Phase
  <2>4. TypeOK'
    BY <1>5, <2>1, <2>3, RunsAssumption DEF Crash, IInv, TypeOK, rowVars
  <2>5. StartInv' /\ WorkerInv' /\ AtMostOneExecutor'
    BY <1>5, <2>1, <2>2 DEF Crash, IInv, StartInv, WorkerInv, AtMostOneExecutor, TypeOK,
                           rowVars, Executing
  <2>6. CallInv'
    BY <1>5, <2>2 DEF Crash, IInv, CallInv, TypeOK, rowVars
  <2> QED
    BY <1>5, <2>4, <2>5, <2>6, RowsUntouched DEF Crash, IInv
<1> QED
  BY <1>1, <1>2, <1>3, <1>4, <1>5

\* Every step of a session, a worker or a crash keeps the inductive invariant.
LEMMA NextIInv == IInv /\ [Next]_vars => IInv'
<1> SUFFICES ASSUME IInv, [Next]_vars PROVE IInv'
  OBVIOUS
<1>1. ASSUME NEW r \in Runs, Admit(r) \/ StartStep(r) \/ StartCrash(r) PROVE IInv'
  <2>1. ASSUME NEW t \in open, FailLaunchUpdate(t) PROVE IInv'
    BY <2>1, UpdateActions, UpdateKeeps
  <2> QED
    BY <1>1, <2>1, StartKeeps DEF StartStep
<1>2. ASSUME NEW w \in Workers, WorkerStep(w) \/ Crash(w) PROVE IInv'
  <2>1. ASSUME NEW t \in open, ClaimUpdate(t) \/ FinishUpdate(t) PROVE IInv'
    BY <2>1, UpdateActions, UpdateKeeps
  <2>2. CASE ClaimObserve(w)
    BY <2>2, CallObserveKeeps DEF ClaimObserve, Target, Opens
  <2>3. CASE PublishObserve(w)
    BY <2>3, CallObserveKeeps DEF PublishObserve, Target, Opens
  <2>4. CASE FailObserve(w)
    BY <2>4, CallObserveKeeps DEF FailObserve, Target, Opens
  <2> QED
    BY <1>2, <2>1, <2>2, <2>3, <2>4, WorkerKeeps DEF WorkerStep
<1>3. ASSUME NEW u \in Users, UserStep(u) PROVE IInv'
  <2>1. ASSUME NEW t \in open, CancelUpdate(t) PROVE IInv'
    BY <2>1, UpdateActions, UpdateKeeps
  <2> QED
    BY <1>3, <2>1, CancelObserveKeeps DEF UserStep
<1>4. CASE UNCHANGED vars
  BY <1>4, RowsUntouched
  DEF vars, rowVars, IInv, TypeOK, StartInv, WorkerInv, CallInv, AtMostOneExecutor
<1> QED
  BY <1>1, <1>2, <1>3, <1>4 DEF Next

\* What the sessions remember and where the workers are always agrees with the rows.
THEOREM Invariance == Spec => []IInv
BY InitIInv, NextIInv, PTL DEF Spec

\* Every variable keeps its type, whatever the sessions interleave.
THEOREM TypeCorrect == Spec => []TypeOK
<1>1. IInv => TypeOK
  BY DEF IInv
<1> QED
  BY <1>1, Invariance, PTL

\* "Duplicate claims do not execute twice" (docs/OPERATIONS_VERIFICATION.md:10).
THEOREM OneExecutor == Spec => []AtMostOneExecutor
<1>1. IInv => AtMostOneExecutor
  BY DEF IInv
<1> QED
  BY <1>1, Invariance, PTL

\* The result, the error and the artifact of a run always agree with its status.
THEOREM ResultCorrect == Spec => []ResultMatchesStatus
<1>1. IInv => ResultMatchesStatus
  BY DEF IInv
<1> QED
  BY <1>1, Invariance, PTL

\* Racing cancellations leave one audit row.
THEOREM CancelAudited == Spec => []CancelledOnce
<1>1. IInv => CancelledOnce
  BY DEF IInv
<1> QED
  BY <1>1, Invariance, PTL

-----------------------------------------------------------------------------
(***************************************************************************)
(* Action properties and refinement: what one step can do to the table.    *)
(***************************************************************************)
\* A step inserts a row, or completes one call whose observation still holds, or
\* leaves the table alone.
LEMMA TableStep ==
    ASSUME IInv, [Next]_vars
    PROVE  \/ UNCHANGED rowVars
           \/ \E r \in Runs :
                 /\ status[r] = "NONE" /\ history[r] = <<>>
                 /\ status' = [status EXCEPT ![r] = "QUEUED"]
                 /\ history' = [history EXCEPT ![r] = <<"QUEUED">>]
                 /\ UNCHANGED <<result, error>>
           \/ \E t \in open : Matches(t) /\ Write(t) /\ UpdateStep(t)
<1>1. ASSUME NEW r \in Runs, Insert(r)
      PROVE  /\ status[r] = "NONE" /\ history[r] = <<>>
             /\ status' = [status EXCEPT ![r] = "QUEUED"]
             /\ history' = [history EXCEPT ![r] = <<"QUEUED">>]
             /\ UNCHANGED <<result, error>>
  BY <1>1 DEF Insert, IInv, StartInv
<1>2. ASSUME NEW t \in open,
             FailLaunchUpdate(t) \/ CancelUpdate(t) \/ ClaimUpdate(t) \/ FinishUpdate(t)
      PROVE  UNCHANGED rowVars \/ (Matches(t) /\ Write(t) /\ UpdateStep(t))
  <2>1. UpdateStep(t)
    BY <1>2, UpdateActions
  <2> QED
    BY <2>1 DEF UpdateStep
<1>3. ASSUME NEW r \in Runs,
             \/ Admit(r) \/ Launch(r) \/ LaunchFails(r) \/ FailLaunchObserve(r) \/ StartCrash(r)
      PROVE  UNCHANGED rowVars
  BY <1>3 DEF Admit, Launch, LaunchFails, FailLaunchObserve, StartCrash
<1>4. ASSUME NEW w \in Workers,
             \/ ClaimObserve(w) \/ PublishObserve(w) \/ FailObserve(w)
             \/ (\E r \in Runs : Pick(w, r))
             \/ Load(w) \/ Compute(w) \/ Raise(w) \/ Crash(w)
      PROVE  UNCHANGED rowVars
  BY <1>4 DEF ClaimObserve, PublishObserve, FailObserve, CallObserve, Pick, Load, Compute,
              Raise, Crash
<1>5. ASSUME NEW u \in Users, NEW r \in Runs, CancelObserve(u, r) PROVE UNCHANGED rowVars
  BY <1>5 DEF CancelObserve
<1>6. CASE UNCHANGED vars
  BY <1>6 DEF vars, rowVars
<1> QED
  BY <1>1, <1>2, <1>3, <1>4, <1>5, <1>6 DEF Next, StartStep, WorkerStep, UserStep

\* "A competing claim cannot lose its history" (analysis_lifecycle.py:54).
THEOREM HistoryAppendOnly == Spec => HistoryKept
<1> DEFINE Kept == \A r \in Runs :
               IF status'[r] = status[r] THEN history'[r] = history[r]
               ELSE history'[r] = Append(history[r], status'[r])
<1>1. ASSUME IInv, [Next]_vars PROVE Kept
  <2> SUFFICES ASSUME NEW r \in Runs
               PROVE  IF status'[r] = status[r] THEN history'[r] = history[r]
                      ELSE history'[r] = Append(history[r], status'[r])
    OBVIOUS
  <2>1. CASE UNCHANGED rowVars
    BY <2>1 DEF rowVars
  <2>2. ASSUME NEW q \in Runs, status[q] = "NONE", history[q] = <<>>,
               status' = [status EXCEPT ![q] = "QUEUED"],
               history' = [history EXCEPT ![q] = <<"QUEUED">>]
        PROVE  IF status'[r] = status[r] THEN history'[r] = history[r]
               ELSE history'[r] = Append(history[r], status'[r])
    <3>1. Append(<<>>, "QUEUED") = <<"QUEUED">>
      OBVIOUS
    <3> QED
      BY <1>1, <2>2, <3>1 DEF IInv, TypeOK
  <2>3. ASSUME NEW t \in open, Matches(t), Write(t)
        PROVE  IF status'[r] = status[r] THEN history'[r] = history[r]
               ELSE history'[r] = Append(history[r], status'[r])
    <3>1. t.seen # t.to /\ status[t.run] = t.seen
      BY <1>1, <2>3, WriteFacts, CallFacts DEF IInv
    <3>2. IF r = t.run
          THEN status'[r] = t.to /\ history'[r] = Append(history[r], t.to)
          ELSE status'[r] = status[r] /\ history'[r] = history[r]
      BY <1>1, <2>3, WriteFacts DEF IInv
    <3> QED
      BY <3>1, <3>2
  <2> QED
    BY <1>1, <2>1, <2>2, <2>3, TableStep
<1>2. IInv /\ [Next]_vars => [Kept]_vars
  BY <1>1
<1> QED
  BY <1>2, Invariance, PTL DEF Spec, HistoryKept

\* A launch error never fails a run that is being executed.
THEOREM LaunchErrorHarmless == Spec => LaunchErrorSparesClaimed
<1> DEFINE Spared == \A r \in Runs : (status[r] = "RUNNING" /\ status'[r] = "FAILED")
                        => \E w \in Workers : pc[w] = "failing" /\ job[w] = r
<1>1. ASSUME IInv, [Next]_vars PROVE Spared
  <2> SUFFICES ASSUME NEW r \in Runs, status[r] = "RUNNING", status'[r] = "FAILED"
               PROVE  \E w \in Workers : pc[w] = "failing" /\ job[w] = r
    OBVIOUS
  <2>1. PICK t \in open : Matches(t) /\ Write(t)
    BY <1>1, TableStep DEF rowVars, IInv, TypeOK
  <2>2. t.run = r /\ t.to = "FAILED" /\ t.seen = "RUNNING"
    BY <1>1, <2>1, WriteFacts, CallFacts DEF IInv
  <2>3. t.by \in Workers
    BY <1>1, <2>2, CallOwner DEF IInv, CallInv
  <2>4. job[t.by] = r /\ pc[t.by] \in DOMAIN Target /\ Target[pc[t.by]] = "FAILED"
    BY <1>1, <2>2, <2>3 DEF IInv, CallInv
  <2>5. pc[t.by] = "failing"
    BY <2>4 DEF Target
  <2> QED
    BY <2>3, <2>4, <2>5
<1>2. IInv /\ [Next]_vars => [Spared]_vars
  BY <1>1
<1> QED
  BY <1>2, Invariance, PTL DEF Spec, LaunchErrorSparesClaimed

\* The table of runs implements the abstract job lifecycle: Insert is Submit, a
\* matched UPDATE is Claim, Publish, Fail or Cancel by its target, all else stutters.
THEOREM Refinement == Spec => ImplementsLifecycle
<1>1. Init => Lifecycle!JobInit
  BY DEF Init, Lifecycle!JobInit
<1>2. ASSUME IInv, [Next]_vars PROVE [Lifecycle!JobNext]_(Lifecycle!jobVars)
  <2>1. CASE UNCHANGED rowVars
    BY <2>1 DEF rowVars, Lifecycle!jobVars
  <2>2. ASSUME NEW r \in Runs, status[r] = "NONE",
               status' = [status EXCEPT ![r] = "QUEUED"], UNCHANGED result
        PROVE  Lifecycle!JobNext
    BY <2>2 DEF Lifecycle!JobNext, Lifecycle!Submit, Lifecycle!Move
  <2>3. ASSUME NEW t \in open, Matches(t), Write(t) PROVE Lifecycle!JobNext
    <3>1. /\ t.run \in Runs /\ status[t.run] = t.seen
          /\ t.to \in {"RUNNING", "SUCCEEDED", "FAILED", "CANCELLED"}
      BY <1>2, <2>3, WriteFacts, CallFacts DEF IInv
    <3>2. t.seen \in Predecessors[t.to]
      BY <1>2 DEF IInv, CallInv
    <3>3. result[t.run] = NoOne
      BY <1>2, <3>1, <3>2 DEF IInv, ResultMatchesStatus, Predecessors, Terminal
    <3>4. status' = [status EXCEPT ![t.run] = t.to]
      BY <2>3 DEF Write
    <3>5. CASE t.to = "RUNNING"
      <4>1. UNCHANGED result
        BY <2>3, <3>5 DEF Write
      <4>2. Lifecycle!Claim(t.run)
        BY <3>1, <3>2, <3>4, <3>5, <4>1 DEF Lifecycle!Claim, Lifecycle!Move, Predecessors, Terminal
      <4> QED
        BY <3>1, <4>2 DEF Lifecycle!JobNext
    <3>6. CASE t.to = "SUCCEEDED"
      <4>1. result' = [result EXCEPT ![t.run] = t.by] /\ t.by \in Workers
        BY <1>2, <2>3, <3>6, CallOwner DEF IInv, Write, ResultOf
      <4>2. Lifecycle!Publish(t.run)
        BY <3>1, <3>2, <3>4, <3>6, <4>1 DEF Lifecycle!Publish, Lifecycle!Move, Predecessors, Terminal
      <4> QED
        BY <3>1, <4>2 DEF Lifecycle!JobNext
    <3>7. CASE t.to \in {"FAILED", "CANCELLED"}
      <4>1. UNCHANGED result
        BY <1>2, <2>3, <3>1, <3>3, <3>7 DEF Write, ResultOf, IInv, TypeOK
      <4>2. t.to = "FAILED" => Lifecycle!Fail({t.run})
        BY <1>2, <3>1, <3>2, <3>4, <4>1 DEF Lifecycle!Fail, Predecessors, Terminal, IInv, TypeOK
      <4>3. t.to = "CANCELLED" => Lifecycle!Cancel(t.run)
        BY <3>1, <3>2, <3>4, <4>1 DEF Lifecycle!Cancel, Lifecycle!Move, Predecessors, Terminal
      <4> QED
        BY <3>1, <3>7, <4>2, <4>3 DEF Lifecycle!JobNext
    <3> QED
      BY <3>1, <3>5, <3>6, <3>7
  <2> QED
    BY <1>2, <2>1, <2>2, <2>3, TableStep
<1>3. IInv /\ [Next]_vars => [Lifecycle!JobNext]_(Lifecycle!jobVars)
  BY <1>2
<1> QED
  BY <1>1, <1>3, Invariance, PTL DEF Spec, ImplementsLifecycle, Lifecycle!JobSpec

-----------------------------------------------------------------------------
(***************************************************************************)
(* Orphans: runs whose executing process crashed.                          *)
(***************************************************************************)
OrphanInv ==
    \A r \in orphaned :
        /\ status[r] \in {"RUNNING", "CANCELLED"}
        /\ \A w \in Workers : job[w] = r => pc[w] \notin Executing

\* A worker executes after a step only the run it executed before, or one that it
\* has claimed in this step.
LEMMA ExecutingStep ==
    ASSUME IInv, [Next]_vars, NEW w \in Workers, pc'[w] \in Executing
    PROVE  /\ job'[w] = job[w]
           /\ pc[w] \in Executing \/ status[job[w]] = "QUEUED"
<1>1. ASSUME NEW t \in open,
             FailLaunchUpdate(t) \/ CancelUpdate(t) \/ ClaimUpdate(t) \/ FinishUpdate(t)
      PROVE  /\ job'[w] = job[w]
             /\ pc[w] \in Executing \/ status[job[w]] = "QUEUED"
  <2>1. UpdateStep(t)
    BY <1>1, UpdateActions
  <2>2. job' = job
    BY <2>1 DEF UpdateStep
  <2>3. CASE t.by = w
    <3>1. t.to = "RUNNING" /\ Matches(t)
      BY <2>1, <2>3 DEF UpdateStep, Done, Executing, IInv, TypeOK
    <3>2. t.seen = "QUEUED" /\ job[w] = t.run
      BY <2>3, <3>1, CallFacts DEF IInv, CallInv
    <3> QED
      BY <2>2, <3>1, <3>2 DEF Matches
  <2>4. CASE t.by # w
    BY <2>1, <2>2, <2>4 DEF UpdateStep, IInv, TypeOK
  <2> QED
    BY <2>3, <2>4
<1>2. ASSUME NEW r \in Runs,
             \/ Admit(r) \/ Insert(r) \/ Launch(r) \/ LaunchFails(r)
             \/ FailLaunchObserve(r) \/ StartCrash(r)
      PROVE  job' = job /\ pc[w] \in Executing
  BY <1>2 DEF Admit, Insert, Launch, LaunchFails, FailLaunchObserve, StartCrash, Executing,
              IInv, TypeOK
<1>3. ASSUME NEW v \in Workers,
             \/ ClaimObserve(v) \/ PublishObserve(v) \/ FailObserve(v)
             \/ Load(v) \/ Compute(v) \/ Raise(v) \/ Crash(v)
      PROVE  job' = job /\ pc[w] \in Executing
  <2>1. job' = job /\ \E phase \in Phase : pc' = [pc EXCEPT ![v] = phase]
    BY <1>3 DEF ClaimObserve, PublishObserve, FailObserve, CallObserve, Load, Compute, Raise,
                Crash, Goto, Done, Phase, Executing
  <2>2. CASE v # w
    BY <2>1, <2>2 DEF IInv, TypeOK
  <2>3. CASE v = w
    BY <1>3, <2>1, <2>3
    DEF ClaimObserve, PublishObserve, FailObserve, CallObserve, Load, Compute, Raise, Crash,
        Goto, Done, Executing, IInv, TypeOK
  <2> QED
    BY <2>1, <2>2, <2>3
<1>4. ASSUME NEW d \in Workers, NEW r \in Runs, Pick(d, r)
      PROVE  job'[w] = job[w] /\ pc[w] \in Executing
  BY <1>4 DEF Pick, Goto, Executing, IInv, TypeOK
<1>5. ASSUME NEW u \in Users, NEW r \in Runs, CancelObserve(u, r)
      PROVE  job' = job /\ pc[w] \in Executing
  BY <1>5 DEF CancelObserve
<1>6. CASE UNCHANGED vars
  BY <1>6 DEF vars
<1> QED
  BY <1>1, <1>2, <1>3, <1>4, <1>5, <1>6 DEF Next, StartStep, WorkerStep, UserStep

\* The row of an orphan only ever changes by cancellation, and nobody executes it.
LEMMA OrphanLeft ==
    ASSUME IInv, OrphanInv, [Next]_vars, NEW r \in orphaned
    PROVE  /\ status'[r] \in {status[r], "CANCELLED"}
           /\ \A w \in Workers : job'[w] = r => pc'[w] \notin Executing
<1>1. r \in Runs /\ status[r] \in {"RUNNING", "CANCELLED"}
  BY DEF IInv, TypeOK, OrphanInv
<1>2. ASSUME NEW w \in Workers, job'[w] = r, pc'[w] \in Executing PROVE FALSE
  BY <1>1, <1>2, ExecutingStep DEF OrphanInv
<1>3. status'[r] \in {status[r], "CANCELLED"}
  <2>1. CASE UNCHANGED rowVars
    BY <2>1 DEF rowVars
  <2>2. ASSUME NEW q \in Runs, status[q] = "NONE", status' = [status EXCEPT ![q] = "QUEUED"]
        PROVE  status'[r] = status[r]
    BY <1>1, <2>2 DEF IInv, TypeOK
  <2>3. ASSUME NEW t \in open, Matches(t), Write(t)
        PROVE  status'[r] \in {status[r], "CANCELLED"}
    <3>1. IF r = t.run THEN status'[r] = t.to /\ status[r] = t.seen
          ELSE status'[r] = status[r]
      BY <1>1, <2>3, WriteFacts DEF IInv
    <3>2. CASE r = t.run /\ t.to # "CANCELLED"
      <4>1. t.seen = "RUNNING"
        BY <1>1, <3>1, <3>2, CallFacts DEF IInv
      <4>2. t.by \in Workers
        BY <3>2, <4>1, CallOwner DEF IInv, CallInv
      <4>3. job[t.by] = r /\ pc[t.by] \in DOMAIN Target /\ t.to = Target[pc[t.by]]
        BY <3>2, <4>2 DEF IInv, CallInv
      <4>4. pc[t.by] # "claiming"
        BY <4>1, <4>3, CallFacts DEF Target, IInv
      <4>5. pc[t.by] \in Executing
        BY <4>3, <4>4 DEF Target, Executing
      <4> QED
        BY <4>2, <4>3, <4>5 DEF OrphanInv
    <3> QED
      BY <3>1, <3>2
  <2> QED
    BY <2>1, <2>2, <2>3, TableStep
<1> QED
  BY <1>2, <1>3

\* A run becomes an orphan when its only executing worker leaves it.
LEMMA OrphanedStep ==
    ASSUME IInv, [Next]_vars, NEW r \in orphaned', r \notin orphaned
    PROVE  /\ status'[r] = "RUNNING"
           /\ \A v \in Workers : job'[v] = r => pc'[v] \notin Executing
<1>1. ASSUME NEW w \in Workers, Crash(w)
      PROVE  /\ status'[r] = "RUNNING"
             /\ \A v \in Workers : job'[v] = r => pc'[v] \notin Executing
  <2>1. /\ pc[w] \in Executing /\ status[r] = "RUNNING" /\ r = job[w]
        /\ status' = status /\ job' = job /\ pc' = [pc EXCEPT ![w] = Done(w)]
    BY <1>1 DEF Crash, Goto, rowVars
  <2>2. ASSUME NEW v \in Workers, job'[v] = r PROVE pc'[v] \notin Executing
    BY <2>1, <2>2 DEF IInv, AtMostOneExecutor, TypeOK, Done, Executing
  <2> QED
    BY <2>1, <2>2
<1>2. ASSUME NEW t \in open,
             FailLaunchUpdate(t) \/ CancelUpdate(t) \/ ClaimUpdate(t) \/ FinishUpdate(t)
      PROVE  FALSE
  BY <1>2, UpdateActions DEF UpdateStep
<1>3. ASSUME NEW q \in Runs,
             \/ Admit(q) \/ Insert(q) \/ Launch(q) \/ LaunchFails(q)
             \/ FailLaunchObserve(q) \/ StartCrash(q)
      PROVE  FALSE
  BY <1>3 DEF Admit, Insert, Launch, LaunchFails, FailLaunchObserve, StartCrash
<1>4. ASSUME NEW v \in Workers,
             \/ ClaimObserve(v) \/ PublishObserve(v) \/ FailObserve(v)
             \/ (\E q \in Runs : Pick(v, q)) \/ Load(v) \/ Compute(v) \/ Raise(v)
      PROVE  FALSE
  BY <1>4 DEF ClaimObserve, PublishObserve, FailObserve, CallObserve, Pick, Load, Compute, Raise
<1>5. ASSUME NEW u \in Users, NEW q \in Runs, CancelObserve(u, q) PROVE FALSE
  BY <1>5 DEF CancelObserve
<1>6. CASE UNCHANGED vars
  BY <1>6 DEF vars
<1> QED
  BY <1>1, <1>2, <1>3, <1>4, <1>5, <1>6 DEF Next, StartStep, WorkerStep, UserStep

\* No orphan is ever executed.
LEMMA OrphanInvariance == Spec => [](IInv /\ OrphanInv)
<1>1. Init => OrphanInv
  BY DEF Init, OrphanInv
<1>2. ASSUME IInv, OrphanInv, [Next]_vars PROVE OrphanInv'
  <2> SUFFICES ASSUME NEW r \in orphaned'
               PROVE  /\ status'[r] \in {"RUNNING", "CANCELLED"}
                      /\ \A w \in Workers : job'[w] = r => pc'[w] \notin Executing
    BY DEF OrphanInv, Workers, Executing
  <2>1. CASE r \in orphaned
    BY <1>2, <2>1, OrphanLeft DEF OrphanInv
  <2>2. CASE r \notin orphaned
    BY <1>2, <2>2, OrphanedStep
  <2> QED
    BY <2>1, <2>2
<1>3. IInv /\ OrphanInv /\ [Next]_vars => OrphanInv'
  BY <1>2
<1> QED
  BY <1>1, <1>3, InitIInv, NextIInv, PTL DEF Spec

\* "No automatic stale-job retry is performed.  Cancel a failed analytical run"
\* (docs/OPERATIONS_VERIFICATION.md:28): an orphaned run is only ever cancelled.
THEOREM OrphansOnlyCancelled == Spec => OrphanOnlyCancelled
<1> DEFINE Left == \A r \in orphaned :
          /\ status'[r] \in {status[r], "CANCELLED"}
          /\ \A w \in Workers : job'[w] = r => pc'[w] \notin Executing
<1>1. ASSUME IInv, OrphanInv, [Next]_vars PROVE Left
  BY <1>1, OrphanLeft
<1>2. IInv /\ OrphanInv /\ [Next]_vars => [Left]_vars
  BY <1>1
<1> QED
  BY <1>2, OrphanInvariance, PTL DEF Spec, OrphanOnlyCancelled
=============================================================================
