------------------------ MODULE InitiativeRunProofs ------------------------
(***************************************************************************)
(* Proofs about InitiativeRun for any number of concurrent requests and    *)
(* any plans.                                                              *)
(***************************************************************************)
EXTENDS InitiativeRun, FiniteSetTheorems, WellFoundedInduction, TLAPS

(***************************************************************************)
(* The operators.                                                          *)
(***************************************************************************)
\* A non-empty set of numbers has a least element.
LEMMA LeastExists ==
  ASSUME NEW S, S \subseteq Nat, S # {}
  PROVE  \E x \in S : \A y \in S : x <= y
<1>1. PICK x \in S : \A y \in S : ~ (<<y, x>> \in OpToRel(<, Nat))
  BY NatLessThanWellFounded, WFMin
<1>2. \A y \in S : x <= y
  <2> SUFFICES ASSUME NEW y \in S, y < x PROVE FALSE
    OBVIOUS
  <2>1. <<y, x>> \in OpToRel(<, Nat)
    BY DEF OpToRel
  <2> QED
    BY <1>1, <2>1
<1> QED
  BY <1>2

\* A non-empty set of places in a sequence has a last one.
LEMMA LastExists ==
  ASSUME NEW n \in Nat, NEW S \in SUBSET (1 .. n), S # {}
  PROVE  \E x \in S : \A y \in S : y <= x
<1> DEFINE D == {n - x : x \in S}
<1>1. D \subseteq Nat /\ D # {}
  OBVIOUS
<1>2. PICK d \in D : \A e \in D : d <= e
  BY <1>1, LeastExists
<1>3. PICK x \in S : d = n - x
  OBVIOUS
<1>4. \A y \in S : y <= x
  <2> SUFFICES ASSUME NEW y \in S PROVE y <= x
    OBVIOUS
  <2>1. n - x <= n - y
    BY <1>2, <1>3
  <2> QED
    BY <2>1
<1> QED
  BY <1>4

\* l comes first in the order of the query.
First(l, todo) ==
  \A k \in todo :
    \/ task[l[1]].order < task[k[1]].order
    \/ task[l[1]].order = task[k[1]].order /\ l[1] <= k[1]

\* A list that is not empty has a first task, and only one.
LEMMA FirstListed ==
  ASSUME TypeOK, NEW todo, todo \subseteq (DOMAIN task) \X Mode, todo # {}
  PROVE  /\ NextListed(todo) \in todo /\ First(NextListed(todo), todo)
         /\ \A l \in todo : First(l, todo) => l[1] = NextListed(todo)[1]
<1>0. \A l \in todo : l[1] \in DOMAIN task /\ l[1] \in Nat /\ task[l[1]].order \in Nat
  <2>1. DOMAIN task = 1 .. Len(task) /\ \A i \in 1 .. Len(task) : i \in Nat /\ task[i] \in TaskType
    BY DEF TypeOK
  <2>2. \A i \in DOMAIN task : i \in Nat /\ task[i].order \in Nat
    BY <2>1 DEF TaskType
  <2>3. \A l \in todo : l[1] \in DOMAIN task
    OBVIOUS
  <2> QED
    BY <2>2, <2>3
<1> DEFINE Orders == {task[l[1]].order : l \in todo}
<1>1. PICK o \in Orders : \A x \in Orders : o <= x
  <2>1. Orders \subseteq Nat /\ Orders # {}
    BY <1>0
  <2> HIDE DEF Orders
  <2> QED
    BY <2>1, LeastExists
<1> DEFINE Places == {l[1] : l \in {k \in todo : task[k[1]].order = o}}
<1>2. PICK i \in Places : \A x \in Places : i <= x
  <2>1. Places \subseteq Nat /\ Places # {}
    BY <1>0
  <2> HIDE DEF Places
  <2> QED
    BY <2>1, LeastExists
<1>3. PICK l \in todo : task[l[1]].order = o /\ l[1] = i
  OBVIOUS
<1>4. First(l, todo)
  <2> SUFFICES ASSUME NEW k \in todo, ~(task[l[1]].order < task[k[1]].order)
               PROVE  task[l[1]].order = task[k[1]].order /\ l[1] <= k[1]
    BY DEF First
  <2>1. o <= task[k[1]].order
    BY <1>1
  <2>2. task[k[1]].order = o
    BY <1>0, <1>3, <2>1
  <2> QED
    BY <1>2, <1>3, <2>2
<1>5. NextListed(todo) \in todo /\ First(NextListed(todo), todo)
  BY <1>4 DEF NextListed, First
<1>6. ASSUME NEW k \in todo, First(k, todo) PROVE k[1] = NextListed(todo)[1]
  <2> DEFINE n == NextListed(todo)
  <2>1. /\ task[k[1]].order < task[n[1]].order \/ (task[k[1]].order = task[n[1]].order /\ k[1] <= n[1])
        /\ task[n[1]].order < task[k[1]].order \/ (task[n[1]].order = task[k[1]].order /\ n[1] <= k[1])
    BY <1>5, <1>6 DEF First
  <2>2. n \in todo
    BY <1>5
  <2> HIDE DEF n
  <2>3. k[1] = n[1]
    BY <1>0, <2>1, <2>2
  <2> QED
    BY <2>3 DEF n
<1> QED
  BY <1>5, <1>6

\* The status derived from the tasks is one of an initiative in execution.
LEMMA DerivedStatus == DeriveStatus \in Status
  BY DEF DeriveStatus, Status

(***************************************************************************)
(* Types.                                                                  *)
(***************************************************************************)
\* A request refers to artifacts and tasks that exist: rows are never deleted.
\* What writes the history comes from the API, the bot or the autonomous run.
Deciding == {"generate", "review", "activate", "materialize", "check", "record", "write"}
RefInv ==
  \A p \in Procs :
    /\ req[p].at \in Deciding => req[p].by \in {"http", "telegram", "auto"}
    /\ req[p].at \in {"review", "activate", "materialize"} =>
         req[p].art \in DOMAIN artifact /\ artifact[req[p].art].phase = req[p].phase
    /\ req[p].at = "materialize" => req[p].phase = "plan"
    /\ req[p].at \in {"target", "queue"} => req[p].todo # {}
    /\ req[p].todo \subseteq (DOMAIN task) \X Mode

\* The rows of a history that begins after n phases.
LEMMA HistoryFacts ==
  ASSUME NEW n \in 0 .. 3
  PROVE  /\ Rows(n) \in Seq(ArtifactType) /\ History(n) \in Seq(ReviewType)
         /\ ActiveUpTo(n) \in [Phase -> 0 .. n]
<1> DEFINE names == <<"requirements", "design", "plan">>
<1>1. \A i \in 1 .. n : names[i] \in Phase
  BY DEF Phase
<1>2. Rows(n) \in Seq(ArtifactType)
  <2>1. \A i \in 1 .. n : [phase |-> names[i], valid |-> TRUE, tasks |-> <<>>] \in ArtifactType
    BY <1>1 DEF ArtifactType
  <2> QED
    BY <2>1 DEF Rows
<1>3. History(n) \in Seq(ReviewType)
  <2>1. \A i \in 1 .. (2 * n) : (i + 1) \div 2 \in 1 .. n
    OBVIOUS
  <2>2. \A i \in 1 .. (2 * n) :
          [phase |-> names[(i + 1) \div 2], decision |-> IF i % 2 = 1 THEN "generated" ELSE "approved",
           art |-> (i + 1) \div 2, by |-> IF i % 2 = 1 THEN "service" ELSE "http"] \in ReviewType
    BY <1>1, <2>1 DEF ReviewType
  <2> QED
    BY <2>2 DEF History
<1>4. ActiveUpTo(n) \in [Phase -> 0 .. n]
  BY DEF ActiveUpTo, Phase
<1> QED
  BY <1>2, <1>3, <1>4

\* The initial states are well typed.
LEMMA TypeInit == Init => TypeOK /\ RefInv
<1> SUFFICES ASSUME Init PROVE TypeOK /\ RefInv
  OBVIOUS
<1>1. PICK start \in DOMAIN Budgets : InitAt(start, ApprovedAt(start))
  BY DEF Init
<1> DEFINE n == ApprovedAt(start)
<1>2. n \in 0 .. 3
  BY DEF ApprovedAt
<1>s. InitAt(start, n)
  BY <1>1
<1> HIDE DEF n
<1>3. PICK plan \in Plans :
        /\ artifact = IF n < 3 THEN Rows(n) ELSE [Rows(3) EXCEPT ![3].tasks = plan]
        /\ task = IF n < 3 THEN <<>> ELSE [i \in DOMAIN plan |-> NewTask(3, i, plan[i])]
  BY <1>s, Zenon DEF InitAt
<1>4. budget = Budgets[start] /\ review = History(n)
  BY <1>s, Zenon DEF InitAt
<1>i. item = [status |-> <<"idea_submitted", "design_draft", "plan_draft", "execution_ready">>[n + 1],
              phase  |-> <<"requirements", "design", "plan", "execution">>[n + 1],
              active |-> ActiveUpTo(n)]
  BY <1>s, Zenon DEF InitAt
<1>r. req = [p \in Procs |-> IF p = AutoRun /\ start = "autonomous" THEN AutoStart ELSE Idle]
  BY <1>s, Zenon DEF InitAt
<1>5. item \in ItemType
  <2>1. ActiveUpTo(n) \in [Phase -> Nat]
    <3>1. ActiveUpTo(n) \in [Phase -> 0 .. n]
      BY <1>2, HistoryFacts
    <3>2. 0 .. n \subseteq Nat
      BY <1>2
    <3> QED
      BY <3>1, <3>2
  <2>2. item.status \in Status /\ item.phase \in Phase \union {"execution"}
    BY <1>2, <1>i DEF Status, Phase
  <2> QED
    BY <1>i, <2>1, <2>2 DEF ItemType
<1>6. artifact \in Seq(ArtifactType)
  <2>1. Rows(3) \in Seq(ArtifactType) /\ Rows(n) \in Seq(ArtifactType)
    BY <1>2, HistoryFacts
  <2>2. [Rows(3) EXCEPT ![3].tasks = plan] \in Seq(ArtifactType)
    <3>1. Rows(3) \in [1 .. 3 -> ArtifactType]
      BY <2>1 DEF Rows
    <3> DEFINE row(i) == IF i = 3 THEN [Rows(3)[3] EXCEPT !.tasks = plan] ELSE Rows(3)[i]
    <3>2. \A i \in 1 .. 3 : row(i) \in ArtifactType
      BY <3>1 DEF ArtifactType
    <3>3. [Rows(3) EXCEPT ![3].tasks = plan] = [i \in 1 .. 3 |-> row(i)]
      BY <3>1
    <3> HIDE DEF row
    <3>4. [i \in 1 .. 3 |-> row(i)] \in Seq(ArtifactType)
      BY <3>2
    <3> QED
      BY <3>3, <3>4
  <2> QED
    BY <1>3, <2>1, <2>2
<1>7. task \in Seq(TaskType)
  <2> DEFINE Line == [mode : Mode, target : Target]
  <2>1. plan \in Seq(Line)
    BY InitiativeAssumption
  <2>2. /\ DOMAIN plan = 1 .. Len(plan) /\ Len(plan) \in Nat
        /\ \A i \in DOMAIN plan : plan[i] \in Line /\ i \in Nat
    <3> HIDE DEF Line
    <3> QED
      BY <2>1
  <2>3. \A i \in DOMAIN plan : NewTask(3, i, plan[i]) \in TaskType
    BY <2>2 DEF NewTask, TaskType, TaskState
  <2>4. [i \in DOMAIN plan |-> NewTask(3, i, plan[i])] \in Seq(TaskType)
    BY <2>2, <2>3
  <2> QED
    BY <1>3, <2>4
<1>8. req \in [Procs -> ReqType] /\ RefInv
  <2>1. Idle \in ReqType /\ AutoStart \in ReqType
    BY DEF AutoStart, Idle, ReqType, At_, Phase, Status, Mode
  <2>2. req \in [Procs -> ReqType]
    BY <1>r, <2>1
  <2>3. \A p \in Procs : /\ req[p].at \in {"none", "generate"} /\ req[p].todo = {}
                         /\ req[p].at = "generate" => req[p].by = "auto"
    BY <1>r DEF Idle, AutoStart
  <2> QED
    BY <2>2, <2>3 DEF RefInv, Deciding
<1>9. review \in Seq(ReviewType)
  BY <1>2, <1>4, HistoryFacts
<1>10. scope \in Target /\ goalText \in BOOLEAN /\ budget \in Nat /\ faults \in Nat
  BY <1>4, InitiativeAssumption DEF Init
<1> QED
  BY <1>5, <1>6, <1>7, <1>8, <1>9, <1>10 DEF TypeOK

\* The state of one request changes at a time.
LEMMA OneRequest ==
  ASSUME TypeOK, NEW p \in Procs, NEW r \in ReqType, req' = [req EXCEPT ![p] = r]
  PROVE  /\ req' \in [Procs -> ReqType] /\ req'[p] = r
         /\ \A q \in Procs \ {p} : req'[q] = req[q]
  BY DEF TypeOK

\* Rows are only added or updated in place, so references stay good.
LEMMA RefStep ==
  ASSUME TypeOK, RefInv, NEW p \in Procs, NEW r \in ReqType, req' = [req EXCEPT ![p] = r],
         artifact' = artifact \/ \E a \in ArtifactType : artifact' = Append(artifact, a),
         DOMAIN task \subseteq DOMAIN task', r.at \in Deciding => r.by \in {"http", "telegram", "auto"},
         r.at \in {"review", "activate", "materialize"} =>
           r.art \in DOMAIN artifact' /\ artifact'[r.art].phase = r.phase,
         r.at = "materialize" => r.phase = "plan", r.at \in {"target", "queue"} => r.todo # {},
         r.todo \subseteq (DOMAIN task) \X Mode
  PROVE  RefInv' /\ req' \in [Procs -> ReqType] /\ artifact' \in Seq(ArtifactType)
<1>1. /\ artifact' \in Seq(ArtifactType) /\ DOMAIN artifact \subseteq DOMAIN artifact'
      /\ \A i \in DOMAIN artifact : artifact'[i] = artifact[i]
  <2>1. CASE artifact' = artifact
    BY <2>1 DEF TypeOK
  <2>2. ASSUME NEW a \in ArtifactType, artifact' = Append(artifact, a)
        PROVE  /\ artifact' \in Seq(ArtifactType) /\ DOMAIN artifact \subseteq DOMAIN artifact'
               /\ \A i \in DOMAIN artifact : artifact'[i] = artifact[i]
    BY <2>2 DEF TypeOK
  <2> QED
    BY <2>1, <2>2
<1>2. req' \in [Procs -> ReqType] /\ req'[p] = r /\ \A q \in Procs \ {p} : req'[q] = req[q]
  BY OneRequest
<1>3. ASSUME NEW q \in Procs \ {p}
      PROVE  /\ req'[q].at \in Deciding => req'[q].by \in {"http", "telegram", "auto"}
             /\ req'[q].at \in {"review", "activate", "materialize"} =>
                  req'[q].art \in DOMAIN artifact' /\ artifact'[req'[q].art].phase = req'[q].phase
             /\ req'[q].at = "materialize" => req'[q].phase = "plan"
             /\ req'[q].at \in {"target", "queue"} => req'[q].todo # {}
             /\ req'[q].todo \subseteq (DOMAIN task') \X Mode
  BY <1>1, <1>2 DEF RefInv
<1>4. RefInv'
  BY <1>2, <1>3 DEF RefInv
<1> QED
  BY <1>1, <1>2, <1>4

\* A finished request.
LEMMA IdleFacts ==
  Idle \in ReqType /\ Idle.at = "none" /\ Idle.todo = {} /\ Idle.op = "none" /\ Idle.by = "none"
  BY DEF Idle, ReqType, At_, Phase, Status, Mode

\* The request of process p becomes r, and the workspace stays what it is.
Keeps(p, r) ==
  /\ req' = [req EXCEPT ![p] = r] /\ r \in ReqType
  /\ UNCHANGED <<scope, goalText>>

\* The statements of a generation.
LEMMA GenerationSteps ==
  ASSUME TypeOK, RefInv, NEW p \in Procs
  PROVE  /\ Persist(p) =>
              \E a \in Generated(req[p].phase) :
                /\ artifact' = Append(artifact, a) /\ a \in ArtifactType /\ a.phase = req[p].phase
                /\ Keeps(p, [req[p] EXCEPT !.at = "review", !.art = Len(artifact) + 1])
         /\ RecordGenerated(p) => Keeps(p, [req[p] EXCEPT !.at = "activate"])
         /\ Activate(p) =>
              \/ req[p].phase = "plan" /\ Keeps(p, [req[p] EXCEPT !.at = "materialize", !.todo = {}])
              \/ req[p].phase # "plan" /\ req[p].op = "auto" /\ Keeps(p, [req[p] EXCEPT !.at = "record", !.yes = TRUE])
              \/ Keeps(p, Idle)
         /\ Materialize(p) =>
              \/ UNCHANGED req /\ UNCHANGED <<scope, goalText>>
              \/ req[p].op = "auto" /\ Keeps(p, [req[p] EXCEPT !.at = "record", !.yes = TRUE])
              \/ Keeps(p, Idle)
<1>0. req[p] \in ReqType /\ Len(artifact) + 1 \in Nat
  BY DEF TypeOK
<1>1. ASSUME Persist(p)
      PROVE  \E a \in Generated(req[p].phase) :
               /\ artifact' = Append(artifact, a) /\ a \in ArtifactType /\ a.phase = req[p].phase
               /\ Keeps(p, [req[p] EXCEPT !.at = "review", !.art = Len(artifact) + 1])
  <2>1. PICK a \in Generated(req[p].phase) : artifact' = Append(artifact, a)
    BY <1>1 DEF Persist
  <2>2. FallbackValid(req[p].phase) \in BOOLEAN /\ GeneratedTasks(req[p].phase) \subseteq Plans \union {<<>>}
    BY DEF FallbackValid, GeneratedTasks, TypeOK, RequirementsFallback
  <2>3. a \in ArtifactType /\ a.phase = req[p].phase
    BY <1>0, <2>2 DEF Generated, ArtifactType, ReqType
  <2>4. [req[p] EXCEPT !.at = "review", !.art = Len(artifact) + 1] \in ReqType
    BY <1>0 DEF ReqType, At_
  <2>5. Keeps(p, [req[p] EXCEPT !.at = "review", !.art = Len(artifact) + 1])
    BY <1>1, <2>4 DEF Persist, Keeps, TypeOK
  <2> QED
    BY <2>1, <2>3, <2>5
<1>2. ASSUME RecordGenerated(p) PROVE Keeps(p, [req[p] EXCEPT !.at = "activate"])
  <2>1. [req[p] EXCEPT !.at = "activate"] \in ReqType
    BY <1>0 DEF ReqType, At_
  <2> QED
    BY <1>2, <2>1 DEF RecordGenerated, Goto, Keeps, TypeOK
<1>r. [req[p] EXCEPT !.at = "record", !.yes = TRUE] \in ReqType
  BY <1>0 DEF ReqType, At_
<1>3. ASSUME Activate(p)
      PROVE  \/ req[p].phase = "plan" /\ Keeps(p, [req[p] EXCEPT !.at = "materialize", !.todo = {}])
             \/ req[p].phase # "plan" /\ req[p].op = "auto" /\ Keeps(p, [req[p] EXCEPT !.at = "record", !.yes = TRUE])
             \/ Keeps(p, Idle)
  <2>1. [req[p] EXCEPT !.at = "materialize", !.todo = {}] \in ReqType
    BY <1>0 DEF ReqType, At_
  <2>2. CASE req[p].phase = "plan"
    BY <1>3, <2>1, <2>2 DEF Activate, Keeps, TypeOK
  <2>3. CASE req[p].phase # "plan" /\ req[p].op = "auto"
    BY <1>3, <1>r, <2>3 DEF Activate, Keeps, TypeOK
  <2>4. CASE req[p].phase # "plan" /\ req[p].op # "auto"
    BY <1>3, <2>4, IdleFacts DEF Activate, Keeps, TypeOK
  <2> QED
    BY <2>2, <2>3, <2>4
<1>4. ASSUME Materialize(p)
      PROVE  \/ UNCHANGED req /\ UNCHANGED <<scope, goalText>>
             \/ req[p].op = "auto" /\ Keeps(p, [req[p] EXCEPT !.at = "record", !.yes = TRUE])
             \/ Keeps(p, Idle)
  <2>1. \/ UNCHANGED req
        \/ req[p].op = "auto" /\ req' = [req EXCEPT ![p].at = "record", ![p].yes = TRUE]
        \/ req' = [req EXCEPT ![p] = Idle]
    BY <1>4 DEF Materialize, Done
  <2>2. UNCHANGED <<scope, goalText>>
    BY <1>4 DEF Materialize
  <2> QED
    BY <1>r, <2>1, <2>2, IdleFacts DEF Keeps, TypeOK
<1> QED
  BY <1>1, <1>2, <1>3, <1>4

\* The statements of a decision.
LEMMA DecisionSteps ==
  ASSUME TypeOK, NEW p \in Procs
  PROVE  /\ ResolveCheck(p) =>
              \/ Keeps(p, Idle)
              \/ /\ ~(req[p].yes /\ req[p].phase = "plan" /\ task = <<>>)
                 /\ Keeps(p, [req[p] EXCEPT !.at = "record",
                                !.art = IF req[p].by = "http" THEN LatestReviewArtifact(req[p].phase) ELSE @])
         /\ ResolveRecord(p) => Keeps(p, [req[p] EXCEPT !.at = "write"])
         /\ ResolveWrite(p) =>
              \/ Keeps(p, Idle)
              \/ req[p].op = "auto" /\ Keeps(p, [req[p] EXCEPT !.at = "list"])
              \/ req[p].op = "auto" /\ \E next \in Phase : Keeps(p, [req[p] EXCEPT !.at = "generate", !.phase = next])
         /\ LatestReviewArtifact(req[p].phase) \in Nat
<1>0. req[p] \in ReqType
  BY DEF TypeOK
<1>1. LatestReviewArtifact(req[p].phase) \in Nat
  <2> DEFINE with == {i \in DOMAIN review : review[i].phase = req[p].phase /\ review[i].art # 0}
             last == CHOOSE i \in with : \A j \in with : j <= i
  <2>1. CASE with = {}
    BY <2>1 DEF LatestReviewArtifact
  <2>2. CASE with # {}
    <3>1. with \subseteq 1 .. Len(review) /\ Len(review) \in Nat
      BY DEF TypeOK
    <3>2. \E i \in with : \A j \in with : j <= i
      <4> HIDE DEF with
      <4> QED
        BY <2>2, <3>1, LastExists
    <3>3. last \in with
      BY <3>2
    <3>4. review[last] \in ReviewType
      BY <3>1, <3>3 DEF TypeOK
    <3>5. LatestReviewArtifact(req[p].phase) = review[last].art
      BY <2>2 DEF LatestReviewArtifact
    <3> QED
      BY <3>4, <3>5 DEF ReviewType
  <2> QED
    BY <2>1, <2>2
<1>2. ASSUME ResolveCheck(p)
      PROVE  \/ Keeps(p, Idle)
             \/ /\ ~(req[p].yes /\ req[p].phase = "plan" /\ task = <<>>)
                /\ Keeps(p, [req[p] EXCEPT !.at = "record",
                               !.art = IF req[p].by = "http" THEN LatestReviewArtifact(req[p].phase) ELSE @])
  <2> DEFINE r == [req[p] EXCEPT !.at = "record",
                     !.art = IF req[p].by = "http" THEN LatestReviewArtifact(req[p].phase) ELSE @]
  <2>1. r \in ReqType
    BY <1>0, <1>1 DEF ReqType, At_
  <2>2. UNCHANGED <<scope, goalText>>
    BY <1>2 DEF ResolveCheck
  <2>3. CASE req[p].yes /\ req[p].phase = "plan" /\ task = <<>>
    BY <1>2, <2>2, <2>3, IdleFacts DEF ResolveCheck, Keeps
  <2>4. CASE ~(req[p].yes /\ req[p].phase = "plan" /\ task = <<>>)
    <3>1. req' = [req EXCEPT ![p] = r]
      BY <1>2, <2>4 DEF ResolveCheck
    <3> QED
      BY <2>1, <2>2, <2>4, <3>1 DEF Keeps
  <2> QED
    BY <2>3, <2>4
<1>3. ASSUME ResolveRecord(p) PROVE Keeps(p, [req[p] EXCEPT !.at = "write"])
  <2>1. [req[p] EXCEPT !.at = "write"] \in ReqType
    BY <1>0 DEF ReqType, At_
  <2> QED
    BY <1>3, <2>1 DEF ResolveRecord, Goto, Keeps, TypeOK
<1>4. ASSUME ResolveWrite(p)
      PROVE  \/ Keeps(p, Idle)
             \/ req[p].op = "auto" /\ Keeps(p, [req[p] EXCEPT !.at = "list"])
             \/ req[p].op = "auto" /\ \E next \in Phase : Keeps(p, [req[p] EXCEPT !.at = "generate", !.phase = next])
  <2> DEFINE next == IF req[p].yes THEN NextPhase(req[p].phase) ELSE req[p].phase
  <2>1. next \in Phase \union {"execution"}
    BY <1>0 DEF NextPhase, ReqType, Phase
  <2>2. UNCHANGED <<scope, goalText>>
    BY <1>4 DEF ResolveWrite
  <2>3. \/ req' = [req EXCEPT ![p] = Idle]
        \/ req[p].op = "auto" /\ next = "execution" /\ req' = [req EXCEPT ![p] = [req[p] EXCEPT !.at = "list"]]
        \/ req[p].op = "auto" /\ next # "execution" /\ req' = [req EXCEPT ![p] = [req[p] EXCEPT !.at = "generate", !.phase = next]]
    BY <1>4, Zenon DEF ResolveWrite
  <2> HIDE DEF next
  <2>4. [req[p] EXCEPT !.at = "list"] \in ReqType
    BY <1>0 DEF ReqType, At_
  <2>5. next # "execution" => next \in Phase /\ [req[p] EXCEPT !.at = "generate", !.phase = next] \in ReqType
    BY <1>0, <2>1 DEF ReqType, At_
  <2> QED
    BY <2>2, <2>3, <2>4, <2>5, IdleFacts DEF Keeps
<1> QED
  BY <1>1, <1>2, <1>3, <1>4

\* Row t of the tasks becomes x, at the same place of the plan.
Updated(t, x) ==
  /\ t \in DOMAIN task /\ x \in TaskType /\ x.order = task[t].order
  /\ task' = [task EXCEPT ![t] = x]

\* An update leaves the other rows alone.
LEMMA UpdateFacts ==
  ASSUME TypeOK, NEW t, NEW x, Updated(t, x)
  PROVE  /\ task' \in Seq(TaskType) /\ DOMAIN task' = DOMAIN task /\ Len(task') = Len(task) /\ task'[t] = x
         /\ \A u \in DOMAIN task \ {t} : task'[u] = task[u]
         /\ \A u \in DOMAIN task : task'[u].order = task[u].order
  BY DEF Updated, TypeOK

\* The target a mode chooses.
LEMMA TargetFacts ==
  ASSUME TypeOK, NEW t \in DOMAIN task, NEW m \in Mode, AllowsMode(m)
  PROVE  /\ LaunchTarget(t, m) \in Target
         /\ m # "manual" => LaunchTarget(t, m) = scope
         /\ m = "manual" => LaunchTarget(t, m) = task[t].target
<1>1. task[t] \in TaskType /\ scope \in Target
  BY DEF TypeOK
<1> QED
  BY <1>1 DEF LaunchTarget, AllowsMode, TaskType, Target, Mode

\* Whatever the mode, the target is one of the two.
LEMMA TargetIs ==
  ASSUME TypeOK, NEW t \in DOMAIN task, NEW m
  PROVE  LaunchTarget(t, m) \in Target
<1>1. task[t] \in TaskType
  BY DEF TypeOK
<1> QED
  BY <1>1 DEF LaunchTarget, TaskType, Target

\* Request p with its target written: a launch that is not manual queues the task.
Targeted(p, r) ==
  /\ r.op = req[p].op /\ r.by = req[p].by
  /\ \/ r.at \in {"mode", "reconcile"} /\ r.todo \subseteq req[p].todo
     \/ r.at = "queue" /\ r.todo = req[p].todo /\ req[p].mode # "manual"

\* The statements of a launch.
LEMMA LaunchSteps ==
  ASSUME TypeOK, RefInv, NEW p \in Procs
  PROVE  /\ LaunchList(p) =>
              \E S \in SUBSET (DOMAIN task) :
                Keeps(p, [req[p] EXCEPT !.at = "mode", !.todo = {<<t, task[t].mode>> : t \in S}])
         /\ LaunchMode(p) =>
              \/ Keeps(p, Idle) /\ UNCHANGED task
              \/ \E l \in req[p].todo, m \in Mode, x \in TaskType :
                   /\ AllowsMode(m) /\ Updated(l[1], x)
                   /\ x.target = task[l[1]].target /\ x.state = task[l[1]].state
                   /\ Keeps(p, [req[p] EXCEPT !.at = "target", !.mode = m])
         /\ SetTarget(p) /\ req[p].todo # {} =>
              \E l \in req[p].todo, x \in TaskType, r \in ReqType :
                /\ l = NextListed(req[p].todo) /\ Updated(l[1], x)
                /\ x.target = LaunchTarget(l[1], req[p].mode) /\ x.state = task[l[1]].state
                /\ Keeps(p, r) /\ Targeted(p, r)
         /\ LaunchQueue(p) /\ req[p].todo # {} =>
              \/ Keeps(p, Idle) /\ UNCHANGED task
              \/ \E l \in req[p].todo, x \in TaskType :
                   /\ l = NextListed(req[p].todo) /\ Updated(l[1], x)
                   /\ x.target = task[l[1]].target
                   /\ Keeps(p, [req[p] EXCEPT !.at = "mode", !.todo = @ \ {l}])
         /\ LaunchDone(p) => Keeps(p, [req[p] EXCEPT !.at = "reconcile"])
         /\ EnqueueFails(p) /\ req[p].todo # {} =>
              /\ Keeps(p, Idle)
              /\ \E l \in req[p].todo, x \in TaskType :
                   l = NextListed(req[p].todo) /\ Updated(l[1], x) /\ x.target = task[l[1]].target
<1>0. /\ req[p] \in ReqType /\ req[p].todo \subseteq (DOMAIN task) \X Mode
      /\ \A t \in DOMAIN task : task[t] \in TaskType /\ t \in Nat
  BY DEF TypeOK, RefInv
<1>1. ASSUME LaunchList(p)
      PROVE  \E S \in SUBSET (DOMAIN task) :
               Keeps(p, [req[p] EXCEPT !.at = "mode", !.todo = {<<t, task[t].mode>> : t \in S}])
  <2>1. PICK S \in Listed(req[p].by) :
          req' = [req EXCEPT ![p].at = "mode", ![p].todo = {<<t, task[t].mode>> : t \in S}]
    BY <1>1 DEF LaunchList
  <2>2. S \subseteq DOMAIN task
    BY DEF Listed
  <2>3. {<<t, task[t].mode>> : t \in S} \subseteq Nat \X Mode
    BY <1>0, <2>2 DEF TaskType
  <2> DEFINE todo == {<<t, task[t].mode>> : t \in S}
  <2> HIDE DEF todo
  <2>4. [req[p] EXCEPT !.at = "mode", !.todo = todo] \in ReqType
    BY <1>0, <2>3 DEF ReqType, At_, todo
  <2>5. req' = [req EXCEPT ![p] = [req[p] EXCEPT !.at = "mode", !.todo = todo]]
    BY <2>1 DEF TypeOK, todo
  <2>6. Keeps(p, [req[p] EXCEPT !.at = "mode", !.todo = todo])
    BY <1>1, <2>4, <2>5 DEF LaunchList, Keeps
  <2> QED
    BY <2>2, <2>6 DEF todo
<1> DEFINE l == NextListed(req[p].todo)
<1>l. ASSUME req[p].todo # {} PROVE l \in req[p].todo /\ l[1] \in DOMAIN task /\ l[2] \in Mode
  <2>1. l \in req[p].todo
    BY <1>0, <1>l, FirstListed
  <2> HIDE DEF l
  <2> QED
    BY <1>0, <2>1
<1> HIDE DEF l
<1>m. ASSUME req[p].todo # {} PROVE [req[p] EXCEPT !.at = "mode", !.todo = @ \ {l}] \in ReqType
  BY <1>0 DEF ReqType, At_
<1>2. ASSUME LaunchMode(p)
      PROVE  \/ Keeps(p, Idle) /\ UNCHANGED task
             \/ \E m \in Mode, x \in TaskType :
                  /\ AllowsMode(m) /\ Updated(l[1], x)
                  /\ x.target = task[l[1]].target /\ x.state = task[l[1]].state
                  /\ Keeps(p, [req[p] EXCEPT !.at = "target", !.mode = m])
  <2>0. req[p].todo # {} /\ UNCHANGED <<scope, goalText>>
    BY <1>2 DEF LaunchMode
  <2>1. PICK m \in CASE req[p].by = "http" -> Mode [] req[p].by = "telegram" -> {l[2]}
                     [] OTHER -> {NormalizeMode(l[2])} :
          IF AllowsMode(m)
            THEN /\ task' = [task EXCEPT ![l[1]].mode = IF req[p].by = "telegram" THEN @ ELSE m]
                 /\ req' = [req EXCEPT ![p].at = "target", ![p].mode = m]
            ELSE Done(p) /\ UNCHANGED task
    BY <1>2, Zenon DEF LaunchMode, l
  <2>2. m \in Mode
    BY <1>l, <2>0, <2>1 DEF NormalizeMode, Mode
  <2>3. CASE ~AllowsMode(m)
    BY <2>0, <2>1, <2>3, IdleFacts DEF Keeps, Done
  <2>4. CASE AllowsMode(m)
    <3> DEFINE x == [task[l[1]] EXCEPT !.mode = IF req[p].by = "telegram" THEN @ ELSE m]
    <3>1. task[l[1]] \in TaskType /\ l[1] \in DOMAIN task
      BY <1>0, <1>l, <2>0
    <3>2. /\ x \in TaskType /\ x.target = task[l[1]].target /\ x.state = task[l[1]].state
          /\ x.order = task[l[1]].order
      BY <2>2, <3>1 DEF TaskType
    <3>3. task' = [task EXCEPT ![l[1]] = x]
      BY <2>1, <2>4, <3>1 DEF TypeOK
    <3> HIDE DEF x
    <3>4. Updated(l[1], x)
      BY <3>1, <3>2, <3>3 DEF Updated
    <3>5. req' = [req EXCEPT ![p] = [req[p] EXCEPT !.at = "target", !.mode = m]]
      BY <1>0, <2>1, <2>4 DEF TypeOK, ReqType
    <3>6. [req[p] EXCEPT !.at = "target", !.mode = m] \in ReqType
      BY <1>0, <2>2 DEF ReqType, At_
    <3> QED
      BY <2>0, <2>2, <2>4, <3>2, <3>4, <3>5, <3>6 DEF Keeps
  <2> QED
    BY <2>3, <2>4
<1>7. ASSUME SetTarget(p), req[p].todo # {}
      PROVE  \E x \in TaskType, r \in ReqType :
               /\ Updated(l[1], x) /\ x.target = LaunchTarget(l[1], req[p].mode) /\ x.state = task[l[1]].state
               /\ Keeps(p, r) /\ Targeted(p, r)
  <2>0. UNCHANGED <<scope, goalText>> /\ task[l[1]] \in TaskType /\ l[1] \in DOMAIN task
    BY <1>0, <1>7, <1>l DEF SetTarget
  <2> DEFINE x == [task[l[1]] EXCEPT !.target = LaunchTarget(l[1], req[p].mode)]
             queued == [req[p] EXCEPT !.at = "queue", !.mode = "manual"]
             passed == [req[p] EXCEPT !.at = IF req[p].op = "mode" THEN "reconcile" ELSE "mode",
                                      !.mode = "manual", !.todo = @ \ {l}]
             r == IF req[p].op # "mode" /\ req[p].mode # "manual" THEN queued ELSE passed
  <2>1. /\ task' = [task EXCEPT ![l[1]].target = LaunchTarget(l[1], req[p].mode)]
        /\ req' = [req EXCEPT ![p] = r]
    BY <1>7 DEF SetTarget, l
  <2>2. LaunchTarget(l[1], req[p].mode) \in Target
    BY <2>0, TargetIs
  <2>3. /\ x \in TaskType /\ x.target = LaunchTarget(l[1], req[p].mode) /\ x.state = task[l[1]].state
        /\ x.order = task[l[1]].order
    BY <2>0, <2>2 DEF TaskType
  <2>4. task' = [task EXCEPT ![l[1]] = x]
    BY <2>0, <2>1 DEF TypeOK
  <2>5. queued \in ReqType /\ passed \in ReqType
    BY <1>0 DEF ReqType, At_, Mode
  <2>6. /\ queued.op = req[p].op /\ queued.by = req[p].by /\ queued.at = "queue" /\ queued.todo = req[p].todo
        /\ passed.op = req[p].op /\ passed.by = req[p].by /\ passed.at \in {"mode", "reconcile"}
        /\ passed.todo \subseteq req[p].todo
    BY <1>0 DEF ReqType
  <2> HIDE DEF x, queued, passed
  <2>7. Updated(l[1], x)
    BY <2>0, <2>3, <2>4 DEF Updated
  <2>8. Keeps(p, r) /\ Targeted(p, r)
    BY <2>0, <2>1, <2>5, <2>6 DEF Keeps, Targeted
  <2> QED
    BY <2>3, <2>5, <2>7, <2>8
<1>3. ASSUME LaunchQueue(p), req[p].todo # {}
      PROVE  \/ Keeps(p, Idle) /\ UNCHANGED task
             \/ \E x \in TaskType :
                  /\ Updated(l[1], x) /\ x.target = task[l[1]].target
                  /\ Keeps(p, [req[p] EXCEPT !.at = "mode", !.todo = @ \ {l}])
  <2>0. UNCHANGED <<scope, goalText>> /\ task[l[1]] \in TaskType /\ l[1] \in DOMAIN task
    BY <1>0, <1>3, <1>l DEF LaunchQueue
  <2>1. CASE task[l[1]].state \notin LaunchableFrom
    BY <1>3, <2>0, <2>1, IdleFacts DEF LaunchQueue, Keeps, Done, l
  <2>2. CASE task[l[1]].state \in LaunchableFrom
    <3> DEFINE x == [task[l[1]] EXCEPT !.state = "queued", !.token = (task[l[1]].target = "remote")]
    <3>1. x \in TaskType /\ x.target = task[l[1]].target /\ x.order = task[l[1]].order
      BY <2>0 DEF TaskType, TaskState
    <3>2. /\ task' = [task EXCEPT ![l[1]].state = "queued", ![l[1]].token = (task[l[1]].target = "remote")]
          /\ req' = [req EXCEPT ![p].at = "mode", ![p].todo = @ \ {l}]
      BY <1>3, <2>2 DEF LaunchQueue, l
    <3>3. task' = [task EXCEPT ![l[1]] = x]
      BY <2>0, <3>2 DEF TypeOK
    <3>4. req' = [req EXCEPT ![p] = [req[p] EXCEPT !.at = "mode", !.todo = @ \ {l}]]
      BY <3>2 DEF TypeOK
    <3> HIDE DEF x
    <3>5. Updated(l[1], x)
      BY <2>0, <3>1, <3>3 DEF Updated
    <3> QED
      BY <1>3, <1>m, <2>0, <3>1, <3>4, <3>5 DEF Keeps
  <2> QED
    BY <2>1, <2>2
<1>4. ASSUME LaunchDone(p) PROVE Keeps(p, [req[p] EXCEPT !.at = "reconcile"])
  <2>1. [req[p] EXCEPT !.at = "reconcile"] \in ReqType
    BY <1>0 DEF ReqType, At_
  <2> QED
    BY <1>4, <2>1 DEF LaunchDone, Goto, Keeps, TypeOK
<1>5. ASSUME EnqueueFails(p), req[p].todo # {}
      PROVE  Keeps(p, Idle) /\ \E x \in TaskType : Updated(l[1], x) /\ x.target = task[l[1]].target
  <2>0. /\ UNCHANGED <<scope, goalText>> /\ task[l[1]] \in TaskType /\ l[1] \in DOMAIN task
        /\ req' = [req EXCEPT ![p] = Idle]
        /\ task' = [task EXCEPT ![l[1]].state = "queued", ![l[1]].token = FALSE]
    BY <1>0, <1>5, <1>l DEF EnqueueFails, Done, l
  <2> DEFINE x == [task[l[1]] EXCEPT !.state = "queued", !.token = FALSE]
  <2>1. x \in TaskType /\ x.target = task[l[1]].target /\ x.order = task[l[1]].order
    BY <2>0 DEF TaskType, TaskState
  <2>2. task' = [task EXCEPT ![l[1]] = x]
    BY <2>0 DEF TypeOK
  <2> HIDE DEF x
  <2>3. Updated(l[1], x)
    BY <2>0, <2>1, <2>2 DEF Updated
  <2> QED
    BY <2>0, <2>1, <2>3, IdleFacts DEF Keeps
<1>6. LaunchMode(p) => req[p].todo # {}
  BY DEF LaunchMode
<1> QED
  <2>1. req[p].todo # {} => l \in req[p].todo
    BY <1>l
  <2> QED
    BY <1>1, <1>2, <1>3, <1>4, <1>5, <1>6, <1>7, <2>1 DEF l

\* The statements of a reconciliation, and a failure.
LEMMA ReconcileSteps ==
  ASSUME TypeOK, NEW p \in Procs
  PROVE  /\ ReconcileRead(p) =>
              \/ Keeps(p, Idle)
              \/ task # <<>> /\ Keeps(p, [req[p] EXCEPT !.at = "derived", !.derived = DeriveStatus])
         /\ ReconcileWrite(p) \/ Fail(p) => Keeps(p, Idle)
<1>0. req[p] \in ReqType
  BY DEF TypeOK
<1>1. [req[p] EXCEPT !.at = "derived", !.derived = DeriveStatus] \in ReqType
  BY <1>0, DerivedStatus DEF ReqType, At_
<1>2. ASSUME ReconcileRead(p)
      PROVE  \/ Keeps(p, Idle)
             \/ task # <<>> /\ Keeps(p, [req[p] EXCEPT !.at = "derived", !.derived = DeriveStatus])
  <2>1. CASE task = <<>>
    BY <1>2, <2>1, IdleFacts DEF ReconcileRead, Done, Keeps
  <2>2. CASE task # <<>>
    BY <1>1, <1>2, <2>2 DEF ReconcileRead, Keeps, TypeOK
  <2> QED
    BY <2>1, <2>2
<1>3. ASSUME ReconcileWrite(p) \/ Fail(p) PROVE Keeps(p, Idle)
  BY <1>3, IdleFacts DEF ReconcileWrite, Fail, Done, Keeps
<1> QED
  BY <1>2, <1>3

\* A request begins.
LEMMA BeginSteps ==
  ASSUME TypeOK, NEW p \in Requests
  PROVE  /\ Advance(p) \/ GenerateTasks(p) =>
              \E r : /\ Keeps(p, r) /\ r.at = "generate" /\ r.todo = {} /\ r.op = "advance" /\ r.by = "http"
                     /\ UNCHANGED <<item, artifact, review, task>>
         /\ UpdateTaskMode(p) =>
              \E r : /\ Keeps(p, r) /\ r.at = "target" /\ r.op = "mode" /\ r.by = "http"
                     /\ r.todo # {} /\ r.todo \subseteq (DOMAIN task) \X Mode /\ AllowsMode(r.mode)
                     /\ \E t \in DOMAIN task, x \in TaskType :
                          Updated(t, x) /\ x.state = task[t].state /\ x.target = task[t].target
                     /\ UNCHANGED <<item, artifact, review>>
         /\ \A by \in {"http", "telegram"} :
              /\ Launch(p, by) =>
                   \E r : /\ Keeps(p, r) /\ r.at = "list" /\ r.todo = {} /\ r.op = "launch" /\ r.by = by
                          /\ UNCHANGED <<item, artifact, review, task>>
              /\ Cancel(p, by) =>
                   \E r : /\ Keeps(p, r) /\ r.at \in {"none", "reconcile"} /\ r.todo = {} /\ r.op # "auto" /\ r.by # "auto"
                          /\ \E t \in DOMAIN task, x \in TaskType :
                               Updated(t, x) /\ x.state = "cancelled" /\ x.target = task[t].target
                          /\ UNCHANGED <<item, artifact, review>>
              /\ \A phase \in Phase, yes \in BOOLEAN :
                   Resolve(p, phase, yes, by) =>
                     \E r : /\ Keeps(p, r) /\ r.at = "check" /\ r.todo = {} /\ r.op = "resolve" /\ r.by = by
                            /\ r.phase = phase /\ r.art = item.active[phase] /\ r.art # 0
                            /\ UNCHANGED <<item, artifact, review, task>>
<1>0. Idle \in ReqType /\ item \in ItemType /\ \A t \in DOMAIN task : task[t] \in TaskType
  BY IdleFacts DEF TypeOK
<1>1. ASSUME Advance(p) \/ GenerateTasks(p)
      PROVE  \E r : /\ Keeps(p, r) /\ r.at = "generate" /\ r.todo = {} /\ r.op = "advance" /\ r.by = "http"
                    /\ UNCHANGED <<item, artifact, review, task>>
  <2> DEFINE r == [Idle EXCEPT !.op = "advance", !.at = "generate", !.by = "http", !.phase = item.phase]
  <2>1. item.phase \in Phase
    BY <1>1 DEF Advance, GenerateTasks, Phase
  <2>2. r \in ReqType /\ r.at = "generate" /\ r.todo = {} /\ r.op = "advance" /\ r.by = "http"
    BY <2>1 DEF Idle, ReqType, At_, Status, Mode
  <2>3. req' = [req EXCEPT ![p] = r] /\ UNCHANGED <<scope, goalText, item, artifact, review, task>>
    BY <1>1 DEF Advance, GenerateTasks, Generate, Begin
  <2> HIDE DEF r
  <2> QED
    BY <2>2, <2>3 DEF Keeps
<1>2. ASSUME UpdateTaskMode(p)
      PROVE  \E r : /\ Keeps(p, r) /\ r.at = "target" /\ r.op = "mode" /\ r.by = "http"
                    /\ r.todo # {} /\ r.todo \subseteq (DOMAIN task) \X Mode /\ AllowsMode(r.mode)
                    /\ \E t \in DOMAIN task, x \in TaskType :
                         Updated(t, x) /\ x.state = task[t].state /\ x.target = task[t].target
                    /\ UNCHANGED <<item, artifact, review>>
  <2>1. PICK t \in DOMAIN task, m \in Mode :
          /\ AllowsMode(m) /\ task' = [task EXCEPT ![t].mode = m]
          /\ Begin(p, [Idle EXCEPT !.op = "mode", !.at = "target", !.by = "http", !.todo = {<<t, m>>}, !.mode = m])
    BY <1>2 DEF UpdateTaskMode
  <2> DEFINE r == [Idle EXCEPT !.op = "mode", !.at = "target", !.by = "http", !.todo = {<<t, m>>}, !.mode = m]
             x == [task[t] EXCEPT !.mode = m]
  <2>0. t \in Nat /\ {<<t, m>>} \in SUBSET (Nat \X Mode)
    BY DEF TypeOK
  <2>9. ASSUME NEW S \in SUBSET (Nat \X Mode)
        PROVE  LET q == [Idle EXCEPT !.op = "mode", !.at = "target", !.by = "http", !.todo = S, !.mode = m]
               IN  /\ q \in ReqType /\ q.at = "target" /\ q.op = "mode" /\ q.by = "http"
                   /\ q.todo = S /\ q.mode = m
    BY DEF Idle, ReqType, At_, Status, Phase
  <2>2. /\ r \in ReqType /\ r.at = "target" /\ r.op = "mode" /\ r.by = "http"
        /\ r.todo = {<<t, m>>} /\ r.mode = m
    BY <2>0, <2>9
  <2>3. req' = [req EXCEPT ![p] = r] /\ UNCHANGED <<scope, goalText, item, artifact, review>>
    BY <1>2, <2>1 DEF UpdateTaskMode, Begin
  <2>4. x \in TaskType /\ x.state = task[t].state /\ x.order = task[t].order /\ x.target = task[t].target
    BY <1>0 DEF TaskType
  <2>5. task' = [task EXCEPT ![t] = x]
    BY <2>1 DEF TypeOK
  <2> HIDE DEF x, r
  <2>6. Updated(t, x)
    BY <2>4, <2>5 DEF Updated
  <2>7. Keeps(p, r)
    BY <2>2, <2>3 DEF Keeps
  <2>8. r.todo # {} /\ r.todo \subseteq (DOMAIN task) \X Mode /\ AllowsMode(r.mode)
    BY <2>1, <2>2
  <2> QED
    BY <2>2, <2>3, <2>4, <2>6, <2>7, <2>8
<1>3. ASSUME NEW by \in {"http", "telegram"}, Launch(p, by)
      PROVE  \E r : /\ Keeps(p, r) /\ r.at = "list" /\ r.todo = {} /\ r.op = "launch" /\ r.by = by
                    /\ UNCHANGED <<item, artifact, review, task>>
  <2> DEFINE r == [Idle EXCEPT !.op = "launch", !.at = "list", !.by = by]
  <2>1. r \in ReqType /\ r.at = "list" /\ r.todo = {} /\ r.op = "launch" /\ r.by = by
    BY DEF Idle, ReqType, At_, Status, Phase, Mode
  <2>2. req' = [req EXCEPT ![p] = r] /\ UNCHANGED <<scope, goalText, item, artifact, review, task>>
    BY <1>3 DEF Launch, Begin
  <2> HIDE DEF r
  <2> QED
    BY <2>1, <2>2 DEF Keeps
<1>4. ASSUME NEW by \in {"http", "telegram"}, Cancel(p, by)
      PROVE  \E r : /\ Keeps(p, r) /\ r.at \in {"none", "reconcile"} /\ r.todo = {} /\ r.op # "auto" /\ r.by # "auto"
                    /\ \E t \in DOMAIN task, x \in TaskType :
                         Updated(t, x) /\ x.state = "cancelled" /\ x.target = task[t].target
                    /\ UNCHANGED <<item, artifact, review>>
  <2> DEFINE r == IF by = "telegram" THEN [Idle EXCEPT !.op = "cancel", !.at = "reconcile", !.by = by] ELSE Idle
  <2>1. r \in ReqType /\ r.at \in {"none", "reconcile"} /\ r.todo = {} /\ r.op # "auto" /\ r.by # "auto"
    BY DEF Idle, ReqType, At_, Status, Phase, Mode
  <2>2. req' = [req EXCEPT ![p] = r] /\ UNCHANGED <<scope, goalText, item, artifact, review>>
    BY <1>4 DEF Cancel, Begin
  <2>3. PICK t \in DOMAIN task : task' = [task EXCEPT ![t].state = "cancelled"]
    BY <1>4 DEF Cancel
  <2> DEFINE x == [task[t] EXCEPT !.state = "cancelled"]
  <2>4. x \in TaskType /\ x.state = "cancelled" /\ x.order = task[t].order /\ x.target = task[t].target
    BY <1>0 DEF TaskType, TaskState
  <2>5. task' = [task EXCEPT ![t] = x]
    BY <2>3 DEF TypeOK
  <2> HIDE DEF x, r
  <2>6. Updated(t, x)
    BY <2>4, <2>5 DEF Updated
  <2>7. Keeps(p, r)
    BY <2>1, <2>2 DEF Keeps
  <2> QED
    BY <2>1, <2>2, <2>4, <2>6, <2>7
<1>5. ASSUME NEW by \in {"http", "telegram"}, NEW phase \in Phase, NEW yes \in BOOLEAN, Resolve(p, phase, yes, by)
      PROVE  \E r : /\ Keeps(p, r) /\ r.at = "check" /\ r.todo = {} /\ r.op = "resolve" /\ r.by = by
                    /\ r.phase = phase /\ r.art = item.active[phase] /\ r.art # 0
                    /\ UNCHANGED <<item, artifact, review, task>>
  <2> DEFINE r == [Idle EXCEPT !.op = "resolve", !.at = "check", !.by = by, !.phase = phase, !.yes = yes,
                               !.art = ActiveArtifact(phase)]
  <2>1. ActiveArtifact(phase) \in Nat /\ ActiveArtifact(phase) = item.active[phase]
    BY <1>0 DEF ActiveArtifact, ItemType
  <2>2. ActiveArtifact(phase) # 0
    BY <1>5 DEF Resolve, ValidPayload
  <2>3. r \in ReqType /\ r.at = "check" /\ r.todo = {} /\ r.op = "resolve" /\ r.by = by /\ r.phase = phase /\ r.art = ActiveArtifact(phase)
    BY <2>1 DEF Idle, ReqType, At_, Status, Mode
  <2>4. req' = [req EXCEPT ![p] = r] /\ UNCHANGED <<scope, goalText, item, artifact, review, task>>
    BY <1>5 DEF Resolve, Begin
  <2> HIDE DEF r
  <2>5. Keeps(p, r)
    BY <2>3, <2>4 DEF Keeps
  <2> QED
    BY <2>1, <2>2, <2>3, <2>4, <2>5
<1> QED
  BY <1>1, <1>2, <1>3, <1>4, <1>5

\* Whoever finishes launched tasks.
LEMMA WorkSteps ==
  ASSUME TypeOK, Work
  PROVE  /\ \E r : Keeps(Worker, r) /\ r.at = "reconcile" /\ r.todo = {} /\ r.op = "work" /\ r.by = "worker"
         /\ \E t \in DOMAIN task, x \in TaskType :
              Updated(t, x) /\ task[t].state = "queued" /\ x.target = task[t].target
         /\ UNCHANGED <<item, artifact, review>>
<1> DEFINE r == [Idle EXCEPT !.op = "work", !.at = "reconcile", !.by = "worker"]
<1>1. r \in ReqType /\ r.at = "reconcile" /\ r.todo = {} /\ r.op = "work" /\ r.by = "worker"
  BY DEF Idle, ReqType, At_, Status, Phase, Mode
<1>2. req' = [req EXCEPT ![Worker] = r] /\ UNCHANGED <<scope, goalText, item, artifact, review>>
  BY DEF Work
<1>3. PICK t \in DOMAIN task, s \in {"completed", "failed"} :
        task[t].state = "queued" /\ task' = [task EXCEPT ![t].state = s, ![t].token = FALSE]
  BY DEF Work
<1> DEFINE x == [task[t] EXCEPT !.state = s, !.token = FALSE]
<1>4. task[t] \in TaskType
  BY DEF TypeOK
<1>5. x \in TaskType /\ x.order = task[t].order /\ x.target = task[t].target
  BY <1>4 DEF TaskType, TaskState
<1>6. task' = [task EXCEPT ![t] = x]
  BY <1>3 DEF TypeOK
<1> HIDE DEF x, r
<1>7. Updated(t, x)
  BY <1>5, <1>6 DEF Updated
<1>8. Keeps(Worker, r)
  BY <1>1, <1>2 DEF Keeps
<1> QED
  BY <1>1, <1>2, <1>3, <1>5, <1>7, <1>8

\* The request of one process changes and its references are good.
LEMMA RefKept ==
  ASSUME TypeOK, RefInv, NEW p \in Procs, NEW r, Keeps(p, r), UNCHANGED artifact, DOMAIN task \subseteq DOMAIN task',
         r.at \in {"activate", "materialize"} =>
           req[p].at \in {"review", "activate", "materialize"} /\ r.art = req[p].art /\ r.phase = req[p].phase,
         r.at # "review", r.at = "materialize" => r.phase = "plan", r.at \in {"target", "queue"} => r.todo # {},
         r.at \in Deciding => r.by \in {"http", "telegram"} \/ (req[p].at \in Deciding /\ r.by = req[p].by),
         r.todo \subseteq (DOMAIN task) \X Mode
  PROVE  /\ RefInv' /\ req' \in [Procs -> ReqType] /\ artifact' \in Seq(ArtifactType)
         /\ scope' \in Target /\ goalText' \in BOOLEAN
<1>1. r.at \in {"review", "activate", "materialize"} =>
        r.art \in DOMAIN artifact' /\ artifact'[r.art].phase = r.phase
  BY DEF RefInv
<1>b. r.at \in Deciding => r.by \in {"http", "telegram", "auto"}
  BY DEF RefInv
<1>2. RefInv' /\ req' \in [Procs -> ReqType] /\ artifact' \in Seq(ArtifactType)
  BY <1>1, <1>b, RefStep DEF Keeps
<1> QED
  BY <1>2 DEF Keeps, TypeOK

\* Every statement of every request keeps the types and the references.
LEMMA TypeStep == TypeOK /\ RefInv /\ [Next]_vars => TypeOK' /\ RefInv'
<1> SUFFICES ASSUME TypeOK, RefInv, [Next]_vars PROVE TypeOK' /\ RefInv'
  OBVIOUS
<1> DEFINE Rest == /\ item' \in ItemType /\ review' \in Seq(ReviewType) /\ task' \in Seq(TaskType)
                   /\ budget' \in Nat /\ faults' \in Nat
           Ref == /\ RefInv' /\ req' \in [Procs -> ReqType] /\ artifact' \in Seq(ArtifactType)
                  /\ scope' \in Target /\ goalText' \in BOOLEAN
<1>0. ASSUME Rest, Ref PROVE TypeOK' /\ RefInv'
  BY <1>0 DEF TypeOK
<1>b. /\ \A p \in Procs : \A r : Begin(p, r) => budget' \in Nat
      /\ Requests \subseteq Procs /\ Worker \in Procs
  BY DEF Begin, TypeOK, Procs
<1>c. /\ \A p \in Procs : req[p] \in ReqType /\ req[p].todo \subseteq (DOMAIN task) \X Mode
      /\ item \in ItemType
  BY DEF TypeOK, RefInv
<1>1. CASE UNCHANGED vars
  BY <1>1 DEF vars, TypeOK, RefInv
<1>2. ASSUME NEW p \in Requests, Advance(p) \/ GenerateTasks(p) PROVE TypeOK' /\ RefInv'
  <2>1. PICK r : Keeps(p, r) /\ r.at = "generate" /\ r.todo = {} /\ r.by = "http" /\ UNCHANGED <<item, artifact, review, task>>
    BY <1>2, BeginSteps
  <2>2. Ref
    BY <1>b, <2>1, RefKept DEF Deciding
  <2>3. Rest
    BY <1>2, <1>b, <2>1 DEF Advance, GenerateTasks, Generate, TypeOK
  <2> QED
    BY <1>0, <2>2, <2>3
<1>3. ASSUME NEW p \in Requests, UpdateTaskMode(p) PROVE TypeOK' /\ RefInv'
  <2>1. PICK r : /\ Keeps(p, r) /\ r.at = "target" /\ UNCHANGED <<item, artifact, review>>
                 /\ r.todo # {} /\ r.todo \subseteq (DOMAIN task) \X Mode
                 /\ \E t \in DOMAIN task, x \in TaskType : Updated(t, x)
    BY <1>3, BeginSteps
  <2>2. task' \in Seq(TaskType) /\ DOMAIN task' = DOMAIN task
    BY <2>1, UpdateFacts
  <2>3. Ref
    BY <1>b, <2>1, <2>2, RefKept DEF Deciding
  <2>4. Rest
    BY <1>3, <1>b, <2>1, <2>2 DEF UpdateTaskMode, TypeOK
  <2> QED
    BY <1>0, <2>3, <2>4
<1>4. ASSUME NEW p \in Requests, NEW by \in {"http", "telegram"}, Launch(p, by) PROVE TypeOK' /\ RefInv'
  <2>1. PICK r : Keeps(p, r) /\ r.at = "list" /\ r.todo = {} /\ UNCHANGED <<item, artifact, review, task>>
    BY <1>4, BeginSteps
  <2>2. Ref
    BY <1>b, <2>1, RefKept DEF Deciding
  <2>3. Rest
    BY <1>4, <1>b, <2>1 DEF Launch, TypeOK
  <2> QED
    BY <1>0, <2>2, <2>3
<1>5. ASSUME NEW p \in Requests, NEW by \in {"http", "telegram"}, Cancel(p, by) PROVE TypeOK' /\ RefInv'
  <2>1. PICK r : /\ Keeps(p, r) /\ r.at \in {"none", "reconcile"} /\ r.todo = {} /\ UNCHANGED <<item, artifact, review>>
                 /\ \E t \in DOMAIN task, x \in TaskType : Updated(t, x)
    BY <1>5, BeginSteps
  <2>2. task' \in Seq(TaskType) /\ DOMAIN task' = DOMAIN task
    BY <2>1, UpdateFacts
  <2>3. Ref
    BY <1>b, <2>1, <2>2, RefKept DEF Deciding
  <2>4. Rest
    BY <1>5, <1>b, <2>1, <2>2 DEF Cancel, TypeOK
  <2> QED
    BY <1>0, <2>3, <2>4
<1>6. ASSUME NEW p \in Requests, NEW by \in {"http", "telegram"}, NEW phase \in Phase, NEW yes \in BOOLEAN,
             Resolve(p, phase, yes, by)
      PROVE  TypeOK' /\ RefInv'
  <2>1. PICK r : Keeps(p, r) /\ r.at = "check" /\ r.todo = {} /\ r.by = by /\ UNCHANGED <<item, artifact, review, task>>
    BY <1>6, BeginSteps
  <2>2. Ref
    BY <1>b, <2>1, RefKept DEF Deciding
  <2>3. Rest
    BY <1>6, <1>b, <2>1 DEF Resolve, TypeOK
  <2> QED
    BY <1>0, <2>2, <2>3
<1>7. CASE Work
  <2>1. PICK r : /\ Keeps(Worker, r) /\ r.at = "reconcile" /\ r.todo = {} /\ UNCHANGED <<item, artifact, review>>
                 /\ \E t \in DOMAIN task, x \in TaskType : Updated(t, x)
    BY <1>7, WorkSteps
  <2>2. task' \in Seq(TaskType) /\ DOMAIN task' = DOMAIN task
    BY <2>1, UpdateFacts
  <2>3. Ref
    BY <1>b, <2>1, <2>2, RefKept DEF Deciding
  <2>4. Rest
    BY <1>7, <2>1, <2>2 DEF Work, TypeOK
  <2> QED
    BY <1>0, <2>3, <2>4
<1>8. ASSUME NEW p \in Procs, Persist(p) PROVE TypeOK' /\ RefInv'
  <2> DEFINE r == [req[p] EXCEPT !.at = "review", !.art = Len(artifact) + 1]
  <2>1. PICK a \in Generated(req[p].phase) :
          artifact' = Append(artifact, a) /\ a \in ArtifactType /\ a.phase = req[p].phase /\ Keeps(p, r)
    BY <1>8, GenerationSteps
  <2>2. r.at = "review" /\ r.art = Len(artifact) + 1 /\ r.phase = req[p].phase /\ r.todo = req[p].todo /\ r.by = req[p].by
    BY <1>c DEF ReqType
  <2>b. req[p].by \in {"http", "telegram", "auto"}
    BY <1>8 DEF Persist, At, RefInv, Deciding
  <2>3. Len(artifact) + 1 \in DOMAIN artifact' /\ artifact'[Len(artifact) + 1] = a
    BY <2>1 DEF TypeOK
  <2>4. UNCHANGED <<scope, goalText, item, review, task, budget, faults>>
    BY <1>8 DEF Persist
  <2> HIDE DEF r
  <2>5. RefInv' /\ req' \in [Procs -> ReqType] /\ artifact' \in Seq(ArtifactType)
    BY <1>c, <2>1, <2>2, <2>3, <2>4, <2>b, RefStep DEF Keeps
  <2> QED
    BY <2>4, <2>5 DEF TypeOK
<1>9. ASSUME NEW p \in Procs, RecordGenerated(p) PROVE TypeOK' /\ RefInv'
  <2> DEFINE r == [req[p] EXCEPT !.at = "activate"]
             row == [phase |-> req[p].phase, decision |-> "generated", art |-> req[p].art, by |-> "service"]
  <2>1. Keeps(p, r) /\ req[p].at = "review" /\ UNCHANGED <<item, artifact, task, budget, faults>> /\ review' = Append(review, row)
    BY <1>9, GenerationSteps DEF RecordGenerated, At
  <2>2. r.at = "activate" /\ r.art = req[p].art /\ r.phase = req[p].phase /\ r.todo = req[p].todo /\ r.by = req[p].by
    BY <1>c DEF ReqType
  <2>3. row \in ReviewType
    BY <1>c DEF ReqType, ReviewType
  <2> HIDE DEF r, row
  <2>4. Ref
    BY <1>c, <2>1, <2>2, RefKept DEF Deciding
  <2>5. Rest
    BY <2>1, <2>3 DEF TypeOK
  <2> QED
    BY <1>0, <2>4, <2>5
<1>10. ASSUME NEW p \in Procs, Activate(p) PROVE TypeOK' /\ RefInv'
  <2>1. UNCHANGED <<artifact, review, task, budget, faults>> /\ req[p].at = "activate"
    BY <1>10 DEF Activate, At
  <2>2. item' \in ItemType
    <3>1. [item.active EXCEPT ![req[p].phase] = req[p].art] \in [Phase -> Nat]
      BY <1>c DEF ItemType, ReqType
    <3>2. ReviewStatus(req[p].phase) \in Status
      BY DEF ReviewStatus, Status
    <3> QED
      BY <1>10, <1>c, <3>1, <3>2 DEF Activate, ItemType, ReqType
  <2>3. CASE req[p].phase = "plan" /\ Keeps(p, [req[p] EXCEPT !.at = "materialize", !.todo = {}])
    <3> DEFINE r == [req[p] EXCEPT !.at = "materialize", !.todo = {}]
    <3>1. r.at = "materialize" /\ r.art = req[p].art /\ r.phase = req[p].phase /\ r.todo = {} /\ r.by = req[p].by /\ Keeps(p, r)
      BY <1>c, <2>3 DEF ReqType
    <3> HIDE DEF r
    <3>2. Ref
      BY <2>1, <2>3, <3>1, RefKept DEF Deciding
    <3> QED
      BY <1>0, <2>1, <2>2, <3>2 DEF TypeOK
  <2>4. CASE Keeps(p, [req[p] EXCEPT !.at = "record", !.yes = TRUE])
    <3> DEFINE r == [req[p] EXCEPT !.at = "record", !.yes = TRUE]
    <3>1. r.at = "record" /\ r.todo = req[p].todo /\ r.by = req[p].by /\ Keeps(p, r)
      BY <1>c, <2>4 DEF ReqType
    <3> HIDE DEF r
    <3>2. Ref
      BY <1>c, <2>1, <3>1, RefKept DEF Deciding
    <3> QED
      BY <1>0, <2>1, <2>2, <3>2 DEF TypeOK
  <2>5. CASE Keeps(p, Idle)
    <3>1. Ref
      BY <2>1, <2>5, IdleFacts, RefKept DEF Deciding
    <3> QED
      BY <1>0, <2>1, <2>2, <3>1 DEF TypeOK
  <2> QED
    BY <1>10, <2>3, <2>4, <2>5, GenerationSteps
<1>11. ASSUME NEW p \in Procs, Materialize(p) PROVE TypeOK' /\ RefInv'
  <2>1. UNCHANGED <<scope, goalText, item, artifact, review, budget, faults>> /\ req[p].at = "materialize"
    BY <1>11 DEF Materialize, At
  <2> DEFINE spec == artifact[req[p].art].tasks
             i == Cardinality({t \in DOMAIN task : task[t].plan = req[p].art}) + 1
  <2>2. task' = task \/ (i <= Len(spec) /\ task' = Append(task, NewTask(req[p].art, i, spec[i])))
    BY <1>11 DEF Materialize
  <2>3. i \in Nat /\ i >= 1
    <3>1. IsFiniteSet(DOMAIN task)
      BY FS_Interval DEF TypeOK
    <3>2. IsFiniteSet({t \in DOMAIN task : task[t].plan = req[p].art})
      BY <3>1, FS_Subset
    <3>3. Cardinality({t \in DOMAIN task : task[t].plan = req[p].art}) \in Nat
      BY <3>2, FS_CardinalityType
    <3> QED
      BY <3>3
  <2> HIDE DEF i
  <2>4. task' \in Seq(TaskType) /\ DOMAIN task \subseteq DOMAIN task'
    <3>1. CASE task' = task
      BY <3>1 DEF TypeOK
    <3>2. CASE i <= Len(spec) /\ task' = Append(task, NewTask(req[p].art, i, spec[i]))
      <4> DEFINE Line == [mode : Mode, target : Target]
      <4>1. artifact[req[p].art] \in ArtifactType
        BY <2>1 DEF RefInv, TypeOK
      <4>2. spec \in Plans \union {<<>>}
        BY <4>1 DEF ArtifactType
      <4>3. spec \in Seq(Line)
        <5>1. Plans \subseteq Seq(Line)
          BY InitiativeAssumption
        <5>2. <<>> \in Seq(Line)
          OBVIOUS
        <5> QED
          BY <4>2, <5>1, <5>2
      <4>4. spec[i] \in Line
        <5> HIDE DEF Line, spec
        <5> QED
          BY <2>3, <3>2, <4>3
      <4>5. NewTask(req[p].art, i, spec[i]) \in TaskType
        BY <1>c, <2>3, <4>4 DEF NewTask, TaskType, TaskState, ReqType
      <4> HIDE DEF Line, spec
      <4> QED
        BY <3>2, <4>5 DEF TypeOK
    <3> QED
      BY <2>2, <3>1, <3>2
  <2>5. CASE UNCHANGED req
    <3>1. RefInv'
      BY <2>1, <2>4, <2>5 DEF RefInv
    <3> QED
      BY <2>1, <2>4, <2>5, <3>1 DEF TypeOK
  <2>6. CASE Keeps(p, [req[p] EXCEPT !.at = "record", !.yes = TRUE])
    <3> DEFINE r == [req[p] EXCEPT !.at = "record", !.yes = TRUE]
    <3>1. r.at = "record" /\ r.todo = req[p].todo /\ r.by = req[p].by /\ Keeps(p, r)
      BY <1>c, <2>6 DEF ReqType
    <3> HIDE DEF r
    <3>2. Ref
      BY <1>c, <2>1, <2>4, <3>1, RefKept DEF Deciding
    <3> QED
      BY <1>0, <2>1, <2>4, <3>2 DEF TypeOK
  <2>7. CASE Keeps(p, Idle)
    <3>1. Ref
      BY <2>1, <2>4, <2>7, IdleFacts, RefKept DEF Deciding
    <3> QED
      BY <1>0, <2>1, <2>4, <3>1 DEF TypeOK
  <2> QED
    BY <1>11, <2>5, <2>6, <2>7, GenerationSteps
\* A step that leaves the rows alone and goes on with the request or ends it.
<1>k. ASSUME NEW p \in Procs, NEW r, Keeps(p, r), UNCHANGED <<artifact, item, review, budget>>,
             task' \in Seq(TaskType), DOMAIN task' = DOMAIN task, faults' \in Nat,
             r.at \notin {"review", "activate", "materialize"}, r.at \in {"target", "queue"} => r.todo # {},
             r.at \in Deciding => req[p].at \in Deciding /\ r.by = req[p].by,
             r.todo \subseteq (DOMAIN task) \X Mode
      PROVE  TypeOK' /\ RefInv'
  <2>1. Ref
    BY <1>k, RefKept
  <2> QED
    BY <1>0, <1>k, <2>1 DEF TypeOK
<1>t. task \in Seq(TaskType) /\ faults \in Nat
  BY DEF TypeOK
<1>12. ASSUME NEW p \in Procs, ResolveCheck(p) PROVE TypeOK' /\ RefInv'
  <2>1. UNCHANGED <<artifact, item, review, task, budget, faults>>
    BY <1>12 DEF ResolveCheck
  <2>2. CASE Keeps(p, Idle)
    BY <1>k, <1>t, <2>1, <2>2, IdleFacts DEF Deciding
  <2>3. CASE ~Keeps(p, Idle)
    <3> DEFINE r == [req[p] EXCEPT !.at = "record",
                       !.art = IF req[p].by = "http" THEN LatestReviewArtifact(req[p].phase) ELSE @]
    <3>1. Keeps(p, r)
      BY <1>12, <2>3, DecisionSteps
    <3>2. r.at = "record" /\ r.todo = req[p].todo /\ r.by = req[p].by /\ req[p].at \in Deciding
      BY <1>12, <1>c DEF ReqType, ResolveCheck, At, Deciding
    <3> HIDE DEF r
    <3> QED
      BY <1>c, <1>k, <1>t, <2>1, <3>1, <3>2
  <2> QED
    BY <2>2, <2>3
<1>13. ASSUME NEW p \in Procs, ResolveRecord(p) PROVE TypeOK' /\ RefInv'
  <2> DEFINE r == [req[p] EXCEPT !.at = "write"]
             row == [phase |-> req[p].phase, decision |-> IF req[p].yes THEN "approved" ELSE "rejected",
                     art |-> IF req[p].op = "auto" THEN 0 ELSE req[p].art, by |-> req[p].by]
  <2>1. Keeps(p, r) /\ UNCHANGED <<artifact, item, task, budget, faults>> /\ review' = Append(review, row)
    BY <1>13, DecisionSteps DEF ResolveRecord
  <2>2. r.at = "write" /\ r.todo = req[p].todo /\ r.by = req[p].by /\ req[p].at = "record"
    BY <1>13, <1>c DEF ReqType, ResolveRecord, At
  <2>3. row \in ReviewType
    <3>1. req[p].by \in {"http", "telegram", "auto"}
      BY <2>2 DEF RefInv, Deciding
    <3> QED
      BY <1>c, <3>1 DEF ReqType, ReviewType
  <2> HIDE DEF r, row
  <2>4. Ref
    BY <1>c, <2>1, <2>2, RefKept DEF Deciding
  <2>5. Rest
    BY <2>1, <2>3 DEF TypeOK
  <2> QED
    BY <1>0, <2>4, <2>5
<1>14. ASSUME NEW p \in Procs, ResolveWrite(p) PROVE TypeOK' /\ RefInv'
  <2>1. UNCHANGED <<artifact, review, task, budget, faults>> /\ req[p].at = "write"
    BY <1>14 DEF ResolveWrite, At
  <2>2. item' \in ItemType
    <3> DEFINE next == IF req[p].yes THEN NextPhase(req[p].phase) ELSE req[p].phase
    <3>1. next \in Phase \union {"execution"} /\ DraftStatus(next) \in Status
      BY <1>c DEF NextPhase, DraftStatus, ReqType, Phase, Status
    <3>2. item' = [item EXCEPT !.phase = next, !.status = DraftStatus(next)]
      BY <1>14 DEF ResolveWrite
    <3> HIDE DEF next
    <3> QED
      BY <1>c, <3>1, <3>2 DEF ItemType
  <2>3. ASSUME NEW r, Keeps(p, r), r.at \in {"none", "list", "generate"}, r.todo \subseteq (DOMAIN task) \X Mode,
               r.at = "generate" => r.by = req[p].by
        PROVE  TypeOK' /\ RefInv'
    <3>1. Ref
      BY <2>1, <2>3, RefKept DEF Deciding
    <3> QED
      BY <1>0, <2>1, <2>2, <3>1 DEF TypeOK
  <2>4. CASE Keeps(p, Idle)
    BY <2>3, <2>4, IdleFacts
  <2>5. CASE Keeps(p, [req[p] EXCEPT !.at = "list"])
    <3>1. [req[p] EXCEPT !.at = "list"].at = "list" /\ [req[p] EXCEPT !.at = "list"].todo = req[p].todo
      BY <1>c DEF ReqType
    <3> QED
      BY <1>c, <2>3, <2>5, <3>1
  <2>6. ASSUME NEW next \in Phase, Keeps(p, [req[p] EXCEPT !.at = "generate", !.phase = next]) PROVE TypeOK' /\ RefInv'
    <3> DEFINE r == [req[p] EXCEPT !.at = "generate", !.phase = next]
    <3>1. r.at = "generate" /\ r.todo = req[p].todo /\ r.by = req[p].by
      BY <1>c DEF ReqType
    <3>2. Keeps(p, r)
      BY <2>6
    <3> HIDE DEF r
    <3> QED
      BY <1>c, <2>3, <3>1, <3>2
  <2> QED
    BY <1>14, <2>4, <2>5, <2>6, DecisionSteps
<1>15. ASSUME NEW p \in Procs, LaunchList(p) PROVE TypeOK' /\ RefInv'
  <2>1. UNCHANGED <<artifact, item, review, task, budget, faults>>
    BY <1>15 DEF LaunchList
  <2>2. PICK S \in SUBSET (DOMAIN task) :
          Keeps(p, [req[p] EXCEPT !.at = "mode", !.todo = {<<t, task[t].mode>> : t \in S}])
    BY <1>15, LaunchSteps
  <2> DEFINE todo == {<<t, task[t].mode>> : t \in S}
             r == [req[p] EXCEPT !.at = "mode", !.todo = todo]
  <2>3. todo \subseteq (DOMAIN task) \X Mode
    <3>1. \A t \in DOMAIN task : task[t] \in TaskType
      BY DEF TypeOK
    <3>2. \A t \in DOMAIN task : task[t].mode \in Mode
      BY <3>1 DEF TaskType
    <3> QED
      BY <3>2
  <2>4. Keeps(p, r)
    BY <2>2
  <2> HIDE DEF todo
  <2>5. r.at = "mode" /\ r.todo = todo
    BY <1>c DEF ReqType
  <2> HIDE DEF r
  <2> QED
    BY <1>k, <1>t, <2>1, <2>3, <2>4, <2>5 DEF Deciding
<1>q. ASSUME NEW p \in Procs, NEW l PROVE [req[p] EXCEPT !.at = "mode", !.todo = @ \ {l}].at = "mode"
                                        /\ [req[p] EXCEPT !.at = "mode", !.todo = @ \ {l}].todo \subseteq req[p].todo
  BY <1>c DEF ReqType
<1>16. ASSUME NEW p \in Procs, LaunchMode(p) PROVE TypeOK' /\ RefInv'
  <2>1. UNCHANGED <<artifact, item, review, budget, faults>> /\ req[p].todo # {}
    BY <1>16 DEF LaunchMode
  <2>2. CASE Keeps(p, Idle) /\ UNCHANGED task
    BY <1>k, <1>t, <2>1, <2>2, IdleFacts DEF Deciding
  <2>3. ASSUME NEW l \in req[p].todo, NEW m \in Mode, NEW x \in TaskType, Updated(l[1], x),
               Keeps(p, [req[p] EXCEPT !.at = "target", !.mode = m])
        PROVE  TypeOK' /\ RefInv'
    <3>1. task' \in Seq(TaskType) /\ DOMAIN task' = DOMAIN task
      BY <2>3, UpdateFacts
    <3> DEFINE r == [req[p] EXCEPT !.at = "target", !.mode = m]
    <3>2. r.at = "target" /\ r.todo = req[p].todo /\ Keeps(p, r)
      BY <1>c, <2>3 DEF ReqType
    <3> HIDE DEF r
    <3> QED
      BY <1>c, <1>k, <1>t, <2>1, <3>1, <3>2 DEF Deciding
  <2> QED
    BY <1>16, <2>2, <2>3, LaunchSteps
<1>23. ASSUME NEW p \in Procs, SetTarget(p) PROVE TypeOK' /\ RefInv'
  <2>1. UNCHANGED <<artifact, item, review, budget, faults>> /\ req[p].todo # {}
    BY <1>23 DEF SetTarget, At, RefInv
  <2>2. PICK l \in req[p].todo, x \in TaskType, r \in ReqType : Updated(l[1], x) /\ Keeps(p, r) /\ Targeted(p, r)
    BY <1>23, <2>1, LaunchSteps
  <2>3. task' \in Seq(TaskType) /\ DOMAIN task' = DOMAIN task
    BY <2>2, UpdateFacts
  <2>4. r.at \in {"mode", "reconcile", "queue"} /\ r.todo \subseteq req[p].todo /\ (r.at = "queue" => r.todo # {})
    BY <2>1, <2>2 DEF Targeted
  <2> QED
    BY <1>c, <1>k, <1>t, <2>1, <2>2, <2>3, <2>4 DEF Deciding
<1>17. ASSUME NEW p \in Procs, LaunchQueue(p) PROVE TypeOK' /\ RefInv'
  <2>1. UNCHANGED <<artifact, item, review, budget, faults>> /\ req[p].todo # {}
    BY <1>17 DEF LaunchQueue, At, RefInv
  <2>2. CASE Keeps(p, Idle) /\ UNCHANGED task
    BY <1>k, <1>t, <2>1, <2>2, IdleFacts DEF Deciding
  <2>3. ASSUME NEW l \in req[p].todo, NEW x \in TaskType, Updated(l[1], x),
               Keeps(p, [req[p] EXCEPT !.at = "mode", !.todo = @ \ {l}])
        PROVE  TypeOK' /\ RefInv'
    <3>1. task' \in Seq(TaskType) /\ DOMAIN task' = DOMAIN task
      BY <2>3, UpdateFacts
    <3> DEFINE r == [req[p] EXCEPT !.at = "mode", !.todo = @ \ {l}]
    <3>2. r.at = "mode" /\ r.todo \subseteq req[p].todo /\ Keeps(p, r)
      BY <1>q, <2>3
    <3> HIDE DEF r
    <3> QED
      BY <1>c, <1>k, <1>t, <2>1, <3>1, <3>2 DEF Deciding
  <2> QED
    BY <1>17, <2>1, <2>2, <2>3, LaunchSteps
<1>18. ASSUME NEW p \in Procs, LaunchDone(p) PROVE TypeOK' /\ RefInv'
  <2>1. UNCHANGED <<artifact, item, review, task, budget, faults>>
    BY <1>18 DEF LaunchDone
  <2> DEFINE r == [req[p] EXCEPT !.at = "reconcile"]
  <2>2. Keeps(p, r)
    BY <1>18, LaunchSteps
  <2>3. r.at = "reconcile" /\ r.todo = req[p].todo
    BY <1>c DEF ReqType
  <2> HIDE DEF r
  <2> QED
    BY <1>c, <1>k, <1>t, <2>1, <2>2, <2>3 DEF Deciding
<1>19. ASSUME NEW p \in Procs, ReconcileRead(p) PROVE TypeOK' /\ RefInv'
  <2>1. UNCHANGED <<artifact, item, review, task, budget, faults>>
    BY <1>19 DEF ReconcileRead
  <2>2. CASE Keeps(p, Idle)
    BY <1>k, <1>t, <2>1, <2>2, IdleFacts DEF Deciding
  <2>3. CASE Keeps(p, [req[p] EXCEPT !.at = "derived", !.derived = DeriveStatus])
    <3> DEFINE r == [req[p] EXCEPT !.at = "derived", !.derived = DeriveStatus]
    <3>1. r.at = "derived" /\ r.todo = req[p].todo /\ Keeps(p, r)
      BY <1>c, <2>3 DEF ReqType
    <3> HIDE DEF r
    <3> QED
      BY <1>c, <1>k, <1>t, <2>1, <3>1 DEF Deciding
  <2> QED
    BY <1>19, <2>2, <2>3, ReconcileSteps
<1>20. ASSUME NEW p \in Procs, ReconcileWrite(p) PROVE TypeOK' /\ RefInv'
  <2>1. UNCHANGED <<artifact, review, task, budget, faults>> /\ Keeps(p, Idle)
    BY <1>20, ReconcileSteps DEF ReconcileWrite
  <2>2. item' \in ItemType
    BY <1>20, <1>c DEF ReconcileWrite, ItemType, ReqType
  <2>3. Ref
    BY <2>1, IdleFacts, RefKept DEF Deciding
  <2> QED
    BY <1>0, <2>1, <2>2, <2>3 DEF TypeOK
<1>21. ASSUME NEW p \in Procs, Fail(p) PROVE TypeOK' /\ RefInv'
  <2>1. UNCHANGED <<artifact, item, review, task, budget>> /\ Keeps(p, Idle)
    BY <1>21, ReconcileSteps DEF Fail
  <2>2. faults' \in Nat
    BY <1>21, <1>t DEF Fail
  <2> QED
    BY <1>k, <1>t, <2>1, <2>2, IdleFacts DEF Deciding
<1>22. ASSUME NEW p \in Procs, EnqueueFails(p) PROVE TypeOK' /\ RefInv'
  <2>1. UNCHANGED <<artifact, item, review, budget>> /\ faults' \in Nat /\ req[p].todo # {}
    BY <1>22, <1>t DEF EnqueueFails, At, RefInv
  <2>2. Keeps(p, Idle) /\ \E l \in req[p].todo, x \in TaskType : Updated(l[1], x)
    BY <1>22, <2>1, LaunchSteps
  <2>3. task' \in Seq(TaskType) /\ DOMAIN task' = DOMAIN task
    BY <2>2, UpdateFacts
  <2> QED
    BY <1>k, <2>1, <2>2, <2>3, IdleFacts DEF Deciding
<1> QED
  BY <1>1, <1>2, <1>3, <1>4, <1>5, <1>6, <1>7, <1>8, <1>9, <1>10, <1>11, <1>12, <1>13, <1>14, <1>15, <1>16,
     <1>17, <1>18, <1>19, <1>20, <1>21, <1>22, <1>23 DEF Next, Step

\* Items, artifacts, reviews, tasks and requests keep their shape whatever
\* overlaps or fails.
THEOREM TypeCorrect == Spec => []TypeOK
<1>1. Spec => [](TypeOK /\ RefInv)
  BY TypeInit, TypeStep, PTL DEF Spec
<1> QED
  BY <1>1, PTL

(***************************************************************************)
(* The history of a phase.                                                 *)
(***************************************************************************)
\* What a request may rely on: an artifact about to be activated, or named by
\* an operator's decision, is in the history as generated.
Backed(r) ==
  /\ r.at = "activate" => GeneratedReview(r.phase, r.art)
  /\ r.at = "check" => GeneratedReview(r.phase, r.art) /\ r.art # 0
  /\ r.at = "record" /\ r.op # "auto" => GeneratedReview(r.phase, r.art)
  /\ r.op = "auto" <=> r.by = "auto"

\* The autonomous run's own approvals name no artifact, and the active one of
\* a phase exists.
HistInv ==
  /\ \A i \in DOMAIN review : review[i].decision # "generated" /\ review[i].by = "auto" => review[i].art = 0
  /\ \A phase \in Phase : item.active[phase] # 0 => item.active[phase] \in DOMAIN artifact
  /\ \A p \in Procs : Backed(req[p])
  /\ ActiveWasReviewed
  /\ DecisionNamesGenerated

\* The history only grows.
LEMMA HistoryGrows ==
  ASSUME TypeOK, NEW row \in ReviewType, review' = Append(review, row)
  PROVE  /\ \A phase, a : GeneratedReview(phase, a) => GeneratedReview(phase, a)'
         /\ DOMAIN review' = DOMAIN review \union {Len(review) + 1} /\ review'[Len(review) + 1] = row
         /\ \A i \in DOMAIN review : review'[i] = review[i] /\ i \in 1 .. Len(review)
         /\ Len(review) \in Nat
<1>1. /\ DOMAIN review' = DOMAIN review \union {Len(review) + 1} /\ review'[Len(review) + 1] = row
      /\ \A i \in DOMAIN review : review'[i] = review[i] /\ i \in 1 .. Len(review)
      /\ Len(review) \in Nat
  BY DEF TypeOK
<1> QED
  BY <1>1 DEF GeneratedReview

\* The newest artifact the history names for a phase was generated for it.
LEMMA LatestIsGenerated ==
  ASSUME TypeOK, HistInv, NEW phase \in Phase, NEW a, a # 0, GeneratedReview(phase, a)
  PROVE  GeneratedReview(phase, LatestReviewArtifact(phase))
<1> DEFINE with == {i \in DOMAIN review : review[i].phase = phase /\ review[i].art # 0}
           last == CHOOSE i \in with : \A j \in with : j <= i
<1>1. with # {}
  BY DEF GeneratedReview
<1>2. with \subseteq 1 .. Len(review) /\ Len(review) \in Nat
  BY DEF TypeOK
<1>3. \E i \in with : \A j \in with : j <= i
  <2> HIDE DEF with
  <2> QED
    BY <1>1, <1>2, LastExists
<1>4. last \in with
  BY <1>3
<1>5. LatestReviewArtifact(phase) = review[last].art
  BY <1>1 DEF LatestReviewArtifact
<1>6. last \in DOMAIN review /\ review[last].phase = phase /\ review[last].art # 0
  BY <1>4
<1> HIDE DEF last
<1>7. CASE review[last].decision = "generated"
  BY <1>5, <1>6, <1>7 DEF GeneratedReview
<1>8. CASE review[last].decision # "generated"
  <2>1. review[last].by # "auto"
    BY <1>6, <1>8 DEF HistInv
  <2>2. PICK j \in 1 .. (last - 1) : /\ review[j].phase = review[last].phase /\ review[j].decision = "generated"
                                     /\ review[j].art = review[last].art
    BY <1>6, <1>8, <2>1 DEF HistInv, DecisionNamesGenerated
  <2>3. j \in DOMAIN review
    <3>1. DOMAIN review = 1 .. Len(review)
      BY DEF TypeOK
    <3>2. last \in 1 .. Len(review)
      BY <1>6, <3>1
    <3> QED
      BY <1>2, <3>1, <3>2
  <2> QED
    BY <1>5, <1>6, <2>2, <2>3 DEF GeneratedReview
<1> QED
  BY <1>7, <1>8

\* A step that writes neither the history nor the active artifacts.
LEMMA HistFrame ==
  ASSUME TypeOK, HistInv, NEW p \in Procs, NEW r, Keeps(p, r), Backed(r), UNCHANGED review,
         artifact' = artifact \/ \E a \in ArtifactType : artifact' = Append(artifact, a),
         item'.active = item.active
  PROVE  HistInv'
<1>1. DOMAIN artifact \subseteq DOMAIN artifact' /\ \A i \in DOMAIN artifact : artifact'[i] = artifact[i]
  <2>1. CASE artifact' = artifact
    BY <2>1
  <2>2. ASSUME NEW a \in ArtifactType, artifact' = Append(artifact, a)
        PROVE  DOMAIN artifact \subseteq DOMAIN artifact' /\ \A i \in DOMAIN artifact : artifact'[i] = artifact[i]
    BY <2>2 DEF TypeOK
  <2> QED
    BY <2>1, <2>2
<1>2. req'[p] = r /\ \A q \in Procs \ {p} : req'[q] = req[q]
  BY OneRequest DEF Keeps
<1>3. \A phase, a : GeneratedReview(phase, a)' <=> GeneratedReview(phase, a)
  BY DEF GeneratedReview
<1>4. \A q \in Procs : Backed(req[q])'
  <2>1. ASSUME NEW q \in Procs PROVE Backed(req[q])'
    <3>1. CASE q = p
      BY <1>2, <1>3, <3>1 DEF Backed, GeneratedReview
    <3>2. CASE q # p
      BY <1>2, <1>3, <3>2 DEF Backed, GeneratedReview, HistInv
    <3> QED
      BY <3>1, <3>2
  <2> QED
    BY <2>1
<1>5. \A phase \in Phase : item'.active[phase] # 0 => item'.active[phase] \in DOMAIN artifact'
  BY <1>1 DEF HistInv
<1>6. ActiveWasReviewed'
  BY <1>1, <1>3 DEF HistInv, ActiveWasReviewed, GeneratedReview
<1>7. DecisionNamesGenerated'
  BY DEF HistInv, DecisionNamesGenerated
<1>8. \A i \in DOMAIN review' : review'[i].decision # "generated" /\ review'[i].by = "auto" => review'[i].art = 0
  BY DEF HistInv
<1> QED
  BY <1>4, <1>5, <1>6, <1>7, <1>8 DEF HistInv

\* A step that adds a row to the history.
LEMMA HistAppend ==
  ASSUME TypeOK, HistInv, NEW p \in Procs, NEW r, Keeps(p, r), Backed(r)', NEW row \in ReviewType,
         review' = Append(review, row), UNCHANGED <<artifact, item>>,
         row.decision # "generated" =>
           IF row.by = "auto" THEN row.art = 0 ELSE GeneratedReview(row.phase, row.art)
  PROVE  HistInv'
<1>1. /\ \A phase, a : GeneratedReview(phase, a) => GeneratedReview(phase, a)'
      /\ DOMAIN review' = DOMAIN review \union {Len(review) + 1} /\ review'[Len(review) + 1] = row
      /\ \A i \in DOMAIN review : review'[i] = review[i] /\ i \in 1 .. Len(review)
      /\ Len(review) \in Nat
  BY HistoryGrows
<1>2. req'[p] = r /\ \A q \in Procs \ {p} : req'[q] = req[q]
  BY OneRequest DEF Keeps
<1>3. \A q \in Procs : Backed(req[q])'
  <2>1. ASSUME NEW q \in Procs PROVE Backed(req[q])'
    <3>1. CASE q = p
      BY <1>2, <3>1 DEF Backed, GeneratedReview
    <3>2. CASE q # p
      <4> DEFINE s == req[q]
      <4>1. Backed(s) /\ req'[q] = s
        BY <1>2, <3>2 DEF HistInv
      <4>2. GeneratedReview(s.phase, s.art) =>
              \E j \in DOMAIN review' : review'[j].phase = s.phase /\ review'[j].decision = "generated" /\ review'[j].art = s.art
        BY <1>1 DEF GeneratedReview
      <4> HIDE DEF s
      <4> QED
        BY <4>1, <4>2 DEF Backed, GeneratedReview
    <3> QED
      BY <3>1, <3>2
  <2> QED
    BY <2>1
<1>4. \A i \in DOMAIN review' : review'[i].decision # "generated" /\ review'[i].by = "auto" => review'[i].art = 0
  BY <1>1 DEF HistInv
<1>5. ActiveWasReviewed'
  BY <1>1 DEF HistInv, ActiveWasReviewed, GeneratedReview
<1>6. DecisionNamesGenerated'
  <2> SUFFICES ASSUME NEW i \in DOMAIN review', review'[i].decision # "generated", review'[i].by # "auto"
               PROVE  \E j \in 1 .. (i - 1) : /\ review'[j].phase = review'[i].phase /\ review'[j].decision = "generated"
                                              /\ review'[j].art = review'[i].art
    BY DEF DecisionNamesGenerated
  <2>1. CASE i \in DOMAIN review
    <3>1. PICK j \in 1 .. (i - 1) : /\ review[j].phase = review[i].phase /\ review[j].decision = "generated"
                                    /\ review[j].art = review[i].art
      BY <1>1, <2>1 DEF HistInv, DecisionNamesGenerated
    <3>2. j \in DOMAIN review
      <4>1. DOMAIN review = 1 .. Len(review)
        BY DEF TypeOK
      <4>2. i \in 1 .. Len(review)
        BY <1>1, <2>1
      <4> QED
        BY <1>1, <4>1, <4>2
    <3> QED
      BY <1>1, <2>1, <3>1, <3>2
  <2>2. CASE i = Len(review) + 1
    <3>1. review'[i] = row /\ GeneratedReview(row.phase, row.art)
      BY <1>1, <2>2
    <3>2. PICK j \in DOMAIN review : review[j].phase = row.phase /\ review[j].decision = "generated" /\ review[j].art = row.art
      BY <3>1 DEF GeneratedReview
    <3>3. j \in 1 .. (i - 1) /\ review'[j] = review[j]
      BY <1>1, <2>2
    <3> QED
      BY <3>1, <3>2, <3>3
  <2> QED
    BY <1>1, <2>1, <2>2
<1>7. \A phase \in Phase : item'.active[phase] # 0 => item'.active[phase] \in DOMAIN artifact'
  BY DEF HistInv
<1> QED
  BY <1>3, <1>4, <1>5, <1>6, <1>7 DEF HistInv

\* A request that does not rely on the history.
LEMMA Unbacked ==
  ASSUME NEW r, r.at \notin {"activate", "check"}, r.at = "record" => r.op = "auto", r.op = "auto" <=> r.by = "auto"
  PROVE  Backed(r)
  BY DEF Backed

\* No order of generations, decisions, launches and failures loses the history
\* of an active artifact or makes a decision name another one.
LEMMA HistStep == TypeOK /\ RefInv /\ HistInv /\ [Next]_vars => HistInv'
<1> SUFFICES ASSUME TypeOK, RefInv, HistInv, [Next]_vars PROVE HistInv'
  OBVIOUS
<1>c. \A p \in Procs : req[p] \in ReqType /\ Backed(req[p]) /\ (req[p].op = "auto" <=> req[p].by = "auto")
  BY DEF TypeOK, HistInv, Backed
<1>i. Backed(Idle) /\ Requests \subseteq Procs /\ Worker \in Procs
  BY IdleFacts, Unbacked DEF Procs
\* The request goes on to a place that needs nothing of the history, or ends.
<1>k. ASSUME NEW p \in Procs, NEW r, Keeps(p, r), UNCHANGED <<review, artifact>>, item'.active = item.active,
             r.at \notin {"activate", "check", "record"}, r.op = "auto" <=> r.by = "auto"
      PROVE  HistInv'
  <2>1. Backed(r)
    BY <1>k, Unbacked
  <2> QED
    BY <1>k, <2>1, HistFrame
<1>1. CASE UNCHANGED vars
  BY <1>1 DEF vars, HistInv, Backed, GeneratedReview, ActiveWasReviewed, DecisionNamesGenerated
<1>2. ASSUME NEW p \in Requests, Advance(p) \/ GenerateTasks(p) \/ UpdateTaskMode(p) PROVE HistInv'
  <2>1. PICK r : /\ Keeps(p, r) /\ r.at \in {"generate", "target"} /\ r.op # "auto" /\ r.by # "auto"
                 /\ UNCHANGED <<item, artifact, review>>
    BY <1>2, BeginSteps
  <2> QED
    BY <1>i, <1>k, <2>1
<1>3. ASSUME NEW p \in Requests, NEW by \in {"http", "telegram"}, Launch(p, by) \/ Cancel(p, by) PROVE HistInv'
  <2>1. PICK r : /\ Keeps(p, r) /\ r.at \in {"list", "none", "reconcile"} /\ r.op # "auto" /\ r.by # "auto"
                 /\ UNCHANGED <<item, artifact, review>>
    BY <1>3, BeginSteps
  <2> QED
    BY <1>i, <1>k, <2>1
<1>4. ASSUME NEW p \in Requests, NEW by \in {"http", "telegram"}, NEW phase \in Phase, NEW yes \in BOOLEAN,
             Resolve(p, phase, yes, by)
      PROVE  HistInv'
  <2>1. PICK r : /\ Keeps(p, r) /\ r.at = "check" /\ r.op = "resolve" /\ r.by = by /\ r.phase = phase
                 /\ r.art = item.active[phase] /\ r.art # 0 /\ UNCHANGED <<item, artifact, review, task>>
    BY <1>4, BeginSteps
  <2>2. GeneratedReview(phase, r.art)
    BY <2>1 DEF HistInv, ActiveWasReviewed
  <2>3. Backed(r)
    BY <2>1, <2>2 DEF Backed
  <2> QED
    BY <1>i, <2>1, <2>3, HistFrame
<1>5. CASE Work
  <2>1. PICK r : Keeps(Worker, r) /\ r.at = "reconcile" /\ r.op = "work" /\ r.by = "worker"
    BY <1>5, WorkSteps
  <2> QED
    BY <1>5, <1>i, <1>k, <2>1 DEF Work
<1>6. ASSUME NEW p \in Procs, Persist(p) PROVE HistInv'
  <2> DEFINE r == [req[p] EXCEPT !.at = "review", !.art = Len(artifact) + 1]
  <2>1. PICK a \in Generated(req[p].phase) : artifact' = Append(artifact, a) /\ a \in ArtifactType /\ Keeps(p, r)
    BY <1>6, GenerationSteps
  <2>2. r.at = "review" /\ r.op = req[p].op /\ r.by = req[p].by
    BY <1>c DEF ReqType
  <2> HIDE DEF r
  <2>3. Backed(r)
    BY <1>c, <2>2, Unbacked
  <2> QED
    BY <1>6, <2>1, <2>3, HistFrame DEF Persist
<1>7. ASSUME NEW p \in Procs, RecordGenerated(p) PROVE HistInv'
  <2> DEFINE r == [req[p] EXCEPT !.at = "activate"]
             row == [phase |-> req[p].phase, decision |-> "generated", art |-> req[p].art, by |-> "service"]
  <2>1. Keeps(p, r) /\ UNCHANGED <<item, artifact>> /\ review' = Append(review, row)
    BY <1>7, GenerationSteps DEF RecordGenerated
  <2>2. r.at = "activate" /\ r.op = req[p].op /\ r.by = req[p].by /\ r.phase = req[p].phase /\ r.art = req[p].art
    BY <1>c DEF ReqType
  <2>3. row \in ReviewType /\ row.decision = "generated" /\ row.phase = req[p].phase /\ row.art = req[p].art
    BY <1>c DEF ReqType, ReviewType
  <2>4. req'[p] = r
    BY <2>1, OneRequest DEF Keeps
  <2> HIDE DEF r, row
  <2>5. \E j \in DOMAIN review' : review'[j].phase = r.phase /\ review'[j].decision = "generated" /\ review'[j].art = r.art
    BY <2>1, <2>2, <2>3, HistoryGrows
  <2>6. PICK s : s = r
    OBVIOUS
  <2>7. Backed(s)'
    BY <1>c, <2>2, <2>5, <2>6 DEF Backed, GeneratedReview
  <2> QED
    BY <2>1, <2>3, <2>6, <2>7, HistAppend
<1>8. ASSUME NEW p \in Procs, Activate(p) PROVE HistInv'
  <2>1. /\ UNCHANGED <<artifact, review>> /\ req[p].at = "activate"
        /\ item'.active = [item.active EXCEPT ![req[p].phase] = req[p].art]
    BY <1>8 DEF Activate, At
  <2>2. GeneratedReview(req[p].phase, req[p].art) /\ req[p].art \in DOMAIN artifact /\ artifact[req[p].art].phase = req[p].phase
    BY <1>c, <2>1 DEF Backed, RefInv
  <2>3. item.active \in [Phase -> Nat] /\ req[p].phase \in Phase
    BY <1>c DEF TypeOK, ItemType, ReqType
  <2>4. \A phase \in Phase : item'.active[phase] = IF phase = req[p].phase THEN req[p].art ELSE item.active[phase]
    BY <2>1, <2>3
  <2>5. \A phase \in Phase : item'.active[phase] # 0 =>
          /\ item'.active[phase] \in DOMAIN artifact
          /\ artifact[item'.active[phase]].phase = phase
          /\ GeneratedReview(phase, item'.active[phase])
    BY <2>2, <2>4 DEF HistInv, ActiveWasReviewed
  <2>6. ActiveWasReviewed' /\ \A phase \in Phase : item'.active[phase] # 0 => item'.active[phase] \in DOMAIN artifact'
    BY <2>1, <2>5 DEF ActiveWasReviewed, GeneratedReview
  <2>7. PICK r : Keeps(p, r) /\ r.at \in {"materialize", "record", "none"} /\ (r.op = "auto" <=> r.by = "auto")
                 /\ (r.at = "record" => r.op = "auto")
    <3>1. /\ [req[p] EXCEPT !.at = "materialize", !.todo = {}].at = "materialize"
          /\ [req[p] EXCEPT !.at = "materialize", !.todo = {}].op = req[p].op
          /\ [req[p] EXCEPT !.at = "materialize", !.todo = {}].by = req[p].by
          /\ [req[p] EXCEPT !.at = "record", !.yes = TRUE].at = "record"
          /\ [req[p] EXCEPT !.at = "record", !.yes = TRUE].op = req[p].op
          /\ [req[p] EXCEPT !.at = "record", !.yes = TRUE].by = req[p].by
      BY <1>c DEF ReqType
    <3> QED
      BY <1>8, <1>c, <3>1, IdleFacts, GenerationSteps
  <2>8. \A q \in Procs : Backed(req[q])'
    <3>1. req'[p] = r /\ \A q \in Procs \ {p} : req'[q] = req[q]
      BY <2>7, OneRequest DEF Keeps
    <3>2. ASSUME NEW q \in Procs PROVE Backed(req[q])'
      <4>1. CASE q = p
        BY <2>7, <3>1, <4>1 DEF Backed
      <4>2. CASE q # p
        BY <1>c, <2>1, <3>1, <4>2 DEF Backed, GeneratedReview
      <4> QED
        BY <4>1, <4>2
    <3> QED
      BY <3>2
  <2>9. DecisionNamesGenerated' /\ \A j \in DOMAIN review' : review'[j].decision # "generated" /\ review'[j].by = "auto" => review'[j].art = 0
    BY <2>1 DEF HistInv, DecisionNamesGenerated
  <2> QED
    BY <2>6, <2>8, <2>9 DEF HistInv
<1>9. ASSUME NEW p \in Procs, Materialize(p) PROVE HistInv'
  <2>1. UNCHANGED <<item, artifact, review>>
    BY <1>9 DEF Materialize
  <2>2. CASE UNCHANGED req
    BY <2>1, <2>2 DEF HistInv, Backed, GeneratedReview, ActiveWasReviewed, DecisionNamesGenerated
  <2>3. CASE req[p].op = "auto" /\ Keeps(p, [req[p] EXCEPT !.at = "record", !.yes = TRUE])
    <3> DEFINE r == [req[p] EXCEPT !.at = "record", !.yes = TRUE]
    <3>1. r.at = "record" /\ r.op = "auto" /\ r.by = req[p].by /\ Keeps(p, r)
      BY <1>c, <2>3 DEF ReqType
    <3> HIDE DEF r
    <3>2. Backed(r)
      BY <1>c, <2>3, <3>1, Unbacked
    <3> QED
      BY <2>1, <3>1, <3>2, HistFrame
  <2>4. CASE Keeps(p, Idle)
    BY <1>k, <2>1, <2>4, IdleFacts
  <2> QED
    BY <1>9, <2>2, <2>3, <2>4, GenerationSteps
<1>10. ASSUME NEW p \in Procs, ResolveCheck(p) PROVE HistInv'
  <2>1. UNCHANGED <<item, artifact, review>> /\ req[p].at = "check"
    BY <1>10 DEF ResolveCheck, At
  <2>2. CASE Keeps(p, Idle)
    BY <1>k, <2>1, <2>2, IdleFacts
  <2>3. CASE ~Keeps(p, Idle)
    <3> DEFINE art == IF req[p].by = "http" THEN LatestReviewArtifact(req[p].phase) ELSE req[p].art
               r == [req[p] EXCEPT !.at = "record",
                       !.art = IF req[p].by = "http" THEN LatestReviewArtifact(req[p].phase) ELSE @]
    <3>1. Keeps(p, r)
      BY <1>10, <2>3, DecisionSteps
    <3>2. r.at = "record" /\ r.art = art /\ r.phase = req[p].phase /\ r.op = req[p].op /\ r.by = req[p].by
      BY <1>c DEF ReqType
    <3>3. GeneratedReview(req[p].phase, req[p].art) /\ req[p].art # 0 /\ req[p].phase \in Phase
      BY <1>c, <2>1 DEF Backed, ReqType
    <3>4. GeneratedReview(req[p].phase, art)
      BY <3>3, LatestIsGenerated
    <3> HIDE DEF r, art
    <3>5. Backed(r)
      BY <1>c, <3>2, <3>4 DEF Backed
    <3> QED
      BY <2>1, <3>1, <3>5, HistFrame
  <2> QED
    BY <2>2, <2>3
<1>11. ASSUME NEW p \in Procs, ResolveRecord(p) PROVE HistInv'
  <2> DEFINE r == [req[p] EXCEPT !.at = "write"]
             row == [phase |-> req[p].phase, decision |-> IF req[p].yes THEN "approved" ELSE "rejected",
                     art |-> IF req[p].op = "auto" THEN 0 ELSE req[p].art, by |-> req[p].by]
  <2>1. Keeps(p, r) /\ UNCHANGED <<artifact, item>> /\ review' = Append(review, row) /\ req[p].at = "record"
    BY <1>11, DecisionSteps DEF ResolveRecord, At
  <2>2. r.at = "write" /\ r.op = req[p].op /\ r.by = req[p].by
    BY <1>c DEF ReqType
  <2>3. row \in ReviewType
    <3>1. req[p].by \in {"http", "telegram", "auto"}
      BY <2>1 DEF RefInv, Deciding
    <3> QED
      BY <1>c, <3>1 DEF ReqType, ReviewType
  <2>4. IF row.by = "auto" THEN row.art = 0 ELSE GeneratedReview(row.phase, row.art)
    BY <1>c, <2>1 DEF Backed
  <2> HIDE DEF r, row
  <2>5. PICK s : s = r
    OBVIOUS
  <2>6. Backed(s)'
    BY <1>c, <2>2, <2>5 DEF Backed
  <2> QED
    BY <2>1, <2>3, <2>4, <2>5, <2>6, HistAppend
<1>12. ASSUME NEW p \in Procs, ResolveWrite(p) PROVE HistInv'
  <2>1. UNCHANGED <<artifact, review>> /\ item'.active = item.active
    BY <1>12 DEF ResolveWrite, TypeOK, ItemType
  <2>2. PICK r : Keeps(p, r) /\ r.at \in {"none", "list", "generate"} /\ (r.op = "auto" <=> r.by = "auto")
    <3>1. \A next \in Phase :
            /\ [req[p] EXCEPT !.at = "list"].at = "list" /\ [req[p] EXCEPT !.at = "list"].op = req[p].op
            /\ [req[p] EXCEPT !.at = "list"].by = req[p].by
            /\ [req[p] EXCEPT !.at = "generate", !.phase = next].at = "generate"
            /\ [req[p] EXCEPT !.at = "generate", !.phase = next].op = req[p].op
            /\ [req[p] EXCEPT !.at = "generate", !.phase = next].by = req[p].by
      BY <1>c DEF ReqType
    <3>2. "plan" \in Phase
      BY DEF Phase
    <3>3. CASE Keeps(p, Idle)
      BY <3>3, IdleFacts
    <3>4. CASE Keeps(p, [req[p] EXCEPT !.at = "list"])
      BY <1>c, <3>1, <3>2, <3>4
    <3>5. ASSUME NEW next \in Phase, Keeps(p, [req[p] EXCEPT !.at = "generate", !.phase = next])
          PROVE  \E r : Keeps(p, r) /\ r.at \in {"none", "list", "generate"} /\ (r.op = "auto" <=> r.by = "auto")
      <4> DEFINE r == [req[p] EXCEPT !.at = "generate", !.phase = next]
      <4>1. r.at = "generate" /\ r.op = req[p].op /\ r.by = req[p].by /\ Keeps(p, r)
        BY <3>1, <3>5
      <4> HIDE DEF r
      <4> QED
        BY <1>c, <4>1
    <3> QED
      BY <1>12, <3>3, <3>4, <3>5, DecisionSteps
  <2> QED
    BY <1>k, <2>1, <2>2
<1>13. ASSUME NEW p \in Procs, LaunchList(p) PROVE HistInv'
  <2>1. PICK S \in SUBSET (DOMAIN task) :
          Keeps(p, [req[p] EXCEPT !.at = "mode", !.todo = {<<t, task[t].mode>> : t \in S}])
    BY <1>13, LaunchSteps
  <2> DEFINE r == [req[p] EXCEPT !.at = "mode", !.todo = {<<t, task[t].mode>> : t \in S}]
  <2>2. r.at = "mode" /\ r.op = req[p].op /\ r.by = req[p].by /\ Keeps(p, r)
    BY <1>c, <2>1 DEF ReqType
  <2> HIDE DEF r
  <2> QED
    BY <1>13, <1>c, <1>k, <2>2 DEF LaunchList
<1>q. ASSUME NEW p \in Procs, NEW l, UNCHANGED <<item, artifact, review>>,
             \/ Keeps(p, [req[p] EXCEPT !.at = "mode", !.todo = @ \ {l}])
             \/ Keeps(p, [req[p] EXCEPT !.at = "target", !.mode = l]) \/ Keeps(p, Idle)
      PROVE  HistInv'
  <2>1. PICK r : Keeps(p, r) /\ r.at \in {"mode", "target", "none"} /\ (r.op = "auto" <=> r.by = "auto")
    <3>1. /\ [req[p] EXCEPT !.at = "mode", !.todo = @ \ {l}].at = "mode"
          /\ [req[p] EXCEPT !.at = "mode", !.todo = @ \ {l}].op = req[p].op
          /\ [req[p] EXCEPT !.at = "mode", !.todo = @ \ {l}].by = req[p].by
          /\ [req[p] EXCEPT !.at = "target", !.mode = l].at = "target"
          /\ [req[p] EXCEPT !.at = "target", !.mode = l].op = req[p].op
          /\ [req[p] EXCEPT !.at = "target", !.mode = l].by = req[p].by
      BY <1>c DEF ReqType
    <3> QED
      BY <1>c, <1>q, <3>1, IdleFacts
  <2> QED
    BY <1>k, <1>q, <2>1
<1>14. ASSUME NEW p \in Procs, LaunchMode(p) PROVE HistInv'
  BY <1>14, <1>q, LaunchSteps DEF LaunchMode
<1>20. ASSUME NEW p \in Procs, SetTarget(p) PROVE HistInv'
  <2>1. UNCHANGED <<item, artifact, review>> /\ req[p].todo # {}
    BY <1>20 DEF SetTarget, At, RefInv
  <2>2. PICK r \in ReqType : Keeps(p, r) /\ Targeted(p, r)
    BY <1>20, <2>1, LaunchSteps
  <2>3. r.at \in {"mode", "reconcile", "queue"} /\ (r.op = "auto" <=> r.by = "auto")
    BY <1>c, <2>2 DEF Targeted
  <2> QED
    BY <1>k, <2>1, <2>2, <2>3
<1>15. ASSUME NEW p \in Procs, LaunchQueue(p) PROVE HistInv'
  <2>1. UNCHANGED <<item, artifact, review>> /\ req[p].todo # {}
    BY <1>15 DEF LaunchQueue, At, RefInv
  <2> QED
    BY <1>15, <1>q, <2>1, LaunchSteps
<1>16. ASSUME NEW p \in Procs, EnqueueFails(p) PROVE HistInv'
  <2>1. UNCHANGED <<item, artifact, review>> /\ req[p].todo # {}
    BY <1>16 DEF EnqueueFails, At, RefInv
  <2> QED
    BY <1>16, <1>q, <2>1, LaunchSteps
<1>17. ASSUME NEW p \in Procs, LaunchDone(p) PROVE HistInv'
  <2> DEFINE r == [req[p] EXCEPT !.at = "reconcile"]
  <2>1. r.at = "reconcile" /\ r.op = req[p].op /\ r.by = req[p].by /\ Keeps(p, r)
    BY <1>17, <1>c, LaunchSteps DEF ReqType
  <2> HIDE DEF r
  <2> QED
    BY <1>17, <1>c, <1>k, <2>1 DEF LaunchDone
<1>18. ASSUME NEW p \in Procs, ReconcileRead(p) PROVE HistInv'
  <2> DEFINE r == [req[p] EXCEPT !.at = "derived", !.derived = DeriveStatus]
  <2>1. r.at = "derived" /\ r.op = req[p].op /\ r.by = req[p].by
    BY <1>c DEF ReqType
  <2>2. Keeps(p, Idle) \/ Keeps(p, r)
    BY <1>18, ReconcileSteps
  <2> HIDE DEF r
  <2> QED
    BY <1>18, <1>c, <1>k, <2>1, <2>2, IdleFacts DEF ReconcileRead
<1>19. ASSUME NEW p \in Procs, ReconcileWrite(p) \/ Fail(p) PROVE HistInv'
  <2>1. UNCHANGED <<artifact, review>> /\ item'.active = item.active
    BY <1>19 DEF ReconcileWrite, Fail, TypeOK, ItemType
  <2> QED
    BY <1>19, <1>k, <2>1, IdleFacts, ReconcileSteps
<1> QED
  BY <1>1, <1>2, <1>3, <1>4, <1>5, <1>6, <1>7, <1>8, <1>9, <1>10, <1>11, <1>12, <1>13, <1>14, <1>15, <1>16,
     <1>17, <1>18, <1>19, <1>20 DEF Next, Step

\* Where a history begins the approved phases have their rows.
LEMMA HistInit == Init => HistInv
<1> SUFFICES ASSUME Init PROVE HistInv
  OBVIOUS
<1>1. PICK start \in DOMAIN Budgets : InitAt(start, ApprovedAt(start))
  BY DEF Init
<1> DEFINE n == ApprovedAt(start)
           names == <<"requirements", "design", "plan">>
<1>2. n \in 0 .. 3
  BY DEF ApprovedAt
<1>s. InitAt(start, n)
  BY <1>1
<1> HIDE DEF n
<1>3. PICK plan \in Plans : artifact = IF n < 3 THEN Rows(n) ELSE [Rows(3) EXCEPT ![3].tasks = plan]
  BY <1>s, Zenon DEF InitAt
<1>4. review = History(n)
  BY <1>s, Zenon DEF InitAt
<1>5. item = [status |-> <<"idea_submitted", "design_draft", "plan_draft", "execution_ready">>[n + 1],
              phase  |-> <<"requirements", "design", "plan", "execution">>[n + 1],
              active |-> ActiveUpTo(n)]
  BY <1>s, Zenon DEF InitAt
<1>6. req = [p \in Procs |-> IF p = AutoRun /\ start = "autonomous" THEN AutoStart ELSE Idle]
  BY <1>s, Zenon DEF InitAt
<1>7. DOMAIN artifact = 1 .. n /\ \A i \in 1 .. n : artifact[i].phase = names[i]
  <2>1. CASE n < 3
    BY <1>2, <1>3, <2>1 DEF Rows
  <2>2. CASE n = 3
    <3>1. artifact = [Rows(3) EXCEPT ![3].tasks = plan]
      BY <1>3, <2>2
    <3>2. DOMAIN Rows(3) = 1 .. 3 /\ \A i \in 1 .. 3 : Rows(3)[i] = [phase |-> names[i], valid |-> TRUE, tasks |-> <<>>]
      BY DEF Rows
    <3> HIDE DEF names
    <3> QED
      BY <2>2, <3>1, <3>2
  <2> QED
    BY <1>2, <2>1, <2>2
<1>8. /\ DOMAIN review = 1 .. (2 * n)
      /\ \A i \in 1 .. (2 * n) :
           /\ review[i].phase = names[(i + 1) \div 2] /\ review[i].art = (i + 1) \div 2
           /\ review[i].decision = IF i % 2 = 1 THEN "generated" ELSE "approved"
           /\ review[i].by = IF i % 2 = 1 THEN "service" ELSE "http"
  BY <1>4 DEF History
<1>9. \A phase \in Phase : item.active[phase] # 0 =>
        item.active[phase] \in 1 .. n /\ names[item.active[phase]] = phase
  BY <1>2, <1>5 DEF ActiveUpTo, Phase
<1>10. \A a \in 1 .. n : /\ 2 * a - 1 \in 1 .. (2 * n) /\ (2 * a - 1 + 1) \div 2 = a /\ (2 * a - 1) % 2 = 1
  BY <1>2
<1>11. \A a \in 1 .. n : GeneratedReview(names[a], a)
  <2> HIDE DEF names
  <2> QED
    BY <1>8, <1>10 DEF GeneratedReview
<1>12. ActiveWasReviewed /\ \A phase \in Phase : item.active[phase] # 0 => item.active[phase] \in DOMAIN artifact
  <2> HIDE DEF names
  <2> QED
    BY <1>7, <1>9, <1>11 DEF ActiveWasReviewed
<1>13. DecisionNamesGenerated
  <2> SUFFICES ASSUME NEW i \in 1 .. (2 * n), i % 2 # 1
               PROVE  \E j \in 1 .. (i - 1) : /\ review[j].phase = review[i].phase /\ review[j].decision = "generated"
                                              /\ review[j].art = review[i].art
    BY <1>8 DEF DecisionNamesGenerated
  <2>1. /\ i - 1 \in 1 .. (i - 1) /\ i - 1 \in 1 .. (2 * n) /\ (i - 1) % 2 = 1
        /\ (i - 1 + 1) \div 2 = (i + 1) \div 2
    BY <1>2
  <2> HIDE DEF names
  <2> QED
    BY <1>8, <2>1
<1>14. \A i \in DOMAIN review : review[i].by # "auto"
  BY <1>8
<1>15. \A p \in Procs : Backed(req[p])
  BY <1>6 DEF Backed, Idle, AutoStart
<1> QED
  BY <1>12, <1>13, <1>14, <1>15 DEF HistInv

\* The inductive invariant of the history.
LEMMA HistoryHolds == Spec => [](TypeOK /\ RefInv /\ HistInv)
  BY TypeInit, TypeStep, HistInit, HistStep, PTL DEF Spec

\* Whatever requests overlap or fail, in the handlers, the bot and the
\* autonomous run, the active artifact of a phase is one of that phase and the
\* history has its generation.
THEOREM ActiveSafe == Spec => []ActiveWasReviewed
<1>1. HistInv => ActiveWasReviewed
  BY DEF HistInv
<1> QED
  BY <1>1, HistoryHolds, PTL

\* A decision of an operator names an artifact that an earlier row of the
\* history has as generated for the same phase, although the handler takes the
\* newest review's and the bot the active one it has read.
THEOREM DecisionSafe == Spec => []DecisionNamesGenerated
<1>1. HistInv => DecisionNamesGenerated
  BY DEF HistInv
<1> QED
  BY <1>1, HistoryHolds, PTL

(***************************************************************************)
(* Execution: where launched tasks run, and that there are some.           *)
(***************************************************************************)
Launched == TaskState \ {"created", "cancelled"}

\* The mode to take the target from is one of the policy, and between that
\* update and the launch the task about to be queued has the target of the
\* policy.
ScopeInv ==
  \A p \in Procs :
    /\ req[p].at = "target" => AllowsMode(req[p].mode)
    /\ req[p].at = "queue" =>
         \E l \in req[p].todo : First(l, req[p].todo) /\ task[l[1]].target = scope

\* A plan has tasks, and whoever is about to move the initiative to execution
\* has seen one.
BacklogInv ==
  /\ \A a \in DOMAIN artifact : artifact[a].phase = "plan" => artifact[a].tasks # <<>>
  /\ \A p \in Procs :
       /\ req[p].at = "derived" => task # <<>>
       /\ req[p].at \in {"record", "write"} /\ req[p].yes /\ req[p].phase = "plan" => task # <<>>

ExecInv == ScopeInv /\ BacklogInv /\ LaunchStaysInScope /\ ExecutionHasBacklog

\* How tasks change: a new row, or an update that leaves the target, or takes
\* that of the policy, and launches only in scope.
Moves ==
  \/ UNCHANGED task
  \/ \E t, x : /\ Updated(t, x) /\ x.target \in {task[t].target, scope}
               /\ x.state \in Launched => x.target = scope
  \/ \E x : task' = Append(task, x) /\ x.state = "created"

\* Rows stay in their order, those in scope stay there, and none is deleted.
LEMMA MovesFacts ==
  ASSUME TypeOK, LaunchStaysInScope, Moves, UNCHANGED scope
  PROVE  /\ DOMAIN task \subseteq DOMAIN task'
         /\ \A u \in DOMAIN task : task'[u].order = task[u].order /\ (task[u].target = scope => task'[u].target = scope)
         /\ task # <<>> => task' # <<>>
         /\ LaunchStaysInScope'
<1>1. CASE UNCHANGED task
  BY <1>1 DEF LaunchStaysInScope
<1>2. ASSUME NEW t, NEW x, Updated(t, x), x.target \in {task[t].target, scope}, x.state \in Launched => x.target = scope
      PROVE  /\ DOMAIN task \subseteq DOMAIN task'
             /\ \A u \in DOMAIN task : task'[u].order = task[u].order /\ (task[u].target = scope => task'[u].target = scope)
             /\ task # <<>> => task' # <<>>
             /\ LaunchStaysInScope'
  <2>1. /\ DOMAIN task' = DOMAIN task /\ task'[t] = x /\ t \in DOMAIN task
        /\ \A u \in DOMAIN task \ {t} : task'[u] = task[u]
        /\ \A u \in DOMAIN task : task'[u].order = task[u].order
    BY <1>2, UpdateFacts DEF Updated
  <2>2. \A u \in DOMAIN task : task[u].target = scope => task'[u].target = scope
    BY <1>2, <2>1
  <2>3. LaunchStaysInScope'
    BY <1>2, <2>1 DEF LaunchStaysInScope, Launched
  <2>4. task' # <<>>
    BY <2>1
  <2> QED
    BY <2>1, <2>2, <2>3, <2>4
<1>3. ASSUME NEW x, task' = Append(task, x), x.state = "created"
      PROVE  /\ DOMAIN task \subseteq DOMAIN task'
             /\ \A u \in DOMAIN task : task'[u].order = task[u].order /\ (task[u].target = scope => task'[u].target = scope)
             /\ task # <<>> => task' # <<>>
             /\ LaunchStaysInScope'
  <2>1. /\ DOMAIN task' = DOMAIN task \union {Len(task) + 1} /\ task'[Len(task) + 1] = x
        /\ \A u \in DOMAIN task : task'[u] = task[u]
    BY <1>3 DEF TypeOK
  <2>2. task' # <<>>
    BY <2>1
  <2>3. LaunchStaysInScope'
    BY <1>3, <2>1 DEF LaunchStaysInScope
  <2> QED
    BY <2>1, <2>2, <2>3
<1> QED
  BY <1>1, <1>2, <1>3 DEF Moves

\* A statement of one request, with what it leaves for its next one.
LEMMA ExecFrame ==
  ASSUME TypeOK, RefInv, ExecInv, NEW p \in Procs, NEW r, Keeps(p, r), Moves,
         r.at = "target" => AllowsMode(r.mode),
         r.at = "queue" => /\ r.todo = req[p].todo
                           /\ \E l \in r.todo : First(l, r.todo) /\ task'[l[1]].target = scope,
         r.at = "derived" => task # <<>>,
         r.at \in {"record", "write"} /\ r.yes /\ r.phase = "plan" => task # <<>>,
         item'.phase = "execution" => item.phase = "execution" \/ task # <<>>,
         \/ UNCHANGED artifact
         \/ \E a \in ArtifactType : artifact' = Append(artifact, a) /\ (a.phase = "plan" => a.tasks # <<>>)
  PROVE  ExecInv'
<1>1. UNCHANGED scope /\ req'[p] = r /\ \A q \in Procs \ {p} : req'[q] = req[q]
  BY OneRequest DEF Keeps
<1>2. /\ DOMAIN task \subseteq DOMAIN task'
      /\ \A u \in DOMAIN task : task'[u].order = task[u].order /\ (task[u].target = scope => task'[u].target = scope)
      /\ task # <<>> => task' # <<>>
      /\ LaunchStaysInScope'
  BY <1>1, MovesFacts DEF ExecInv
<1>3. ASSUME NEW todo, todo \subseteq (DOMAIN task) \X Mode, NEW l \in todo, First(l, todo)
      PROVE  First(l, todo)'
  <2>1. \A k \in todo : k[1] \in DOMAIN task
    BY <1>3
  <2> QED
    BY <1>2, <1>3, <2>1 DEF First
<1>4. ScopeInv'
  <2>0. \A q \in Procs : req'[q].at = "target" => AllowsMode(req'[q].mode)
    BY <1>1 DEF ExecInv, ScopeInv
  <2> SUFFICES ASSUME NEW q \in Procs, req'[q].at = "queue"
               PROVE  \E l \in req'[q].todo : First(l, req[q].todo)' /\ task'[l[1]].target = scope'
    BY <1>1, <2>0 DEF ScopeInv, AllowsMode
  <2>1. PICK todo : todo = req[q].todo
    OBVIOUS
  <2>2. todo \subseteq (DOMAIN task) \X Mode
    BY <2>1 DEF RefInv
  <2>3. req'[q].todo = todo /\ \E l \in todo : First(l, todo) /\ task'[l[1]].target = scope
    <3>1. CASE q = p
      BY <1>1, <2>1, <3>1
    <3>2. CASE q # p
      <4>1. req'[q] = req[q]
        BY <1>1, <3>2
      <4>2. PICK l \in todo : First(l, todo) /\ task[l[1]].target = scope
        BY <2>1, <4>1 DEF ExecInv, ScopeInv
      <4>3. l[1] \in DOMAIN task
        BY <2>2
      <4> QED
        BY <1>2, <2>1, <4>1, <4>2, <4>3
    <3> QED
      BY <3>1, <3>2
  <2>4. PICK l \in todo : First(l, todo) /\ task'[l[1]].target = scope
    BY <2>3
  <2>5. First(l, todo)'
    BY <1>3, <2>2, <2>4
  <2>6. First(l, req[q].todo)'
    BY <2>3, <2>5 DEF First
  <2> QED
    BY <1>1, <2>3, <2>4, <2>6
<1>5. \A a \in DOMAIN artifact' : artifact'[a].phase = "plan" => artifact'[a].tasks # <<>>
  <2>1. CASE UNCHANGED artifact
    BY <2>1 DEF ExecInv, BacklogInv
  <2>2. ASSUME NEW a \in ArtifactType, artifact' = Append(artifact, a), a.phase = "plan" => a.tasks # <<>>
        PROVE  \A b \in DOMAIN artifact' : artifact'[b].phase = "plan" => artifact'[b].tasks # <<>>
    <3>1. /\ DOMAIN artifact' = DOMAIN artifact \union {Len(artifact) + 1} /\ artifact'[Len(artifact) + 1] = a
          /\ \A i \in DOMAIN artifact : artifact'[i] = artifact[i]
      BY <2>2 DEF TypeOK
    <3> QED
      BY <2>2, <3>1 DEF ExecInv, BacklogInv
  <2> QED
    BY <2>1, <2>2
<1>6. BacklogInv'
  BY <1>1, <1>2, <1>5 DEF ExecInv, BacklogInv
<1>7. ExecutionHasBacklog'
  BY <1>2 DEF ExecInv, ExecutionHasBacklog
<1> QED
  BY <1>2, <1>4, <1>6, <1>7 DEF ExecInv

\* No order of statements launches a task out of scope or executes an
\* initiative that has no tasks.
LEMMA ExecStep == TypeOK /\ RefInv /\ ExecInv /\ [Next]_vars => ExecInv'
<1> SUFFICES ASSUME TypeOK, RefInv, ExecInv, [Next]_vars PROVE ExecInv'
  OBVIOUS
<1>c. /\ \A p \in Procs : req[p] \in ReqType /\ req[p].todo \subseteq (DOMAIN task) \X Mode
      /\ Requests \subseteq Procs /\ Worker \in Procs
      /\ LaunchStaysInScope /\ \A t \in DOMAIN task : task[t] \in TaskType
  BY DEF TypeOK, RefInv, ExecInv, Procs
\* The request goes on to a place where nothing is claimed, or ends.
<1>k. ASSUME NEW p \in Procs, NEW r, Keeps(p, r), Moves, UNCHANGED <<artifact, item>>,
             r.at \notin {"target", "queue", "derived", "record", "write"}
      PROVE  ExecInv'
  BY <1>k, ExecFrame
\* The row about to be queued is in scope.
<1>q. ASSUME NEW p \in Procs, req[p].at = "queue" PROVE task[NextListed(req[p].todo)[1]].target = scope
  <2>1. PICK l \in req[p].todo : First(l, req[p].todo) /\ task[l[1]].target = scope
    BY <1>q DEF ExecInv, ScopeInv
  <2>2. l[1] = NextListed(req[p].todo)[1]
    <3>1. req[p].todo # {}
      BY <2>1
    <3> QED
      BY <1>c, <2>1, <3>1, FirstListed
  <2> QED
    BY <2>1, <2>2
\* An update of the mode alone.
<1>s. ASSUME NEW t \in DOMAIN task, NEW x, Updated(t, x), x.target = task[t].target, x.state = task[t].state
      PROVE  Moves
  BY <1>c, <1>s DEF Moves, LaunchStaysInScope, Launched
\* An update of the target with a mode of the policy.
<1>m. ASSUME NEW t \in DOMAIN task, NEW m \in Mode, NEW x, AllowsMode(m), Updated(t, x),
             x.target = LaunchTarget(t, m), x.state = task[t].state
      PROVE  Moves /\ (m # "manual" => x.target = scope)
  <2>1. /\ m # "manual" => x.target = scope
        /\ m = "manual" => x.target = task[t].target
    BY <1>m, TargetFacts
  <2>2. x.state \in Launched => x.target = scope
    BY <1>c, <1>m, <2>1 DEF LaunchStaysInScope, Launched
  <2> QED
    BY <1>m, <2>1, <2>2 DEF Moves
<1>1. CASE UNCHANGED vars
  BY <1>1 DEF vars, ExecInv, ScopeInv, AllowsMode, BacklogInv, First, LaunchStaysInScope, ExecutionHasBacklog
<1>2. ASSUME NEW p \in Requests, Advance(p) \/ GenerateTasks(p) PROVE ExecInv'
  <2>1. PICK r : Keeps(p, r) /\ r.at = "generate" /\ UNCHANGED <<item, artifact, review, task>>
    BY <1>2, BeginSteps
  <2> QED
    BY <1>c, <1>k, <2>1 DEF Moves
<1>3. ASSUME NEW p \in Requests, UpdateTaskMode(p) PROVE ExecInv'
  <2>1. PICK r : /\ Keeps(p, r) /\ r.at = "target" /\ AllowsMode(r.mode)
                 /\ \E t \in DOMAIN task, x \in TaskType :
                      Updated(t, x) /\ x.state = task[t].state /\ x.target = task[t].target
                 /\ UNCHANGED <<item, artifact, review>>
    BY <1>3, BeginSteps
  <2>2. Moves
    BY <1>s, <2>1
  <2> QED
    BY <1>c, <2>1, <2>2, ExecFrame
<1>4. ASSUME NEW p \in Requests, NEW by \in {"http", "telegram"}, Launch(p, by) PROVE ExecInv'
  <2>1. PICK r : Keeps(p, r) /\ r.at = "list" /\ UNCHANGED <<item, artifact, review, task>>
    BY <1>4, BeginSteps
  <2> QED
    BY <1>c, <1>k, <2>1 DEF Moves
<1>5. ASSUME NEW p \in Requests, NEW by \in {"http", "telegram"}, Cancel(p, by) PROVE ExecInv'
  <2>1. PICK r : /\ Keeps(p, r) /\ r.at \in {"none", "reconcile"}
                 /\ \E t \in DOMAIN task, x \in TaskType :
                      Updated(t, x) /\ x.state = "cancelled" /\ x.target = task[t].target
                 /\ UNCHANGED <<item, artifact, review>>
    BY <1>5, BeginSteps
  <2>2. Moves
    BY <2>1 DEF Moves, Launched
  <2> QED
    BY <1>c, <1>k, <2>1, <2>2
<1>6. ASSUME NEW p \in Requests, NEW by \in {"http", "telegram"}, NEW phase \in Phase, NEW yes \in BOOLEAN,
             Resolve(p, phase, yes, by)
      PROVE  ExecInv'
  <2>1. PICK r : Keeps(p, r) /\ r.at = "check" /\ UNCHANGED <<item, artifact, review, task>>
    BY <1>6, BeginSteps
  <2> QED
    BY <1>c, <1>k, <2>1 DEF Moves
<1>7. CASE Work
  <2>1. PICK r : Keeps(Worker, r) /\ r.at = "reconcile"
    BY <1>7, WorkSteps
  <2>2. PICK t \in DOMAIN task, x \in TaskType :
          Updated(t, x) /\ task[t].state = "queued" /\ x.target = task[t].target
    BY <1>7, WorkSteps
  <2>3. task[t].target = scope
    BY <1>c, <2>2 DEF LaunchStaysInScope, TaskState
  <2>4. Moves
    BY <2>2, <2>3 DEF Moves
  <2>5. UNCHANGED <<item, artifact>>
    BY <1>7, WorkSteps
  <2> QED
    BY <1>c, <1>k, <2>1, <2>4, <2>5
<1>8. ASSUME NEW p \in Procs, Persist(p) PROVE ExecInv'
  <2> DEFINE r == [req[p] EXCEPT !.at = "review", !.art = Len(artifact) + 1]
  <2>1. PICK a \in Generated(req[p].phase) :
          /\ artifact' = Append(artifact, a) /\ a \in ArtifactType /\ a.phase = req[p].phase
          /\ Keeps(p, r)
    BY <1>8, GenerationSteps
  <2>2. r.at = "review"
    BY <1>c DEF ReqType
  <2>3. a.phase = "plan" => a.tasks # <<>>
    <3>1. a.tasks \in GeneratedTasks(req[p].phase)
      BY DEF Generated
    <3> QED
      BY <2>1, <3>1, InitiativeAssumption DEF GeneratedTasks
  <2>4. UNCHANGED <<item, task>>
    BY <1>8 DEF Persist
  <2> HIDE DEF r
  <2> QED
    BY <2>1, <2>2, <2>3, <2>4, ExecFrame DEF Moves
<1>9. ASSUME NEW p \in Procs, RecordGenerated(p) PROVE ExecInv'
  <2> DEFINE r == [req[p] EXCEPT !.at = "activate"]
  <2>1. r.at = "activate" /\ Keeps(p, r)
    BY <1>9, <1>c, GenerationSteps DEF ReqType
  <2> HIDE DEF r
  <2> QED
    BY <1>9, <1>k, <2>1 DEF RecordGenerated, Moves
<1>10. ASSUME NEW p \in Procs, Activate(p) PROVE ExecInv'
  <2>1. UNCHANGED <<artifact, task>> /\ (item'.phase = "execution" => item.phase = "execution")
    <3>1. req[p].phase # "execution"
      BY <1>c DEF ReqType, Phase
    <3> QED
      BY <1>10, <3>1 DEF Activate
  <2>2. PICK r : Keeps(p, r) /\ r.at \in {"materialize", "record", "none"} /\ (r.at = "record" => r.phase # "plan")
    <3>1. CASE Keeps(p, Idle)
      BY <3>1, IdleFacts
    <3>2. CASE Keeps(p, [req[p] EXCEPT !.at = "materialize", !.todo = {}])
      <4> DEFINE r == [req[p] EXCEPT !.at = "materialize", !.todo = {}]
      <4>1. r.at = "materialize" /\ Keeps(p, r)
        BY <1>c, <3>2 DEF ReqType
      <4> HIDE DEF r
      <4> QED
        BY <4>1
    <3>3. CASE req[p].phase # "plan" /\ Keeps(p, [req[p] EXCEPT !.at = "record", !.yes = TRUE])
      <4> DEFINE r == [req[p] EXCEPT !.at = "record", !.yes = TRUE]
      <4>1. r.at = "record" /\ r.phase = req[p].phase /\ Keeps(p, r)
        BY <1>c, <3>3 DEF ReqType
      <4> HIDE DEF r
      <4> QED
        BY <3>3, <4>1
    <3> QED
      BY <1>10, <3>1, <3>2, <3>3, GenerationSteps
  <2> QED
    BY <2>1, <2>2, ExecFrame DEF Moves
<1>11. ASSUME NEW p \in Procs, Materialize(p) PROVE ExecInv'
  <2> DEFINE spec == artifact[req[p].art].tasks
             mine == {t \in DOMAIN task : task[t].plan = req[p].art}
             i == Cardinality(mine) + 1
  <2>1. UNCHANGED <<item, artifact>> /\ req[p].at = "materialize"
    BY <1>11 DEF Materialize, At
  <2>2. \/ task' = Append(task, NewTask(req[p].art, i, spec[i])) /\ UNCHANGED req
        \/ i > Len(spec) /\ UNCHANGED task
    BY <1>11, Zenon DEF Materialize
  <2>3. Moves
    <3> DEFINE x == NewTask(req[p].art, i, spec[i])
    <3>1. x.state = "created"
      BY DEF NewTask
    <3>2. UNCHANGED task \/ task' = Append(task, x)
      BY <2>2
    <3> HIDE DEF x
    <3> QED
      BY <3>1, <3>2 DEF Moves
  <2>4. CASE UNCHANGED req
    <3>1. PICK r : r = req[p]
      OBVIOUS
    <3>2. Keeps(p, r)
      BY <1>c, <1>11, <2>4, <3>1 DEF Keeps, Materialize, TypeOK
    <3> QED
      BY <1>k, <2>1, <2>3, <3>1, <3>2
  <2>5. CASE Keeps(p, Idle)
    BY <1>k, <2>1, <2>3, <2>5, IdleFacts
  <2>6. CASE i > Len(spec) /\ UNCHANGED task /\ Keeps(p, [req[p] EXCEPT !.at = "record", !.yes = TRUE])
    <3>1. req[p].art \in DOMAIN artifact /\ artifact[req[p].art].phase = "plan"
      BY <2>1 DEF RefInv
    <3>2. artifact[req[p].art] \in ArtifactType /\ spec # <<>>
      BY <3>1 DEF TypeOK, ExecInv, BacklogInv
    <3>3. spec \in Plans
      BY <3>2 DEF ArtifactType
    <3>4. Len(spec) \in Nat \ {0}
      <4> DEFINE Line == [mode : Mode, target : Target]
      <4>1. spec \in Seq(Line)
        BY <3>3, InitiativeAssumption
      <4> HIDE DEF spec, Line
      <4> QED
        BY <3>2, <4>1 DEF spec
    <3>5. task # <<>>
      <4> SUFFICES ASSUME task = <<>> PROVE FALSE
        OBVIOUS
      <4>1. mine = {}
        OBVIOUS
      <4>2. i = 1
        BY <4>1, FS_EmptySet
      <4> HIDE DEF i, spec
      <4> QED
        BY <2>6, <3>4, <4>2
    <3> DEFINE r == [req[p] EXCEPT !.at = "record", !.yes = TRUE]
    <3>6. Keeps(p, r) /\ r.at = "record"
      BY <1>c, <2>6 DEF ReqType
    <3> HIDE DEF r, i, spec
    <3> QED
      BY <2>1, <2>3, <3>5, <3>6, ExecFrame
  <2> HIDE DEF i, spec
  <2>7. CASE i > Len(spec) /\ UNCHANGED task
    BY <1>11, <2>4, <2>5, <2>6, <2>7, GenerationSteps
  <2> QED
    BY <2>2, <2>4, <2>7
<1>12. ASSUME NEW p \in Procs, ResolveCheck(p) PROVE ExecInv'
  <2>1. UNCHANGED <<item, artifact, task>>
    BY <1>12 DEF ResolveCheck
  <2>2. CASE Keeps(p, Idle)
    BY <1>k, <2>1, <2>2, IdleFacts DEF Moves
  <2>3. CASE ~Keeps(p, Idle)
    <3> DEFINE r == [req[p] EXCEPT !.at = "record",
                       !.art = IF req[p].by = "http" THEN LatestReviewArtifact(req[p].phase) ELSE @]
    <3>1. Keeps(p, r) /\ ~(req[p].yes /\ req[p].phase = "plan" /\ task = <<>>)
      BY <1>12, <2>3, DecisionSteps
    <3>2. r.at = "record" /\ r.phase = req[p].phase /\ r.yes = req[p].yes
      BY <1>c DEF ReqType
    <3> HIDE DEF r
    <3> QED
      BY <2>1, <3>1, <3>2, ExecFrame DEF Moves
  <2> QED
    BY <2>2, <2>3
<1>13. ASSUME NEW p \in Procs, ResolveRecord(p) PROVE ExecInv'
  <2> DEFINE r == [req[p] EXCEPT !.at = "write"]
  <2>1. Keeps(p, r) /\ UNCHANGED <<artifact, item, task>> /\ req[p].at = "record"
    BY <1>13, DecisionSteps DEF ResolveRecord, At
  <2>2. r.at = "write" /\ r.yes = req[p].yes /\ r.phase = req[p].phase
    BY <1>c DEF ReqType
  <2>3. r.yes /\ r.phase = "plan" => task # <<>>
    BY <2>1, <2>2 DEF ExecInv, BacklogInv
  <2> HIDE DEF r
  <2> QED
    BY <2>1, <2>2, <2>3, ExecFrame DEF Moves
<1>14. ASSUME NEW p \in Procs, ResolveWrite(p) PROVE ExecInv'
  <2>1. UNCHANGED <<artifact, task>> /\ req[p].at = "write"
    BY <1>14 DEF ResolveWrite, At
  <2>2. item'.phase = "execution" => task # <<>>
    <3>1. item'.phase = IF req[p].yes THEN NextPhase(req[p].phase) ELSE req[p].phase
      BY <1>14 DEF ResolveWrite, TypeOK, ItemType
    <3>2. req[p].phase \in Phase
      BY <1>c DEF ReqType
    <3>3. item'.phase = "execution" => req[p].yes /\ req[p].phase = "plan"
      BY <3>1, <3>2 DEF NextPhase, Phase
    <3> QED
      BY <2>1, <3>3 DEF ExecInv, BacklogInv
  <2>3. PICK r : Keeps(p, r) /\ r.at \in {"none", "list", "generate"}
    <3>1. CASE Keeps(p, Idle)
      BY <3>1, IdleFacts
    <3>2. CASE Keeps(p, [req[p] EXCEPT !.at = "list"])
      <4> DEFINE r == [req[p] EXCEPT !.at = "list"]
      <4>1. r.at = "list" /\ Keeps(p, r)
        BY <1>c, <3>2 DEF ReqType
      <4> HIDE DEF r
      <4> QED
        BY <4>1
    <3>3. ASSUME NEW next \in Phase, Keeps(p, [req[p] EXCEPT !.at = "generate", !.phase = next])
          PROVE  \E r : Keeps(p, r) /\ r.at \in {"none", "list", "generate"}
      <4> DEFINE r == [req[p] EXCEPT !.at = "generate", !.phase = next]
      <4>1. r.at = "generate" /\ Keeps(p, r)
        BY <1>c, <3>3 DEF ReqType
      <4> HIDE DEF r
      <4> QED
        BY <4>1
    <3> QED
      BY <1>14, <3>1, <3>2, <3>3, DecisionSteps
  <2> QED
    BY <2>1, <2>2, <2>3, ExecFrame DEF Moves
<1>15. ASSUME NEW p \in Procs, LaunchList(p) PROVE ExecInv'
  <2>1. PICK S \in SUBSET (DOMAIN task) :
          Keeps(p, [req[p] EXCEPT !.at = "mode", !.todo = {<<t, task[t].mode>> : t \in S}])
    BY <1>15, LaunchSteps
  <2> DEFINE r == [req[p] EXCEPT !.at = "mode", !.todo = {<<t, task[t].mode>> : t \in S}]
  <2>2. r.at = "mode" /\ Keeps(p, r)
    BY <1>c, <2>1 DEF ReqType
  <2> HIDE DEF r
  <2> QED
    BY <1>15, <1>k, <2>2 DEF LaunchList, Moves
<1>16. ASSUME NEW p \in Procs, LaunchMode(p) PROVE ExecInv'
  <2>1. UNCHANGED <<item, artifact>>
    BY <1>16 DEF LaunchMode
  <2>2. CASE Keeps(p, Idle) /\ UNCHANGED task
    BY <1>k, <2>1, <2>2, IdleFacts DEF Moves
  <2>3. ASSUME NEW l \in req[p].todo, NEW m \in Mode, NEW x \in TaskType, AllowsMode(m), Updated(l[1], x),
               x.target = task[l[1]].target, x.state = task[l[1]].state,
               Keeps(p, [req[p] EXCEPT !.at = "target", !.mode = m])
        PROVE  ExecInv'
    <3>1. Moves
      BY <1>c, <1>s, <2>3
    <3> DEFINE r == [req[p] EXCEPT !.at = "target", !.mode = m]
    <3>2. r.at = "target" /\ r.mode = m /\ Keeps(p, r)
      BY <1>c, <2>3 DEF ReqType
    <3> HIDE DEF r
    <3> QED
      BY <2>1, <2>3, <3>1, <3>2, ExecFrame
  <2> QED
    BY <1>16, <2>2, <2>3, LaunchSteps
<1>23. ASSUME NEW p \in Procs, SetTarget(p) PROVE ExecInv'
  <2>1. UNCHANGED <<item, artifact>> /\ req[p].at = "target" /\ req[p].todo # {}
    BY <1>23 DEF SetTarget, At, RefInv
  <2>2. AllowsMode(req[p].mode) /\ req[p].mode \in Mode
    BY <1>c, <2>1 DEF ExecInv, ScopeInv, ReqType
  <2>3. PICK l \in req[p].todo, x \in TaskType, r \in ReqType :
          /\ l = NextListed(req[p].todo) /\ Updated(l[1], x)
          /\ x.target = LaunchTarget(l[1], req[p].mode) /\ x.state = task[l[1]].state
          /\ Keeps(p, r) /\ Targeted(p, r)
    BY <1>23, <2>1, LaunchSteps
  <2>4. l[1] \in DOMAIN task
    BY <1>c
  <2>5. Moves /\ (req[p].mode # "manual" => x.target = scope)
    BY <1>m, <2>2, <2>3, <2>4
  <2>6. CASE r.at \in {"mode", "reconcile"}
    BY <1>k, <2>1, <2>3, <2>5, <2>6
  <2>7. CASE r.at = "queue" /\ r.todo = req[p].todo /\ req[p].mode # "manual"
    <3>1. task'[l[1]].target = scope
      BY <2>3, <2>5, <2>7, UpdateFacts
    <3>2. First(l, req[p].todo)
      BY <1>c, <2>1, <2>3, FirstListed
    <3> QED
      BY <2>1, <2>3, <2>5, <2>7, <3>1, <3>2, ExecFrame
  <2> QED
    BY <2>3, <2>6, <2>7 DEF Targeted
<1>17. ASSUME NEW p \in Procs, LaunchQueue(p) PROVE ExecInv'
  <2>1. UNCHANGED <<item, artifact>> /\ req[p].at = "queue" /\ req[p].todo # {}
    BY <1>17 DEF LaunchQueue, At, RefInv
  <2>2. CASE Keeps(p, Idle) /\ UNCHANGED task
    BY <1>k, <2>1, <2>2, IdleFacts DEF Moves
  <2>3. ASSUME NEW l \in req[p].todo, NEW x \in TaskType, l = NextListed(req[p].todo), Updated(l[1], x),
               x.target = task[l[1]].target, Keeps(p, [req[p] EXCEPT !.at = "mode", !.todo = @ \ {l}])
        PROVE  ExecInv'
    <3>1. x.target = scope
      BY <1>q, <2>1, <2>3
    <3>2. Moves
      BY <2>3, <3>1 DEF Moves
    <3> DEFINE r == [req[p] EXCEPT !.at = "mode", !.todo = @ \ {l}]
    <3>3. r.at = "mode" /\ Keeps(p, r)
      BY <1>c, <2>3 DEF ReqType
    <3> HIDE DEF r
    <3> QED
      BY <1>k, <2>1, <3>2, <3>3
  <2> QED
    BY <1>17, <2>1, <2>2, <2>3, LaunchSteps
<1>18. ASSUME NEW p \in Procs, EnqueueFails(p) PROVE ExecInv'
  <2>1. UNCHANGED <<item, artifact>> /\ req[p].at = "queue" /\ req[p].todo # {}
    BY <1>18 DEF EnqueueFails, At, RefInv
  <2>2. Keeps(p, Idle)
    BY <1>18, <2>1, LaunchSteps
  <2>3. PICK l \in req[p].todo, x \in TaskType :
          l = NextListed(req[p].todo) /\ Updated(l[1], x) /\ x.target = task[l[1]].target
    BY <1>18, <2>1, LaunchSteps
  <2>4. x.target = scope
    BY <1>q, <2>1, <2>3
  <2>5. Moves
    BY <2>3, <2>4 DEF Moves
  <2> QED
    BY <1>k, <2>1, <2>2, <2>5, IdleFacts
<1>19. ASSUME NEW p \in Procs, LaunchDone(p) PROVE ExecInv'
  <2> DEFINE r == [req[p] EXCEPT !.at = "reconcile"]
  <2>1. r.at = "reconcile" /\ Keeps(p, r)
    BY <1>19, <1>c, LaunchSteps DEF ReqType
  <2> HIDE DEF r
  <2> QED
    BY <1>19, <1>k, <2>1 DEF LaunchDone, Moves
<1>20. ASSUME NEW p \in Procs, ReconcileRead(p) PROVE ExecInv'
  <2>1. UNCHANGED <<item, artifact, task>>
    BY <1>20 DEF ReconcileRead
  <2>2. CASE Keeps(p, Idle)
    BY <1>k, <2>1, <2>2, IdleFacts DEF Moves
  <2> DEFINE r == [req[p] EXCEPT !.at = "derived", !.derived = DeriveStatus]
  <2>3. CASE task # <<>> /\ Keeps(p, r)
    <3>1. r.at = "derived"
      BY <1>c DEF ReqType
    <3> HIDE DEF r
    <3> QED
      BY <2>1, <2>3, <3>1, ExecFrame DEF Moves
  <2> QED
    BY <1>20, <2>2, <2>3, ReconcileSteps
<1>21. ASSUME NEW p \in Procs, ReconcileWrite(p) PROVE ExecInv'
  <2>1. UNCHANGED <<artifact, task>> /\ req[p].at = "derived" /\ Keeps(p, Idle)
    BY <1>21, ReconcileSteps DEF ReconcileWrite, At
  <2>2. task # <<>>
    BY <2>1 DEF ExecInv, BacklogInv
  <2> QED
    BY <2>1, <2>2, IdleFacts, ExecFrame DEF Moves
<1>22. ASSUME NEW p \in Procs, Fail(p) PROVE ExecInv'
  BY <1>22, <1>k, IdleFacts, ReconcileSteps DEF Fail, Moves
<1> QED
  BY <1>1, <1>2, <1>3, <1>4, <1>5, <1>6, <1>7, <1>8, <1>9, <1>10, <1>11, <1>12, <1>13, <1>14, <1>15, <1>16,
     <1>17, <1>18, <1>19, <1>20, <1>21, <1>22, <1>23 DEF Next, Step

\* Where a history begins in execution the plan has its tasks, all to launch.
LEMMA ExecInit == Init => ExecInv
<1> SUFFICES ASSUME Init PROVE ExecInv
  OBVIOUS
<1>1. PICK start \in DOMAIN Budgets : InitAt(start, ApprovedAt(start))
  BY DEF Init
<1> DEFINE n == ApprovedAt(start)
<1>2. n \in 0 .. 3
  BY DEF ApprovedAt
<1>s. InitAt(start, n)
  BY <1>1
<1> HIDE DEF n
<1>3. PICK plan \in Plans :
        /\ artifact = IF n < 3 THEN Rows(n) ELSE [Rows(3) EXCEPT ![3].tasks = plan]
        /\ task = IF n < 3 THEN <<>> ELSE [i \in DOMAIN plan |-> NewTask(3, i, plan[i])]
  BY <1>s, Zenon DEF InitAt
<1>4. item = [status |-> <<"idea_submitted", "design_draft", "plan_draft", "execution_ready">>[n + 1],
              phase  |-> <<"requirements", "design", "plan", "execution">>[n + 1],
              active |-> ActiveUpTo(n)]
  BY <1>s, Zenon DEF InitAt
<1>5. req = [p \in Procs |-> IF p = AutoRun /\ start = "autonomous" THEN AutoStart ELSE Idle]
  BY <1>s, Zenon DEF InitAt
<1>6. \A p \in Procs : req[p].at \in {"none", "generate"}
  BY <1>5 DEF Idle, AutoStart
<1>7. plan # <<>> /\ DOMAIN plan # {}
  <2> DEFINE Line == [mode : Mode, target : Target]
  <2>1. plan \in Seq(Line) /\ plan # <<>>
    BY InitiativeAssumption
  <2> HIDE DEF Line
  <2>2. Len(plan) \in Nat /\ Len(plan) # 0 /\ DOMAIN plan = 1 .. Len(plan)
    BY <2>1
  <2>3. 1 \in DOMAIN plan
    BY <2>2
  <2> QED
    BY <2>1, <2>3
<1>8. \A t \in DOMAIN task : task[t].state = "created"
  BY <1>3 DEF NewTask
<1>9. item.phase = "execution" => task # <<>>
  <2>1. item.phase = "execution" => n = 3
    BY <1>2, <1>4
  <2>2. n = 3 => DOMAIN task # {}
    BY <1>3, <1>7
  <2> QED
    BY <2>1, <2>2
<1>10. \A a \in DOMAIN artifact : artifact[a].phase = "plan" => artifact[a].tasks # <<>>
  <2>1. CASE n < 3
    BY <1>2, <1>3, <2>1 DEF Rows
  <2>2. CASE n = 3
    <3>1. artifact = [Rows(3) EXCEPT ![3].tasks = plan]
      BY <1>3, <2>2
    <3>2. /\ DOMAIN Rows(3) = 1 .. 3
          /\ Rows(3)[1] = [phase |-> "requirements", valid |-> TRUE, tasks |-> <<>>]
          /\ Rows(3)[2] = [phase |-> "design", valid |-> TRUE, tasks |-> <<>>]
          /\ Rows(3)[3] = [phase |-> "plan", valid |-> TRUE, tasks |-> <<>>]
      <4> DEFINE names == <<"requirements", "design", "plan">>
      <4>1. /\ DOMAIN Rows(3) = 1 .. 3
            /\ \A i \in 1 .. 3 : Rows(3)[i] = [phase |-> names[i], valid |-> TRUE, tasks |-> <<>>]
        BY DEF Rows
      <4>2. names[1] = "requirements" /\ names[2] = "design" /\ names[3] = "plan"
        OBVIOUS
      <4>3. 1 \in 1 .. 3 /\ 2 \in 1 .. 3 /\ 3 \in 1 .. 3
        OBVIOUS
      <4> HIDE DEF names
      <4> QED
        BY <4>1, <4>2, <4>3, Zenon
    <3>3. \A a \in 1 .. 3 : a = 1 \/ a = 2 \/ a = 3
      OBVIOUS
    <3>4. DOMAIN artifact = 1 .. 3 /\ artifact[1].phase # "plan" /\ artifact[2].phase # "plan" /\ artifact[3].tasks = plan
      BY <3>1, <3>2
    <3> QED
      BY <1>7, <3>3, <3>4
  <2> QED
    BY <1>2, <2>1, <2>2
<1> QED
  BY <1>6, <1>8, <1>9, <1>10 DEF ExecInv, ScopeInv, BacklogInv, LaunchStaysInScope, ExecutionHasBacklog

\* The inductive invariant of execution.
LEMMA ExecHolds == Spec => [](TypeOK /\ RefInv /\ ExecInv)
  BY TypeInit, TypeStep, ExecInit, ExecStep, PTL DEF Spec

\* Work runs where the workspace is: whatever target the plan names and
\* whatever modes overlapping requests set, a launched task has the target of
\* the policy.
THEOREM ScopeSafe == Spec => []LaunchStaysInScope
<1>1. ExecInv => LaunchStaysInScope
  BY DEF ExecInv
<1> QED
  BY <1>1, ExecHolds, PTL

\* No initiative is in execution without tasks, although reconciliation writes
\* that phase without a look at the one it replaces.
THEOREM BacklogSafe == Spec => []ExecutionHasBacklog
<1>1. ExecInv => ExecutionHasBacklog
  BY DEF ExecInv
<1> QED
  BY <1>1, ExecHolds, PTL
============================================================================
