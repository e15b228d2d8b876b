------------------------- MODULE ObjectiveRunProofs -------------------------
(***************************************************************************)
(* Proofs about ObjectiveRun for any number of daemons, operators, cycles, *)
(* faults and any plans, and about ObjectivePlanning and ObjectiveScope    *)
(* for any workspace, goal, retrieved context and number of repairs.       *)
(***************************************************************************)
EXTENDS ObjectiveRun, ObjectiveScope, SequenceTheorems, FiniteSetTheorems, NaturalsInduction, TLAPS

(***************************************************************************)
(* Where a process may stand.                                              *)
(***************************************************************************)
\* Where a handler goes on after ReconcileInitiativeExecution: the deadline
\* path of queueReadyObjectiveTasks puts its loop on top of what was there.
Bare   == {<<"idle">>, <<"read", "idle">>}
Stacks == Bare \union {<<"loop">>, <<"queue", "idle">>, <<"queue", "read", "idle">>}

Stacked(l, s) ==
  /\ l \in {"idle", "loop", "run"} => s = <<>>
  /\ l \in {"stop", "repair", "cancel", "create", "list", "queue"} => s \in Bare
  /\ l \in {"read", "write"} => s \in Stacks

\* A row of a cycle that exists.
Known(r) == r \in Row /\ r[1] \in DOMAIN cyc

\* Every dependency of the item has a completed row.
DepsDone(r) == \A n \in Deps(r) : \E s \in WithId(Iter(r), n) : row[s] = "completed"

\* The listing of queueReadyObjectiveTasks is in use, or will be after the
\* reconciliation of an item failed over the budget.
Listing(l, s) ==
  l = "queue" \/ (l \in {"read", "write"} /\ s \in {<<"queue", "idle">>, <<"queue", "read", "idle">>})

CtlInv ==
  /\ \A p \in Procs :
       /\ Stacked(pc[p], ret[p])
       /\ pc[p] \in {"run", "stop", "repair", "cancel"} => Known(at[p])
       /\ pc[p] \in {"repair", "cancel"} => Iter(at[p]) < MaxIterations
       /\ pc[p] = "create" => \A r \in todo[p] : Known(r) /\ row[r] = "absent"
  /\ \A p, q \in Procs : p # q /\ pc[p] = "create" /\ pc[q] = "create" => todo[p] \intersect todo[q] = {}

\* What a handler has listed stays ready, and what was started was ready.
DepInv ==
  /\ \A p \in Procs : Listing(pc[p], ret[p]) => \A r \in todo[p] : Known(r) /\ DepsDone(r)
  /\ DependenciesFirst

(***************************************************************************)
(* The frame of a step.                                                    *)
(***************************************************************************)
Control(p, l, a, t, s) ==
  /\ pc' = [pc EXCEPT ![p] = l] /\ at' = [at EXCEPT ![p] = a]
  /\ todo' = [todo EXCEPT ![p] = t] /\ ret' = [ret EXCEPT ![p] = s]

\* Cycles are never changed or removed.
Grows == \A c \in DOMAIN cyc : c \in DOMAIN cyc' /\ cyc'[c] = cyc[c]

\* How a row may change: completed is final, rows are never deleted, p creates
\* only what it has to create, and starts only what is ready.
RowMove(p) ==
  /\ row' \in [Row -> TaskState \union {"absent"}]
  /\ \A r \in Row : row'[r] # row[r] =>
       /\ row[r] # "completed" /\ row'[r] # "absent"
       /\ row[r] = "absent" => pc[p] = "create" /\ r \in todo[p] /\ row'[r] = "created"
       /\ row'[r] \notin {"created", "cancelled"} => DepsDone(r)

\* What the process has to have where it goes.
Good(p, l, a, t, s) ==
  /\ l \in PC /\ a \in Row \union {NoRow} /\ t \in SUBSET Row
  /\ Stacked(l, s)
  /\ l \in {"run", "stop", "repair", "cancel"} => Known(a)
  /\ l \in {"repair", "cancel"} => Iter(a) < MaxIterations
  /\ Listing(l, s) => \A r \in t : Known(r) /\ DepsDone(r)
  /\ l = "create" => \A r \in t : /\ r[1] \in DOMAIN cyc' /\ row'[r] = "absent"
                                  /\ \A q \in Procs \ {p} : pc[q] = "create" => r \notin todo[q]

\* The stack of a place is one of places.
LEMMA StackType ==
  ASSUME NEW l \in PC, NEW s, Stacked(l, s)
  PROVE  s \in Seq(PC)
<1>1. s \in Stacks \union {<<>>}
  BY DEF Stacked, PC, Stacks
<1>2. "idle" \in PC /\ "read" \in PC /\ "loop" \in PC /\ "queue" \in PC
  BY DEF PC
<1>3. /\ <<>> \in Seq(PC) /\ <<"idle">> \in Seq(PC) /\ <<"read", "idle">> \in Seq(PC) /\ <<"loop">> \in Seq(PC)
      /\ <<"queue", "idle">> \in Seq(PC) /\ <<"queue", "read", "idle">> \in Seq(PC)
  BY <1>2
<1> QED
  BY <1>1, <1>3 DEF Stacks, Bare

\* The places put on the stack and taken off it.
LEMMA PushQueue ==
  /\ <<"queue">> \o <<"idle">> = <<"queue", "idle">>
  /\ <<"queue">> \o <<"read", "idle">> = <<"queue", "read", "idle">>
<1>1. "idle" \in PC /\ "read" \in PC /\ "queue" \in PC
  BY DEF PC
<1>2. /\ <<"queue">> \in Seq(PC) /\ <<"idle">> \in Seq(PC) /\ <<"read", "idle">> \in Seq(PC)
      /\ <<"queue", "idle">> \in Seq(PC) /\ <<"queue", "read", "idle">> \in Seq(PC)
  BY <1>1
<1>3. <<"queue">> \o <<"idle">> = <<"queue", "idle">>
  <2>1. PICK u : u = <<"queue">> \o <<"idle">>
    OBVIOUS
  <2>2. PICK v : v = <<"queue", "idle">>
    OBVIOUS
  <2>3. u \in Seq(PC) /\ Len(u) = 2 /\ u[1] = "queue" /\ u[2] = "idle"
    BY <1>2, <2>1, ConcatProperties
  <2>4. v \in Seq(PC) /\ Len(v) = 2 /\ v[1] = "queue" /\ v[2] = "idle"
    BY <1>2, <2>2
  <2>5. \A i \in 1..2 : u[i] = v[i]
    BY <2>3, <2>4
  <2> QED
    BY <2>1, <2>2, <2>3, <2>4, <2>5, SeqEqual
<1>4. <<"queue">> \o <<"read", "idle">> = <<"queue", "read", "idle">>
  <2>1. PICK u : u = <<"queue">> \o <<"read", "idle">>
    OBVIOUS
  <2>2. PICK v : v = <<"queue", "read", "idle">>
    OBVIOUS
  <2>3. u \in Seq(PC) /\ Len(u) = 3 /\ u[1] = "queue" /\ u[2] = "read" /\ u[3] = "idle"
    BY <1>2, <2>1, ConcatProperties
  <2>4. v \in Seq(PC) /\ Len(v) = 3 /\ v[1] = "queue" /\ v[2] = "read" /\ v[3] = "idle"
    BY <1>2, <2>2
  <2>5. \A i \in 1..3 : u[i] = v[i]
    BY <2>3, <2>4
  <2> QED
    BY <2>1, <2>2, <2>3, <2>4, <2>5, SeqEqual
<1> QED
  BY <1>3, <1>4

LEMMA Pop ==
  /\ Head(<<"idle">>) = "idle" /\ Tail(<<"idle">>) = <<>>
  /\ Head(<<"loop">>) = "loop" /\ Tail(<<"loop">>) = <<>>
  /\ Head(<<"read", "idle">>) = "read" /\ Tail(<<"read", "idle">>) = <<"idle">>
  /\ Head(<<"queue", "idle">>) = "queue" /\ Tail(<<"queue", "idle">>) = <<"idle">>
  /\ Head(<<"queue", "read", "idle">>) = "queue" /\ Tail(<<"queue", "read", "idle">>) = <<"read", "idle">>
  OBVIOUS

\* What is known of a row stays so.
LEMMA KnownStays ==
  ASSUME TypeOK, Grows, NEW r, Known(r)
  PROVE  /\ Known(r)' /\ cyc'[r[1]] = cyc[r[1]]
         /\ Iter(r)' = Iter(r) /\ Plan(r)' = Plan(r) /\ Deps(r)' = Deps(r)
<1>1. r \in Row /\ r[1] \in DOMAIN cyc' /\ cyc'[r[1]] = cyc[r[1]]
  BY DEF Known, Grows
<1>2. Iter(r)' = Iter(r) /\ Plan(r)' = Plan(r)
  BY <1>1 DEF Iter, Plan
<1>3. Deps(r)' = Deps(r)
  BY <1>2 DEF Deps
<1> QED
  BY <1>1, <1>2, <1>3 DEF Known

\* A completed dependency stays one.
LEMMA DoneStays ==
  ASSUME TypeOK, Grows, NEW p, RowMove(p), NEW r, Known(r), DepsDone(r)
  PROVE  DepsDone(r)'
<1>1. Deps(r)' = Deps(r) /\ Iter(r)' = Iter(r)
  BY KnownStays
<1>2. ASSUME NEW n, NEW s \in WithId(Iter(r), n), row[s] = "completed"
      PROVE  s \in WithId(Iter(r), n)' /\ row'[s] = "completed"
  <2>1. s \in Row /\ s[2] = n /\ Iter(s) = Iter(r) /\ s[1] \in DOMAIN cyc
    BY <1>2 DEF WithId, Present, TypeOK
  <2>2. row'[s] = "completed"
    BY <1>2, <2>1 DEF RowMove
  <2>3. Iter(s)' = Iter(s)
    BY <2>1, KnownStays DEF Known
  <2> QED
    BY <1>1, <2>1, <2>2, <2>3 DEF WithId, Present
<1>3. ASSUME NEW n \in Deps(r)' PROVE \E s \in WithId(Iter(r), n)' : row'[s] = "completed"
  <2>1. PICK s \in WithId(Iter(r), n) : row[s] = "completed"
    BY <1>1, <1>3 DEF DepsDone
  <2> QED
    BY <1>2, <2>1
<1> QED
  BY <1>3 DEF DepsDone

\* The other processes stay where they are.
LEMMA OneProcess ==
  ASSUME TypeOK, NEW p \in Procs, NEW l, NEW a, NEW t, NEW s, Control(p, l, a, t, s)
  PROVE  /\ pc'[p] = l /\ at'[p] = a /\ todo'[p] = t /\ ret'[p] = s
         /\ \A q \in Procs \ {p} : pc'[q] = pc[q] /\ at'[q] = at[q] /\ todo'[q] = todo[q] /\ ret'[q] = ret[q]
  BY DEF Control, TypeOK

\* A step of one process that goes to a good place keeps the invariants.
LEMMA Frame ==
  ASSUME TypeOK, CtlInv, DepInv, Grows, NEW p \in Procs, RowMove(p),
         NEW l, NEW a, NEW t, NEW s, Control(p, l, a, t, s), Good(p, l, a, t, s)
  PROVE  /\ CtlInv' /\ DepInv'
         /\ pc' \in [Procs -> PC] /\ at' \in [Procs -> Row \union {NoRow}]
         /\ todo' \in [Procs -> SUBSET Row] /\ ret' \in [Procs -> Seq(PC)]
         /\ row' \in [Row -> TaskState \union {"absent"}]
         /\ \A r \in Present' : r[1] \in DOMAIN cyc'
<1>1. /\ pc'[p] = l /\ at'[p] = a /\ todo'[p] = t /\ ret'[p] = s
      /\ \A q \in Procs \ {p} : pc'[q] = pc[q] /\ at'[q] = at[q] /\ todo'[q] = todo[q] /\ ret'[q] = ret[q]
  BY OneProcess
<1>2. /\ pc' \in [Procs -> PC] /\ at' \in [Procs -> Row \union {NoRow}]
      /\ todo' \in [Procs -> SUBSET Row] /\ ret' \in [Procs -> Seq(PC)]
  <2>1. s \in Seq(PC)
    BY StackType DEF Good
  <2> QED
    BY <2>1 DEF Control, Good, TypeOK
<1>3. \A r \in Present' : r[1] \in DOMAIN cyc'
  <2> SUFFICES ASSUME NEW r \in Row, row'[r] # "absent" PROVE r[1] \in DOMAIN cyc'
    BY DEF Present
  <2>1. CASE row[r] # "absent"
    BY <2>1 DEF TypeOK, Present, Grows
  <2>2. CASE row[r] = "absent"
    BY <2>2 DEF RowMove, CtlInv, Known, Grows
  <2> QED
    BY <2>1, <2>2
<1>4. ASSUME NEW q \in Procs
      PROVE  /\ Stacked(pc'[q], ret'[q])
             /\ pc'[q] \in {"run", "stop", "repair", "cancel"} => Known(at[q])'
             /\ pc'[q] \in {"repair", "cancel"} => Iter(at[q])' < MaxIterations
             /\ pc'[q] = "create" => \A r \in todo'[q] : Known(r)' /\ row'[r] = "absent"
  <2>1. CASE q = p
    <3>1. l \in {"run", "stop", "repair", "cancel"} => Known(a)' /\ Iter(a)' = Iter(a)
      BY KnownStays DEF Good
    <3>2. l \in {"run", "stop", "repair", "cancel"} => Known(at[q])' /\ Iter(at[q])' = Iter(a)
      BY <1>1, <2>1, <3>1 DEF Known, Iter
    <3>3. l = "create" => \A r \in t : Known(r)' /\ row'[r] = "absent"
      BY DEF Good, Known
    <3> QED
      BY <1>1, <2>1, <3>2, <3>3 DEF Good
  <2>2. CASE q # p
    <3>1. pc'[q] = pc[q] /\ at'[q] = at[q] /\ todo'[q] = todo[q] /\ ret'[q] = ret[q]
      BY <1>1, <2>2
    <3>2. PICK b : b = at[q]
      OBVIOUS
    <3>3. Known(b) => Known(b)' /\ Iter(b)' = Iter(b)
      BY KnownStays
    <3>4. Known(at[q]) => Known(at[q])' /\ Iter(at[q])' = Iter(at[q])
      BY <3>1, <3>2, <3>3 DEF Known, Iter
    <3>5. pc[q] = "create" => \A r \in todo[q] : Known(r)' /\ row'[r] = "absent"
      <4> SUFFICES ASSUME pc[q] = "create", NEW r \in todo[q] PROVE Known(r)' /\ row'[r] = "absent"
        OBVIOUS
      <4>1. Known(r) /\ row[r] = "absent"
        BY DEF CtlInv
      <4>2. ~(pc[p] = "create" /\ r \in todo[p])
        BY <2>2 DEF CtlInv
      <4>3. row'[r] = "absent"
        BY <4>1, <4>2 DEF RowMove, Known
      <4> QED
        BY <4>1, <4>3, KnownStays
    <3> QED
      BY <3>1, <3>4, <3>5 DEF CtlInv
  <2> QED
    BY <2>1, <2>2
<1>5. ASSUME NEW q1 \in Procs, NEW q2 \in Procs, q1 # q2, pc'[q1] = "create", pc'[q2] = "create"
      PROVE  todo'[q1] \intersect todo'[q2] = {}
  <2>1. CASE q1 = p
    BY <1>1, <1>5, <2>1 DEF Good
  <2>2. CASE q2 = p
    BY <1>1, <1>5, <2>2 DEF Good
  <2>3. CASE q1 # p /\ q2 # p
    BY <1>1, <1>5, <2>3 DEF CtlInv
  <2> QED
    BY <2>1, <2>2, <2>3
<1>6. CtlInv'
  BY <1>4, <1>5 DEF CtlInv
<1>7. ASSUME NEW q \in Procs, Listing(pc'[q], ret'[q]), NEW r \in todo'[q]
      PROVE  Known(r)' /\ DepsDone(r)'
  <2>1. Known(r) /\ DepsDone(r)
    <3>1. CASE q = p
      BY <1>1, <1>7, <3>1 DEF Good
    <3>2. CASE q # p
      BY <1>1, <1>7, <3>2 DEF DepInv
    <3> QED
      BY <3>1, <3>2
  <2> QED
    BY <2>1, KnownStays, DoneStays
<1>8. DependenciesFirst'
  <2> SUFFICES ASSUME NEW r \in Row, row'[r] \notin {"absent", "created", "cancelled"} PROVE DepsDone(r)'
    BY DEF DependenciesFirst, DepsDone, Present
  <2>1. Known(r) /\ DepsDone(r)
    <3>1. CASE row'[r] = row[r]
      BY <3>1 DEF DepInv, DependenciesFirst, DepsDone, Present, Known, TypeOK
    <3>2. CASE row'[r] # row[r]
      BY <3>2 DEF RowMove, Known, TypeOK, Present
    <3> QED
      BY <3>1, <3>2
  <2> QED
    BY <2>1, DoneStays
<1>9. DepInv'
  BY <1>7, <1>8 DEF DepInv, Listing
<1> QED
  BY <1>2, <1>3, <1>6, <1>9 DEF RowMove

(***************************************************************************)
(* Types.                                                                  *)
(***************************************************************************)
\* The part of the type that is not about rows and processes.
RestType ==
  /\ deployed \in Deployments
  /\ cyc \in Seq([iter : 1..MaxIterations, plan : SUBSET Optional]) /\ Len(cyc) \in 1..MaxCycles
  /\ superseded \subseteq Row /\ approved \subseteq Row /\ accepted \subseteq Row
  /\ status \in Status
  /\ latest.iter \in 0..MaxIterations
  /\ expired \in BOOLEAN /\ stopped \in BOOLEAN
  /\ derived \in [Procs -> Status]
  /\ verdict \in {"none", "completed", "blocked", "error"}
  /\ faults \in 0..MaxFaults

Inv == TypeOK /\ CtlInv /\ DepInv

\* The frame, with the types of everything.
LEMMA StepFrame ==
  ASSUME Inv, Grows, NEW p \in Procs, RowMove(p), RestType',
         NEW l, NEW a, NEW t, NEW s, Control(p, l, a, t, s), Good(p, l, a, t, s)
  PROVE  Inv'
<1>1. /\ CtlInv' /\ DepInv'
      /\ pc' \in [Procs -> PC] /\ at' \in [Procs -> Row \union {NoRow}]
      /\ todo' \in [Procs -> SUBSET Row] /\ ret' \in [Procs -> Seq(PC)]
      /\ row' \in [Row -> TaskState \union {"absent"}]
      /\ \A r \in Present' : r[1] \in DOMAIN cyc'
  BY Frame DEF Inv
<1>2. TypeOK'
  BY <1>1 DEF TypeOK, RestType
<1> QED
  BY <1>1, <1>2 DEF Inv

LEMMA RestFacts == Inv => RestType
  BY DEF Inv, TypeOK, RestType

\* A row of a cycle has its iteration and plan.
LEMMA IterType ==
  ASSUME Inv, NEW r, Known(r)
  PROVE  Iter(r) \in 1..MaxIterations /\ Plan(r) \in SUBSET Optional
<1> DEFINE Cycle == [iter : 1..MaxIterations, plan : SUBSET Optional]
<1>1. cyc[r[1]] \in Cycle
  <2>1. cyc \in Seq(Cycle) /\ r[1] \in DOMAIN cyc
    BY DEF Inv, TypeOK, Known
  <2> HIDE DEF Cycle
  <2> QED
    BY <2>1
<1> QED
  BY <1>1 DEF Iter, Plan

\* The rows of a cycle.
LEMMA RowsType ==
  ASSUME NEW c \in 1..MaxCycles, NEW i, NEW f \in SUBSET Optional
  PROVE  RowsOf(c, i, f) \subseteq Row /\ \A r \in RowsOf(c, i, f) : r[1] = c
<1>1. Items(i, f) \subseteq Name
  BY DEF Items, First, Optional, Preparations, Workstreams, Name
<1> QED
  BY <1>1 DEF RowsOf, Row

\* A handler that gives up.
LEMMA AbortFacts ==
  ASSUME Inv, NEW p \in Procs, Abort(p)
  PROVE  /\ Control(p, "idle", NoRow, {}, <<>>) /\ Good(p, "idle", NoRow, {}, <<>>)
         /\ verdict' \in {"none", "completed", "blocked", "error"}
<1>1. Control(p, "idle", NoRow, {}, <<>>)
  BY DEF Abort, Goto, Control
<1>2. Good(p, "idle", NoRow, {}, <<>>)
  BY DEF Good, PC, Stacked, Listing
<1> QED
  BY <1>1, <1>2 DEF Abort, Inv, TypeOK

\* A step that leaves the rows alone, and one that sets one of them.
LEMMA RowFacts ==
  ASSUME Inv, NEW p \in Procs
  PROVE  /\ UNCHANGED row => RowMove(p)
         /\ \A r \in Row, x \in TaskState :
              /\ SetRow(r, x) /\ row[r] # "completed"
              /\ row[r] = "absent" => pc[p] = "create" /\ r \in todo[p] /\ x = "created"
              /\ x \notin {"created", "cancelled"} => DepsDone(r)
              => RowMove(p)
         /\ \A r \in Row : row[r] \notin {"absent", "created", "cancelled"} => Known(r) /\ DepsDone(r)
         /\ \A r \in Row : row[r] # "absent" => Known(r)
         /\ UNCHANGED cyc => Grows
<1>1. row \in [Row -> TaskState \union {"absent"}] /\ \A r \in Present : r[1] \in DOMAIN cyc
  BY DEF Inv, TypeOK
<1>2. UNCHANGED row => RowMove(p)
  BY <1>1 DEF RowMove
<1>3. ASSUME NEW r \in Row, NEW x \in TaskState, SetRow(r, x), row[r] # "completed",
             row[r] = "absent" => pc[p] = "create" /\ r \in todo[p] /\ x = "created",
             x \notin {"created", "cancelled"} => DepsDone(r)
      PROVE  RowMove(p)
  <2>1. row' = [row EXCEPT ![r] = x] /\ x # "absent"
    BY <1>3 DEF SetRow, TaskState
  <2>2. row' \in [Row -> TaskState \union {"absent"}] /\ row'[r] = x /\ \A u \in Row \ {r} : row'[u] = row[u]
    BY <1>1, <2>1
  <2> QED
    BY <1>3, <2>1, <2>2 DEF RowMove
<1>4. \A r \in Row : row[r] # "absent" => Known(r)
  BY <1>1 DEF Known, Present
<1>5. \A r \in Row : row[r] \notin {"absent", "created", "cancelled"} => DepsDone(r)
  BY <1>1 DEF Inv, DepInv, DependenciesFirst, DepsDone, Present
<1> QED
  BY <1>2, <1>3, <1>4, <1>5 DEF Grows

(***************************************************************************)
(* The steps.                                                              *)
(***************************************************************************)
LEMMA ListSteps ==
  ASSUME Inv, NEW p \in Procs, MaterializeItem(p) \/ ListReady(p) \/ QueueItem(p) \/ FailOverBudget(p) \/ QueueDone(p)
  PROVE  Inv'
<1>t. /\ pc[p] \in PC /\ at[p] \in Row \union {NoRow} /\ todo[p] \in SUBSET Row /\ Stacked(pc[p], ret[p])
      /\ pc \in [Procs -> PC] /\ at \in [Procs -> Row \union {NoRow}] /\ todo \in [Procs -> SUBSET Row]
      /\ ret \in [Procs -> Seq(PC)] /\ row \in [Row -> TaskState \union {"absent"}]
  BY DEF Inv, TypeOK, CtlInv
<1>1. CASE MaterializeItem(p)
  <2>1. PICK r \in todo[p] :
          /\ SetRow(r, "created") /\ todo' = [todo EXCEPT ![p] = @ \ {r}]
          /\ Goto(p, IF todo[p] = {r} THEN "list" ELSE "create")
    BY <1>1 DEF MaterializeItem
  <2>2. pc[p] = "create" /\ Known(r) /\ row[r] = "absent" /\ UNCHANGED <<cyc, at, ret>>
    BY <1>1 DEF MaterializeItem, Inv, CtlInv
  <2>3. RowMove(p)
    <3>1. "created" \in TaskState
      BY DEF TaskState
    <3> QED
      BY <2>1, <2>2, <3>1, RowFacts DEF Known
  <2>4. Grows /\ RestType'
    BY <1>1, RestFacts, RowFacts DEF MaterializeItem, RestType
  <2> DEFINE l == IF todo[p] = {r} THEN "list" ELSE "create"
             t == todo[p] \ {r}
  <2>5. Control(p, l, at[p], t, ret[p])
    BY <1>t, <2>1, <2>2 DEF Control, Goto
  <2>6. \A u \in t : u[1] \in DOMAIN cyc' /\ row'[u] = "absent" /\ \A q \in Procs \ {p} : pc[q] = "create" => u \notin todo[q]
    <3>1. \A u \in todo[p] : Known(u) /\ row[u] = "absent"
      BY <2>2 DEF Inv, CtlInv
    <3>2. \A u \in todo[p] : \A q \in Procs \ {p} : pc[q] = "create" => u \notin todo[q]
      BY <2>2 DEF Inv, CtlInv
    <3>3. \A u \in t : row'[u] = row[u]
      BY <1>t, <2>1 DEF SetRow
    <3> QED
      BY <2>2, <3>1, <3>2, <3>3 DEF Known
  <2>7. Good(p, l, at[p], t, ret[p])
    <3>1. l \in {"list", "create"} /\ ret[p] \in Bare
      BY <1>t, <2>2 DEF Stacked
    <3> HIDE DEF l
    <3> QED
      BY <1>t, <2>6, <3>1 DEF Good, Stacked, Listing, PC
  <2> QED
    BY <2>3, <2>4, <2>5, <2>7, StepFrame
<1>2. CASE ListReady(p)
  <2> DEFINE t == {r \in Present : row[r] = "created" /\ DependenciesSatisfied(r)}
  <2>1. Control(p, "queue", at[p], t, ret[p])
    BY <1>t, <1>2 DEF Control, Goto, ListReady
  <2>2. Grows /\ RowMove(p) /\ RestType'
    BY <1>2, RestFacts, RowFacts DEF ListReady, RestType
  <2>3. \A r \in t : r \in Row /\ Known(r) /\ DepsDone(r)
    <3> SUFFICES ASSUME NEW r \in t PROVE r \in Row /\ Known(r) /\ DepsDone(r)
      OBVIOUS
    <3>1. r \in Row /\ Known(r)
      BY RowFacts DEF Present
    <3>2. DepsDone(r)
      BY DEF DependenciesSatisfied, DependencySatisfied, DepsDone
    <3> QED
      BY <3>1, <3>2
  <2>4. ret[p] \in Bare
    BY <1>2, <1>t DEF ListReady, Stacked
  <2> HIDE DEF t
  <2>5. Good(p, "queue", at[p], t, ret[p])
    BY <1>t, <2>3, <2>4 DEF Good, Stacked, Listing, PC
  <2> QED
    BY <2>1, <2>2, <2>5, StepFrame
<1>q. ASSUME pc[p] = "queue" PROVE ret[p] \in Bare /\ \A r \in todo[p] : Known(r) /\ DepsDone(r)
  BY <1>q, <1>t DEF Inv, DepInv, Listing, Stacked
<1>3. CASE QueueItem(p)
  <2>1. PICK r \in todo[p] :
          IF row[r] \in LaunchableFrom
            THEN /\ SetRow(r, "queued") /\ todo' = [todo EXCEPT ![p] = @ \ {r}]
                 /\ UNCHANGED <<pc, at, ret, verdict>>
            ELSE Abort(p) /\ UNCHANGED row
    BY <1>3 DEF QueueItem
  <2>2. pc[p] = "queue" /\ ret[p] \in Bare /\ \A u \in todo[p] : Known(u) /\ DepsDone(u)
    BY <1>3, <1>q DEF QueueItem
  <2>g. UNCHANGED <<deployed, cyc, superseded, approved, accepted, status, latest, expired, stopped, derived, faults>>
    BY <1>3 DEF QueueItem
  <2>3. CASE row[r] \in LaunchableFrom
    <3>1. Control(p, "queue", at[p], todo[p] \ {r}, ret[p])
      BY <1>t, <2>1, <2>2, <2>3 DEF Control
    <3>2. RowMove(p)
      <4>1. "queued" \in TaskState /\ row[r] \notin {"absent", "completed"}
        BY <2>3 DEF TaskState, LaunchableFrom
      <4> QED
        BY <1>t, <2>1, <2>2, <2>3, <4>1, RowFacts DEF Known
    <3>3. Grows /\ RestType'
      BY <2>1, <2>3, <2>g, RestFacts, RowFacts DEF RestType
    <3>4. Good(p, "queue", at[p], todo[p] \ {r}, ret[p])
      BY <1>t, <2>2 DEF Good, Stacked, Listing, PC
    <3> QED
      BY <3>1, <3>2, <3>3, <3>4, StepFrame
  <2>4. CASE row[r] \notin LaunchableFrom
    <3>1. Abort(p) /\ UNCHANGED row
      BY <2>1, <2>4
    <3>2. Grows /\ RowMove(p) /\ RestType'
      BY <2>g, <3>1, AbortFacts, RestFacts, RowFacts DEF RestType
    <3> QED
      BY <3>1, <3>2, AbortFacts, StepFrame
  <2> QED
    BY <2>3, <2>4
<1>4. CASE FailOverBudget(p)
  <2>1. PICK r \in todo[p] :
          IF IsValidTransition(row[r], "failed")
            THEN /\ SetRow(r, "failed") /\ Show(StopSnapshot(r))
                 /\ todo' = [todo EXCEPT ![p] = @ \ {r}] /\ Goto(p, "read")
                 /\ ret' = [ret EXCEPT ![p] = <<"queue">> \o @]
                 /\ UNCHANGED <<at, verdict>>
            ELSE Abort(p) /\ UNCHANGED <<row, latest>>
    BY <1>4 DEF FailOverBudget
  <2>2. pc[p] = "queue" /\ ret[p] \in Bare /\ \A u \in todo[p] : Known(u) /\ DepsDone(u)
    BY <1>4, <1>q DEF FailOverBudget
  <2>g. UNCHANGED <<deployed, cyc, superseded, approved, accepted, status, expired, stopped, derived, faults>>
    BY <1>4 DEF FailOverBudget
  <2>3. CASE IsValidTransition(row[r], "failed")
    <3> DEFINE s == <<"queue">> \o ret[p]
    <3>1. Control(p, "read", at[p], todo[p] \ {r}, s)
      BY <1>t, <2>1, <2>3 DEF Control, Goto
    <3>2. RowMove(p)
      <4>1. "failed" \in TaskState /\ row[r] \notin {"absent", "completed"}
        BY <2>3 DEF TaskState, IsValidTransition, ValidTransitions
      <4> QED
        BY <1>t, <2>1, <2>2, <2>3, <4>1, RowFacts DEF Known
    <3>3. latest'.iter \in 0..MaxIterations
      <4>1. Iter(r) \in 1..MaxIterations
        BY <2>2, IterType
      <4>2. StopSnapshot(r).iter \in 0..MaxIterations
        BY <4>1, ObjectiveAssumption DEF StopSnapshot
      <4> QED
        BY <2>1, <2>3, <4>2, RestFacts DEF Show, RestType
    <3>4. Grows /\ RestType'
      BY <2>1, <2>3, <2>g, <3>3, RestFacts, RowFacts DEF RestType
    <3>5. s \in {<<"queue", "idle">>, <<"queue", "read", "idle">>}
      BY <2>2, PushQueue DEF Bare
    <3> HIDE DEF s
    <3>6. Good(p, "read", at[p], todo[p] \ {r}, s)
      BY <1>t, <2>2, <3>5 DEF Good, Stacked, Stacks, Listing, PC
    <3> QED
      BY <3>1, <3>2, <3>4, <3>6, StepFrame
  <2>4. CASE ~IsValidTransition(row[r], "failed")
    <3>1. Abort(p) /\ UNCHANGED <<row, latest>>
      BY <2>1, <2>4
    <3>2. Grows /\ RowMove(p) /\ RestType'
      BY <2>g, <3>1, AbortFacts, RestFacts, RowFacts DEF RestType
    <3> QED
      BY <3>1, <3>2, AbortFacts, StepFrame
  <2> QED
    BY <2>3, <2>4
<1>5. CASE QueueDone(p)
  <2>1. Control(p, "read", at[p], todo[p], ret[p]) /\ ret[p] \in Bare
    BY <1>5, <1>q, <1>t DEF Control, Goto, QueueDone
  <2>2. Grows /\ RowMove(p) /\ RestType'
    BY <1>5, RestFacts, RowFacts DEF QueueDone, RestType
  <2>3. Good(p, "read", at[p], todo[p], ret[p])
    <3>1. ret[p] \notin {<<"queue", "idle">>, <<"queue", "read", "idle">>}
      BY <2>1 DEF Bare
    <3> QED
      BY <1>t, <2>1, <3>1 DEF Good, Stacked, Stacks, Listing, PC
  <2> QED
    BY <2>1, <2>2, <2>3, StepFrame
<1> QED
  BY <1>1, <1>2, <1>3, <1>4, <1>5

LEMMA ReturnStep ==
  ASSUME Inv, NEW p \in Procs, pc[p] \in {"read", "write"}, Return(p), todo' = todo, Grows /\ RowMove(p) /\ RestType'
  PROVE  Inv'
<1> DEFINE l == Head(ret[p])
           s == Tail(ret[p])
           a == IF Head(ret[p]) \in {"idle", "loop"} THEN NoRow ELSE at[p]
<1>t. /\ at[p] \in Row \union {NoRow} /\ todo[p] \in SUBSET Row /\ Stacked(pc[p], ret[p])
      /\ at \in [Procs -> Row \union {NoRow}] /\ todo \in [Procs -> SUBSET Row] /\ ret \in [Procs -> Seq(PC)]
  BY DEF Inv, TypeOK, CtlInv
<1>1. Control(p, l, a, todo[p], s)
  BY <1>t DEF Control, Goto, Return
<1>2. a \in Row \union {NoRow} /\ ret[p] \in Stacks
  BY <1>t DEF Stacked
<1>3. \/ l \in {"idle", "loop"} /\ s = <<>>
      \/ l = "read" /\ s = <<"idle">>
      \/ /\ l = "queue" /\ s \in Bare
         /\ ret[p] \in {<<"queue", "idle">>, <<"queue", "read", "idle">>}
  BY <1>2, Pop DEF Stacks, Bare
<1> HIDE DEF l, s, a
<1>4. Good(p, l, a, todo[p], s)
  <2>1. CASE l \in {"idle", "loop"} /\ s = <<>>
    BY <1>t, <1>2, <2>1 DEF Good, Stacked, Listing, PC
  <2>2. CASE l = "read" /\ s = <<"idle">>
    <3>1. s \in Bare /\ s \notin {<<"queue", "idle">>, <<"queue", "read", "idle">>}
      BY <2>2 DEF Bare
    <3> QED
      BY <1>t, <1>2, <2>2, <3>1 DEF Good, Stacked, Stacks, Listing, PC
  <2>3. CASE /\ l = "queue" /\ s \in Bare
             /\ ret[p] \in {<<"queue", "idle">>, <<"queue", "read", "idle">>}
    <3>1. \A r \in todo[p] : Known(r) /\ DepsDone(r)
      BY <2>3 DEF Inv, DepInv, Listing
    <3> QED
      BY <1>t, <1>2, <2>3, <3>1 DEF Good, Stacked, Listing, PC
  <2> QED
    BY <1>3, <2>1, <2>2, <2>3
<1> QED
  BY <1>1, <1>4, StepFrame

LEMMA WriteSteps ==
  ASSUME Inv, NEW p \in Procs,
         ReconcileRead(p) \/ ReconcileWrite(p) \/ ReconcileIgnored(p) \/ Stop(p) \/ HandlerFails(p)
  PROVE  Inv'
<1>t. /\ pc[p] \in PC /\ at[p] \in Row \union {NoRow} /\ todo[p] \in SUBSET Row /\ Stacked(pc[p], ret[p])
      /\ pc \in [Procs -> PC] /\ at \in [Procs -> Row \union {NoRow}] /\ todo \in [Procs -> SUBSET Row]
      /\ ret \in [Procs -> Seq(PC)] /\ derived \in [Procs -> Status]
  BY DEF Inv, TypeOK, CtlInv
<1>1. CASE ReconcileRead(p)
  <2>1. Control(p, "write", at[p], todo[p], ret[p]) /\ pc[p] = "read"
    BY <1>1, <1>t DEF Control, Goto, ReconcileRead
  <2>2. DeriveStatus \in Status
    BY DEF DeriveStatus, Status
  <2>3. Grows /\ RowMove(p) /\ RestType'
    BY <1>1, <1>t, <2>2, RestFacts, RowFacts DEF ReconcileRead, RestType
  <2>4. Good(p, "write", at[p], todo[p], ret[p])
    BY <1>t, <2>1 DEF Good, Stacked, Listing, PC, Inv, DepInv
  <2> QED
    BY <2>1, <2>3, <2>4, StepFrame
<1>2. CASE ReconcileWrite(p)
  <2>1. Grows /\ RowMove(p) /\ RestType'
    BY <1>2, <1>t, RestFacts, RowFacts DEF ReconcileWrite, RestType
  <2>2. pc[p] \in {"read", "write"} /\ Return(p) /\ todo' = todo
    BY <1>2 DEF ReconcileWrite
  <2> QED
    BY <2>1, <2>2, ReturnStep
<1>5. CASE ReconcileIgnored(p)
  <2>1. faults' \in 0..MaxFaults
    BY <1>5, RestFacts, ObjectiveAssumption DEF ReconcileIgnored, RestType
  <2>2. Grows /\ RowMove(p) /\ RestType'
    BY <1>5, <2>1, RestFacts, RowFacts DEF ReconcileIgnored, RestType
  <2>3. pc[p] \in {"read", "write"} /\ Return(p) /\ todo' = todo
    BY <1>5 DEF ReconcileIgnored
  <2> QED
    BY <2>2, <2>3, ReturnStep
<1>3. CASE Stop(p)
  <2>1. Control(p, "read", at[p], todo[p], ret[p]) /\ pc[p] = "stop"
    BY <1>3, <1>t DEF Control, Goto, Stop
  <2>2. PICK r : r = at[p]
    OBVIOUS
  <2>3. ret[p] \in Bare /\ Known(r)
    BY <1>t, <2>1, <2>2 DEF Stacked, Inv, CtlInv
  <2>4. latest'.iter \in 0..MaxIterations
    <3>1. StopSnapshot(r).iter \in 0..MaxIterations
      BY <2>3, IterType, ObjectiveAssumption DEF StopSnapshot
    <3> QED
      BY <1>3, <2>2, <3>1, RestFacts DEF Stop, Show, RestType
  <2>5. Grows /\ RowMove(p) /\ RestType'
    BY <1>3, <2>4, RestFacts, RowFacts DEF Stop, RestType, Status
  <2>6. ret[p] \notin {<<"queue", "idle">>, <<"queue", "read", "idle">>}
    BY <2>3 DEF Bare
  <2>7. Good(p, "read", at[p], todo[p], ret[p])
    BY <1>t, <2>3, <2>6 DEF Good, Stacked, Stacks, Listing, PC
  <2> QED
    BY <2>1, <2>5, <2>7, StepFrame
<1>4. CASE HandlerFails(p)
  <2>1. Abort(p) /\ UNCHANGED <<row, cyc>>
    BY <1>4 DEF HandlerFails
  <2>2. faults' \in 0..MaxFaults
    BY <1>4, RestFacts, ObjectiveAssumption DEF HandlerFails, RestType
  <2>3. Grows /\ RowMove(p) /\ RestType'
    BY <1>4, <2>1, <2>2, AbortFacts, RestFacts, RowFacts DEF HandlerFails, RestType
  <2> QED
    BY <2>1, <2>3, AbortFacts, StepFrame
<1> QED
  BY <1>1, <1>2, <1>3, <1>4, <1>5

LEMMA RepairSteps ==
  ASSUME Inv, NEW p \in Procs, StartRepair(p) \/ CancelDependent(p) \/ BeginCycle(p)
  PROVE  Inv'
<1>t. /\ pc[p] \in PC /\ at[p] \in Row \union {NoRow} /\ todo[p] \in SUBSET Row /\ Stacked(pc[p], ret[p])
      /\ pc \in [Procs -> PC] /\ at \in [Procs -> Row \union {NoRow}] /\ todo \in [Procs -> SUBSET Row]
      /\ ret \in [Procs -> Seq(PC)] /\ row \in [Row -> TaskState \union {"absent"}]
      /\ \A r \in Present : r[1] \in DOMAIN cyc
  BY DEF Inv, TypeOK, CtlInv
<1>a. ASSUME pc[p] \in {"repair", "cancel"}
      PROVE  ret[p] \in Bare /\ Known(at[p]) /\ Iter(at[p]) < MaxIterations
  BY <1>a, <1>t DEF Stacked, Inv, CtlInv
<1>1. CASE StartRepair(p)
  <2>1. pc[p] = "repair" /\ ret[p] \in Bare /\ Known(at[p]) /\ Iter(at[p]) < MaxIterations
    BY <1>1, <1>a DEF StartRepair
  <2>2. Grows /\ RowMove(p) /\ RestType'
    BY <1>1, RestFacts, RowFacts DEF StartRepair, RestType
  <2>3. CASE expired
    <3>1. Control(p, "read", at[p], todo[p], ret[p])
      BY <1>1, <1>t, <2>3 DEF Control, Goto, StartRepair
    <3>2. ret[p] \notin {<<"queue", "idle">>, <<"queue", "read", "idle">>}
      BY <2>1 DEF Bare
    <3>3. Good(p, "read", at[p], todo[p], ret[p])
      BY <1>t, <2>1, <3>2 DEF Good, Stacked, Stacks, Listing, PC
    <3> QED
      BY <2>2, <3>1, <3>3, StepFrame
  <2>4. CASE ~expired
    <3> DEFINE t == Supersedable(at[p])
    <3>1. Control(p, "cancel", at[p], t, ret[p])
      BY <1>1, <1>t, <2>4 DEF Control, Goto, StartRepair
    <3>2. t \in SUBSET Row
      BY DEF Supersedable, AllDependents, DependOn, Present
    <3> HIDE DEF t
    <3>3. Good(p, "cancel", at[p], t, ret[p])
      BY <1>t, <2>1, <3>2 DEF Good, Stacked, Stacks, Listing, PC
    <3> QED
      BY <2>2, <3>1, <3>3, StepFrame
  <2> QED
    BY <2>3, <2>4
<1>2. CASE CancelDependent(p)
  <2>1. PICK r \in todo[p] :
          /\ superseded' = superseded \union {r}
          /\ IF IsValidTransition(row[r], "cancelled")
               THEN /\ SetRow(r, "cancelled") /\ todo' = [todo EXCEPT ![p] = @ \ {r}]
                    /\ UNCHANGED <<pc, at, ret, verdict>>
               ELSE Abort(p) /\ UNCHANGED row
    BY <1>2 DEF CancelDependent
  <2>2. pc[p] = "cancel" /\ ret[p] \in Bare /\ Known(at[p]) /\ Iter(at[p]) < MaxIterations
    BY <1>2, <1>a DEF CancelDependent
  <2>g. /\ UNCHANGED <<deployed, cyc, approved, accepted, status, latest, expired, stopped, derived, faults>>
        /\ superseded' \subseteq Row
    BY <1>2, <1>t, <2>1, RestFacts DEF CancelDependent, RestType
  <2>3. CASE IsValidTransition(row[r], "cancelled")
    <3>1. Control(p, "cancel", at[p], todo[p] \ {r}, ret[p])
      BY <1>t, <2>1, <2>2, <2>3 DEF Control
    <3>2. RowMove(p)
      <4>1. "cancelled" \in TaskState /\ row[r] \notin {"absent", "completed"}
        BY <2>3 DEF TaskState, IsValidTransition, ValidTransitions
      <4> QED
        BY <1>t, <2>1, <2>3, <4>1, RowFacts
    <3>3. Grows /\ RestType'
      BY <2>1, <2>3, <2>g, RestFacts, RowFacts DEF RestType
    <3>4. Good(p, "cancel", at[p], todo[p] \ {r}, ret[p])
      BY <1>t, <2>2 DEF Good, Stacked, Listing, PC
    <3> QED
      BY <3>1, <3>2, <3>3, <3>4, StepFrame
  <2>4. CASE ~IsValidTransition(row[r], "cancelled")
    <3>1. Abort(p) /\ UNCHANGED row
      BY <2>1, <2>4
    <3>2. Grows /\ RowMove(p) /\ RestType'
      BY <2>g, <3>1, AbortFacts, RestFacts, RowFacts DEF RestType
    <3> QED
      BY <3>1, <3>2, AbortFacts, StepFrame
  <2> QED
    BY <2>3, <2>4
<1>3. CASE BeginCycle(p)
  <2>1. pc[p] = "cancel" /\ ret[p] \in Bare /\ Known(at[p]) /\ Iter(at[p]) < MaxIterations /\ Len(cyc) < MaxCycles
    BY <1>3, <1>a DEF BeginCycle
  <2>2. PICK findings \in SUBSET FindingKind, changed \in BOOLEAN :
          /\ cyc' = Append(cyc, [iter |-> Iter(at[p]) + 1, plan |-> RepairPlan(Plan(at[p]), findings, changed)])
          /\ todo' = [todo EXCEPT ![p] = RowsOf(Len(cyc) + 1, Iter(at[p]) + 1,
                                                RepairPlan(Plan(at[p]), findings, changed))]
    BY <1>3 DEF BeginCycle
  <2>3. PICK i, f : i = Iter(at[p]) + 1 /\ f = RepairPlan(Plan(at[p]), findings, changed)
    OBVIOUS
  <2>4. i \in 1..MaxIterations /\ f \in SUBSET Optional
    <3>1. Iter(at[p]) \in 1..MaxIterations
      BY <2>1, IterType
    <3>2. RepairPlan(Plan(at[p]), findings, changed) \in SUBSET Optional
      BY DEF RepairPlan, Optional, Preparations
    <3> QED
      BY <2>1, <2>3, <3>1, <3>2, ObjectiveAssumption
  <2> DEFINE Cycle == [iter : 1..MaxIterations, plan : SUBSET Optional]
             c     == [iter |-> i, plan |-> f]
             t     == RowsOf(Len(cyc) + 1, i, f)
  <2>5. c \in Cycle /\ cyc \in Seq(Cycle) /\ Len(cyc) \in 1..MaxCycles
    BY <2>4, RestFacts DEF RestType
  <2>6. cyc' = Append(cyc, c) /\ todo' = [todo EXCEPT ![p] = t]
    BY <2>2, <2>3
  <2>7. t \subseteq Row /\ \A r \in t : r[1] = Len(cyc) + 1
    <3>1. Len(cyc) + 1 \in 1..MaxCycles
      BY <2>1, <2>5, ObjectiveAssumption
    <3> QED
      BY <2>4, <3>1, RowsType
  <2> HIDE DEF Cycle, c, t
  <2>8. /\ cyc' \in Seq(Cycle) /\ Len(cyc') = Len(cyc) + 1 /\ DOMAIN cyc = 1..Len(cyc) /\ DOMAIN cyc' = 1..(Len(cyc) + 1)
        /\ \A k \in 1..Len(cyc) : cyc'[k] = cyc[k]
    BY <2>5, <2>6
  <2>9. Grows
    BY <2>5, <2>8 DEF Grows
  <2>10. RowMove(p)
    BY <1>3, RowFacts DEF BeginCycle
  <2>11. RestType'
    <3>1. cyc' \in Seq([iter : 1..MaxIterations, plan : SUBSET Optional]) /\ Len(cyc') \in 1..MaxCycles
      BY <2>1, <2>5, <2>8, ObjectiveAssumption DEF Cycle
    <3> QED
      BY <1>3, <3>1, RestFacts DEF BeginCycle, RestType
  <2>12. Control(p, "create", at[p], t, ret[p])
    BY <1>3, <1>t, <2>6 DEF Control, Goto, BeginCycle
  <2>13. ASSUME NEW r \in t
         PROVE  /\ r[1] \in DOMAIN cyc' /\ row'[r] = "absent"
                /\ \A q \in Procs \ {p} : pc[q] = "create" => r \notin todo[q]
    <3>1. r \in Row /\ r[1] = Len(cyc) + 1 /\ r[1] \notin DOMAIN cyc /\ r[1] \in DOMAIN cyc'
      BY <2>5, <2>7, <2>8
    <3>2. row[r] = "absent" /\ row' = row
      BY <1>3, <1>t, <3>1 DEF Present, BeginCycle
    <3>3. \A q \in Procs : pc[q] = "create" => r \notin todo[q]
      BY <3>1 DEF Inv, CtlInv, Known
    <3> QED
      BY <3>1, <3>2, <3>3
  <2>14. Good(p, "create", at[p], t, ret[p])
    BY <1>t, <2>1, <2>7, <2>13 DEF Good, Stacked, Listing, PC
  <2> QED
    BY <2>9, <2>10, <2>11, <2>12, <2>14, StepFrame
<1> QED
  BY <1>1, <1>2, <1>3

LEMMA ResolveStep ==
  ASSUME Inv, NEW p \in Procs, NEW r, NEW grant \in BOOLEAN, NEW back \in {"idle", "loop"}, Resolve(p, r, grant, back)
  PROVE  Inv'
<1>1. /\ at[p] \in Row \union {NoRow} /\ todo[p] \in SUBSET Row
      /\ pc \in [Procs -> PC] /\ at \in [Procs -> Row \union {NoRow}] /\ todo \in [Procs -> SUBSET Row]
      /\ ret \in [Procs -> Seq(PC)]
  BY DEF Inv, TypeOK
<1>2. r \in Row /\ row[r] = "waiting_approval" /\ DepsDone(r)
  BY RowFacts DEF Resolve, Waiting, Present
<1>3. Control(p, "read", at[p], todo[p], <<back>>)
  BY <1>1 DEF Control, Goto, Resolve
<1>4. RowMove(p)
  <2>1. PICK x : x = IF grant THEN "queued" ELSE "cancelled"
    OBVIOUS
  <2>2. x \in TaskState /\ SetRow(r, x)
    BY <2>1 DEF TaskState, Resolve
  <2> QED
    BY <1>2, <2>2, RowFacts
<1>5. Grows /\ RestType'
  BY <1>2, RestFacts, RowFacts DEF Resolve, RestType
<1>6. <<back>> \in Stacks /\ <<back>> \notin {<<"queue", "idle">>, <<"queue", "read", "idle">>}
  BY DEF Stacks, Bare
<1>7. Good(p, "read", at[p], todo[p], <<back>>)
  BY <1>1, <1>6 DEF Good, Stacked, Listing, PC
<1> QED
  BY <1>3, <1>4, <1>5, <1>7, StepFrame

LEMMA ClientSteps ==
  ASSUME Inv, NEW p \in Bridges, ClientStep(p) \/ BridgeLost(p)
  PROVE  Inv'
<1>p. p \in Procs
  BY DEF Procs
<1>t. /\ pc[p] \in PC /\ at[p] \in Row \union {NoRow} /\ todo[p] \in SUBSET Row /\ Stacked(pc[p], ret[p])
      /\ pc \in [Procs -> PC] /\ at \in [Procs -> Row \union {NoRow}] /\ todo \in [Procs -> SUBSET Row]
      /\ ret \in [Procs -> Seq(PC)] /\ row \in [Row -> TaskState \union {"absent"}]
  BY <1>p DEF Inv, TypeOK, CtlInv
<1>a. PICK w : w = at[p]
  OBVIOUS
<1>b. pc[p] = "run" => Known(w) /\ w \in Row
  BY <1>a, <1>p DEF Inv, CtlInv, Known
<1>1. CASE Claim(p)
  <2>1. PICK r \in Present : row[r] = "queued" /\ SetRow(r, "in_progress") /\ at' = [at EXCEPT ![p] = r]
    BY <1>1 DEF Claim
  <2>2. r \in Row /\ Known(r) /\ DepsDone(r) /\ "in_progress" \in TaskState
    BY <1>p, <2>1, RowFacts DEF Present, TaskState
  <2>3. pc[p] \in {"idle", "loop"} /\ ret[p] = <<>>
    BY <1>1, <1>t DEF Claim, Stacked
  <2>4. Control(p, "run", r, todo[p], <<>>)
    BY <1>1, <1>t, <2>1, <2>3 DEF Control, Goto, Claim
  <2>5. RowMove(p)
    BY <1>p, <2>1, <2>2, RowFacts
  <2>6. Grows /\ RestType'
    BY <1>1, <1>p, RestFacts, RowFacts DEF Claim, RestType
  <2>7. Good(p, "run", r, todo[p], <<>>)
    BY <1>t, <2>2 DEF Good, Stacked, Listing, PC
  <2> QED
    BY <1>p, <2>4, <2>5, <2>6, <2>7, StepFrame
<1>2. CASE Ask(p)
  <2>1. pc[p] = "run" /\ Known(w) /\ w \in Row /\ ret[p] = <<>>
    BY <1>2, <1>b, <1>t DEF Ask, Stacked
  <2>g. UNCHANGED <<deployed, cyc, superseded, approved, accepted, status, latest, expired, stopped, derived, faults>>
    BY <1>2 DEF Ask
  <2>2. CASE row[w] = "in_progress"
    <3>1. Control(p, "idle", NoRow, todo[p], <<>>) /\ SetRow(w, "waiting_approval") /\ UNCHANGED verdict
      BY <1>2, <1>a, <1>t, <2>1, <2>2 DEF Control, Goto, Ask
    <3>2. RowMove(p)
      <4>1. "waiting_approval" \in TaskState /\ DepsDone(w)
        BY <1>p, <2>1, <2>2, RowFacts DEF TaskState
      <4> QED
        BY <1>p, <2>1, <2>2, <3>1, <4>1, RowFacts
    <3>3. Grows /\ RestType'
      BY <1>p, <2>g, <3>1, RestFacts, RowFacts DEF RestType
    <3>4. Good(p, "idle", NoRow, todo[p], <<>>)
      BY <1>t DEF Good, Stacked, Listing, PC
    <3> QED
      BY <1>p, <3>1, <3>2, <3>3, <3>4, StepFrame
  <2>3. CASE row[w] # "in_progress"
    <3>1. Abort(p) /\ UNCHANGED row
      BY <1>2, <1>a, <2>3 DEF Ask
    <3>2. Grows /\ RowMove(p) /\ RestType'
      BY <1>p, <2>g, <3>1, AbortFacts, RestFacts, RowFacts DEF RestType
    <3> QED
      BY <1>p, <3>1, <3>2, AbortFacts, StepFrame
  <2> QED
    BY <2>2, <2>3
<1>3. ASSUME NEW res \in Result, Submit(p, res) PROVE Inv'
  <2>1. pc[p] = "run" /\ Known(w) /\ w \in Row
    BY <1>3, <1>b DEF Submit
  <2>g. UNCHANGED <<deployed, cyc, superseded, approved, status, expired, stopped, derived, faults>>
    BY <1>3 DEF Submit
  <2>i. Iter(w) \in 1..MaxIterations
    BY <2>1, IterType
  <2>s. latest'.iter \in 0..MaxIterations
    <3>1. ResultSnapshot(w, res).iter \in 0..MaxIterations
      BY <2>i, ObjectiveAssumption DEF ResultSnapshot
    <3> QED
      BY <1>3, <1>a, <3>1, RestFacts DEF Submit, Show, RestType
  <2>2. CASE row[w] = "in_progress"
    <3> DEFINE l == AfterResult(w, res)
               s == IF AfterResult(w, res) = "repair" THEN <<"read", "idle">> ELSE <<"idle">>
               x == IF CountsAsSuccess(w, res) \/ RepairStarts(w, res) THEN "completed" ELSE "failed"
    <3>1. Control(p, l, w, todo[p], s) /\ SetRow(w, x) /\ UNCHANGED verdict
      BY <1>3, <1>a, <1>t, <2>2 DEF Control, Goto, Submit
    <3>2. accepted' \subseteq Row
      BY <1>3, <1>a, <2>1, <2>2, RestFacts DEF Submit, RestType
    <3>3. l \in {"stop", "list", "repair", "read"} /\ (l = "repair" => Iter(w) < MaxIterations)
      BY DEF AfterResult, RepairStarts, MayRepair
    <3>4. x \in TaskState /\ s \in Bare
      BY DEF TaskState, Bare
    <3> HIDE DEF l, s, x
    <3>5. RowMove(p)
      <4>1. DepsDone(w)
        BY <1>p, <2>1, <2>2, RowFacts
      <4> QED
        BY <1>p, <2>1, <2>2, <3>1, <3>4, <4>1, RowFacts
    <3>6. Grows /\ RestType'
      BY <1>p, <2>g, <2>s, <3>1, <3>2, RestFacts, RowFacts DEF RestType
    <3>7. s \notin {<<"queue", "idle">>, <<"queue", "read", "idle">>}
      BY <3>4 DEF Bare
    <3>8. Good(p, l, w, todo[p], s)
      BY <1>t, <2>1, <3>3, <3>4, <3>7 DEF Good, Stacked, Stacks, Listing, PC
    <3> QED
      BY <1>p, <3>1, <3>5, <3>6, <3>8, StepFrame
  <2>3. CASE row[w] # "in_progress"
    <3>1. Abort(p) /\ UNCHANGED <<row, accepted>>
      BY <1>3, <1>a, <2>3 DEF Submit
    <3>2. Grows /\ RowMove(p) /\ RestType'
      BY <1>p, <2>g, <2>s, <3>1, AbortFacts, RestFacts, RowFacts DEF RestType
    <3> QED
      BY <1>p, <3>1, <3>2, AbortFacts, StepFrame
  <2> QED
    BY <2>2, <2>3
<1>4. CASE BridgeLost(p)
  <2>1. Abort(p) /\ pc[p] = "run" /\ Known(w) /\ w \in Row
    BY <1>4, <1>b DEF BridgeLost
  <2>2. RowMove(p)
    <3>1. CASE row[w] = "in_progress"
      <4>1. SetRow(w, "queued")
        BY <1>4, <1>a, <1>t, <2>1, <3>1 DEF SetRow, BridgeLost
      <4>2. "queued" \in TaskState /\ DepsDone(w)
        BY <1>p, <2>1, <3>1, RowFacts DEF TaskState
      <4> QED
        BY <1>p, <2>1, <3>1, <4>1, <4>2, RowFacts
    <3>2. CASE row[w] # "in_progress"
      <4>1. row' = row
        BY <1>4, <1>a, <1>t, <2>1, <3>2 DEF BridgeLost
      <4> QED
        BY <1>p, <4>1, RowFacts
    <3> QED
      BY <3>1, <3>2
  <2>3. faults' \in 0..MaxFaults
    BY <1>4, RestFacts, ObjectiveAssumption DEF BridgeLost, RestType
  <2>4. Grows /\ RestType'
    BY <1>4, <1>p, <2>1, <2>3, AbortFacts, RestFacts, RowFacts DEF BridgeLost, RestType
  <2> QED
    BY <1>p, <2>1, <2>2, <2>4, AbortFacts, StepFrame
<1> QED
  BY <1>1, <1>2, <1>3, <1>4 DEF ClientStep

LEMMA RunnerSteps ==
  ASSUME Inv, Poll \/ NothingToClaim \/ Expire
  PROVE  Inv'
<1>p. Runner \in Procs
  BY DEF Procs, Bridges
<1>t. /\ pc[Runner] \in PC /\ at[Runner] \in Row \union {NoRow} /\ todo[Runner] \in SUBSET Row
      /\ Stacked(pc[Runner], ret[Runner])
      /\ pc \in [Procs -> PC] /\ at \in [Procs -> Row \union {NoRow}] /\ todo \in [Procs -> SUBSET Row]
      /\ ret \in [Procs -> Seq(PC)]
  BY <1>p DEF Inv, TypeOK, CtlInv
<1>1. CASE Poll \/ NothingToClaim
  <2>1. PICK l \in {"idle", "loop"} : Control(Runner, l, at[Runner], todo[Runner], ret[Runner]) /\ ret[Runner] = <<>>
    <3>1. pc[Runner] \in {"idle", "loop"} /\ ret[Runner] = <<>> /\ UNCHANGED <<at, todo, ret>>
      BY <1>1, <1>t DEF Poll, NothingToClaim, Stacked
    <3>2. pc' = pc \/ pc' = [pc EXCEPT ![Runner] = "loop"] \/ pc' = [pc EXCEPT ![Runner] = "idle"]
      BY <1>1 DEF Poll, NothingToClaim, Goto
    <3>3. CASE pc' = pc
      BY <1>t, <3>1, <3>3 DEF Control
    <3>4. CASE pc' = [pc EXCEPT ![Runner] = "loop"]
      BY <1>t, <3>1, <3>4 DEF Control
    <3>5. CASE pc' = [pc EXCEPT ![Runner] = "idle"]
      BY <1>t, <3>1, <3>5 DEF Control
    <3> QED
      BY <3>2, <3>3, <3>4, <3>5
  <2>2. Grows /\ RowMove(Runner)
    BY <1>1, <1>p, RowFacts DEF Poll, NothingToClaim
  <2>3. RestType'
    BY <1>1, RestFacts DEF Poll, NothingToClaim, RestType
  <2>4. Good(Runner, l, at[Runner], todo[Runner], ret[Runner])
    BY <1>t, <2>1 DEF Good, Stacked, Listing, PC
  <2> QED
    BY <1>p, <2>1, <2>2, <2>3, <2>4, StepFrame
<1>2. CASE Expire
  <2>1. UNCHANGED <<deployed, cyc, row, superseded, approved, accepted, status, latest, stopped,
                    pc, at, todo, ret, derived, verdict, faults>> /\ expired' \in BOOLEAN
    BY <1>2 DEF Expire
  <2>2. TypeOK'
    BY <2>1 DEF Inv, TypeOK, Present
  <2>3. CtlInv'
    BY <2>1 DEF Inv, CtlInv, Known, Iter
  <2>4. DepInv'
    BY <2>1 DEF Inv, DepInv, Known, DepsDone, DependenciesFirst, Deps, Iter, Plan, WithId, Present
  <2> QED
    BY <2>2, <2>3, <2>4 DEF Inv
<1> QED
  BY <1>1, <1>2

LEMMA InitInv == Init => Inv
<1> SUFFICES ASSUME Init PROVE Inv
  OBVIOUS
<1>p. Runner \in Procs
  BY DEF Procs, Bridges
<1>1. PICK f \in Plans : cyc = <<[iter |-> 1, plan |-> f]>>
  BY DEF Init
<1>2. f \in SUBSET Optional
  BY ObjectiveAssumption DEF InitialPlans
<1> DEFINE Cycle == [iter : 1..MaxIterations, plan : SUBSET Optional]
           c     == [iter |-> 1, plan |-> f]
<1>3. c \in Cycle /\ cyc = <<c>>
  BY <1>1, <1>2, ObjectiveAssumption
<1>4. cyc \in Seq(Cycle) /\ Len(cyc) = 1 /\ DOMAIN cyc = 1..1 /\ cyc[1] = c
  <2> HIDE DEF Cycle, c
  <2> QED
    BY <1>3
<1>5. 1 \in 1..MaxCycles /\ cyc[1].plan = f
  BY <1>4, ObjectiveAssumption
<1> HIDE DEF c
<1> DEFINE t == RowsOf(1, 1, f)
<1>6. t \subseteq Row /\ \A r \in t : r[1] = 1
  BY <1>2, <1>5, RowsType
<1> HIDE DEF t
<1>7. todo = [p \in Procs |-> IF p = Runner THEN t ELSE {}]
  BY <1>5 DEF Init, t
<1>8. row = [r \in Row |-> "absent"] /\ Present = {}
  BY DEF Init, Present
<1>9. /\ pc = [p \in Procs |-> IF p = Runner THEN "create" ELSE "idle"]
      /\ ret = [p \in Procs |-> IF p = Runner THEN <<"idle">> ELSE <<>>]
      /\ at = [p \in Procs |-> NoRow]
  BY DEF Init
<1>10. \A p \in Procs : Stacked(pc[p], ret[p])
  BY <1>9 DEF Stacked, Bare
<1>11. pc \in [Procs -> PC] /\ ret \in [Procs -> Seq(PC)] /\ todo \in [Procs -> SUBSET Row] /\ at \in [Procs -> Row \union {NoRow}]
  <2>1. pc \in [Procs -> PC] /\ at \in [Procs -> Row \union {NoRow}]
    BY <1>9 DEF PC
  <2>2. todo \in [Procs -> SUBSET Row]
    BY <1>6, <1>7
  <2>3. \A p \in Procs : ret[p] \in Seq(PC)
    BY <1>10, <2>1, StackType
  <2>4. ret \in [Procs -> Seq(PC)]
    BY <1>9, <2>3
  <2> QED
    BY <2>1, <2>2, <2>4
<1>12. TypeOK
  <2>1. cyc \in Seq([iter : 1..MaxIterations, plan : SUBSET Optional]) /\ Len(cyc) \in 1..MaxCycles
    BY <1>4, <1>5
  <2>2. latest.iter \in 0..MaxIterations /\ faults \in 0..MaxFaults
    BY ObjectiveAssumption DEF Init
  <2> QED
    BY <1>8, <1>11, <2>1, <2>2 DEF Init, TypeOK, Status
<1>13. CtlInv
  <2>1. \A r \in t : Known(r) /\ row[r] = "absent"
    BY <1>4, <1>6, <1>8 DEF Known
  <2>2. \A p \in Procs : pc[p] = "create" => p = Runner
    BY <1>9
  <2>3. \A p \in Procs : pc[p] \notin {"run", "stop", "repair", "cancel"}
    BY <1>9
  <2> QED
    BY <1>7, <1>10, <2>1, <2>2, <2>3 DEF CtlInv
<1>14. DepInv
  <2>1. \A p \in Procs : ~ Listing(pc[p], ret[p])
    BY <1>9 DEF Listing
  <2> QED
    BY <1>8, <2>1 DEF DepInv, DependenciesFirst
<1> QED
  BY <1>12, <1>13, <1>14 DEF Inv

\* Every step keeps the invariants.
LEMMA StepInv == Inv /\ [Next]_vars => Inv'
<1> SUFFICES ASSUME Inv, [Next]_vars PROVE Inv'
  OBVIOUS
<1>1. ASSUME NEW p \in Procs, HandlerStep(p) \/ HandlerFails(p) \/ ReconcileIgnored(p) PROVE Inv'
  BY <1>1, ListSteps, WriteSteps, RepairSteps DEF HandlerStep
<1>2. ASSUME NEW p \in Procs, OperatorResolves(p) PROVE Inv'
  BY <1>2, ResolveStep DEF OperatorResolves
<1>3. ASSUME NEW p \in Bridges, ClientStep(p) \/ BridgeLost(p) PROVE Inv'
  BY <1>3, ClientSteps
<1>4. CASE RunnerStep
  <2>1. CASE RunnerResolves
    <3>1. Runner \in Procs
      BY DEF Procs, Bridges
    <3> QED
      BY <2>1, <3>1, ResolveStep DEF RunnerResolves
  <2> QED
    BY <1>4, <2>1, RunnerSteps DEF RunnerStep
<1>5. CASE Expire
  BY <1>5, RunnerSteps
<1>6. CASE UNCHANGED vars
  <2>1. UNCHANGED <<deployed, cyc, row, superseded, approved, accepted, status, latest, expired, stopped,
                    pc, at, todo, ret, derived, verdict, faults>>
    BY <1>6 DEF vars
  <2>2. TypeOK'
    BY <2>1 DEF Inv, TypeOK, Present
  <2>3. CtlInv'
    BY <2>1 DEF Inv, CtlInv, Known, Iter
  <2>4. DepInv'
    BY <2>1 DEF Inv, DepInv, Known, DepsDone, DependenciesFirst, Deps, Iter, Plan, WithId, Present
  <2> QED
    BY <2>2, <2>3, <2>4 DEF Inv
<1> QED
  BY <1>1, <1>2, <1>3, <1>4, <1>5, <1>6 DEF Next

\* Every state of the objective's handlers and bridges has its type: whatever
\* fails, no iteration is beyond objective_max_iterations, and no row belongs to
\* a cycle that was not begun (createObjective, startObjectiveRepairCycle).
THEOREM TypeCorrect == Spec => []TypeOK
<1>1. Inv => TypeOK
  BY DEF Inv
<1> QED
  BY <1>1, InitInv, StepInv, PTL DEF Spec

\* queueReadyObjectiveTasks starts no work item before the items it depends on
\* are completed, for any number of bridges, operators, cycles and faults: the
\* listing it decides from is old, but a completed row stays completed.
THEOREM DependenciesSafe == Spec => []DependenciesFirst
<1>1. Inv => DependenciesFirst
  BY DEF Inv, DepInv
<1> QED
  BY <1>1, InitInv, StepInv, PTL DEF Spec

(***************************************************************************)
(* A runner without other bridges and operators.                           *)
(***************************************************************************)
Here       == pc[Runner]
Last       == Len(cyc)
LastItems  == Items(Last, cyc[Last].plan)
Now(n)     == <<Last, n>>

\* Nobody else acts, every cycle is the next iteration, and a cycle that has
\* been replaced is over.
CycleInv ==
  /\ \A p \in Procs \ {Runner} : pc[p] = "idle"
  /\ \A k \in DOMAIN cyc : cyc[k].iter = k
  /\ \A r \in Present : r[2] \in Items(r[1], cyc[r[1]].plan)
  /\ \A r \in Present : r[1] < Last =>
       row[r] = "completed" \/ (row[r] = "cancelled" /\ r \in superseded)

\* Where the runner stands in the cycle that is in force.
PlaceInv ==
  /\ Here = "create" =>
       /\ \A r \in todo[Runner] : r[1] = Last /\ r[2] \in LastItems
       /\ \A n \in LastItems : row[Now(n)] = IF Now(n) \in todo[Runner] THEN "absent" ELSE "created"
  /\ Here # "create" => \A n \in LastItems : row[Now(n)] # "absent"
  /\ Listing(Here, ret[Runner]) => \A r \in todo[Runner] : r[1] = Last /\ row[r] = "created"
  /\ Here \in {"run", "stop", "repair", "cancel"} => at[Runner][1] = Last /\ at[Runner][2] \in LastItems
  /\ Here \in {"stop", "repair", "cancel"} => row[at[Runner]] = "completed"
  /\ Here \in {"repair", "cancel"} => at[Runner][2] \in {"validate", "review"}
  /\ Here = "repair" /\ at[Runner][2] = "validate" => row[Now("review")] = "created"
  /\ Here = "cancel" =>
       /\ todo[Runner] \subseteq {Now("review")}
       /\ todo[Runner] # {} => at[Runner][2] = "validate" /\ row[Now("review")] = "created"
       /\ todo[Runner] = {} /\ at[Runner][2] = "validate" =>
            row[Now("review")] = "cancelled" /\ Now("review") \in superseded
  /\ \A n \in LastItems : row[Now(n)] = "cancelled" => Here = "cancel"

\* The review that ends the cycle was accepted, or is about to be repaired, or
\* its repair was dropped because the deadline had passed.
ReviewInv ==
  row[Now("review")] = "completed" =>
    \/ Now("review") \in accepted
    \/ Here \in {"repair", "cancel"} /\ at[Runner][2] = "review"
    \/ expired /\ Last < MaxIterations

Fails == \E r \in Present : row[r] = "failed"
Done  == \A r \in Present : row[r] \in {"completed", "cancelled"}
Outranked == {"validate-baseline", "bootstrap"} \intersect cyc[Last].plan # {}

\* The snapshot shown says why the initiative is blocked, as far as it can.
Explained == latest.next = "block_initiative" \/ Outranked

\* What the initiative's status says.  It may be old, because the error of a
\* reconciliation is dropped, but the rows it was derived from have not moved:
\* success is final, and a failure leaves at most other preparations to be done.
\* A stop blocks without a failed row until the rows are reconciled again.
VerdictInv ==
  /\ verdict # "none" => Here = "idle" /\ status = verdict
  /\ status = "completed" => Done /\ Here \in {"idle", "loop", "read", "write"}
  /\ status = "blocked" => Fails \/ (Explained /\ Here \in {"idle", "read", "write"} /\ ret[Runner] # <<"loop">>)
  /\ Here = "write" => (derived[Runner] = "completed" => Done) /\ (derived[Runner] = "blocked" => Fails)
  /\ Here \in {"read", "write"} => ~ Listing(Here, ret[Runner])
  /\ Here \in {"repair", "cancel", "create"} => ~ Fails
  /\ Here = "stop" /\ ~ Outranked => latest.iter = Last /\ latest.kind = Kind(at[Runner][2])

\* The snapshot shown is that of an item that has ended, and the one that
\* explains the failure.
ShownInv ==
  /\ latest.iter <= Last
  /\ latest.iter = Last /\ ~ Outranked =>
       \E n \in LastItems : Kind(n) = latest.kind /\ row[Now(n)] \in {"completed", "failed"}
  /\ Fails => Explained

LiveInv == CycleInv /\ PlaceInv /\ ReviewInv /\ VerdictInv /\ ShownInv

\* It holds until a request of the runner fails, and then the runner is gone.
SoleInv == deployed = {} /\ verdict # "error" => LiveInv

(***************************************************************************)
(* The order of the items of a cycle.                                      *)
(***************************************************************************)
LEMMA Positions ==
  /\ Position("research") = 0 /\ Position("replan") = 0 /\ Position("validate-baseline") = 1
  /\ Position("bootstrap") = 2 /\ Position("analyze") = 3 /\ Position("edit") = 4
  /\ Position("edit-docs") = 5 /\ Position("edit-config") = 6 /\ Position("edit-deps") = 7
  /\ Position("validate") = 8 /\ Position("review") = 9
  BY DEF Position

\* finalEditID is the last of the edits appended before the item.
LEMMA LastEditIs ==
  ASSUME NEW f, NEW n, NEW e \in {"edit"} \union (f \intersect Workstreams), Position(e) < Position(n),
         \A d \in ({"edit"} \union (f \intersect Workstreams)) \ {e} : Position(d) < Position(n) => Position(d) < Position(e)
  PROVE  LastEditBefore(f, n) = e
<1> DEFINE E == {"edit"} \union (f \intersect Workstreams)
           Q(x) == Position(x) < Position(n) /\ \A d \in E : Position(d) < Position(n) => Position(d) <= Position(x)
<1>1. \A x \in E : Position(x) \in Nat
  BY Positions DEF Workstreams
<1>2. Q(e)
  BY <1>1
<1>3. \A x \in E : Q(x) => x = e
  BY <1>1
<1>4. (CHOOSE x \in E : Q(x)) = e
  <2> HIDE DEF Q, E
  <2>1. e \in E
    BY DEF E
  <2> QED
    BY <1>2, <1>3, <2>1
<1> QED
  BY <1>4 DEF LastEditBefore

LEMMA LastEdits ==
  ASSUME NEW f \in SUBSET Optional
  PROVE  /\ LastEditBefore(f, "edit-docs") = "edit"
         /\ LastEditBefore(f, "edit-config") = IF "edit-docs" \in f THEN "edit-docs" ELSE "edit"
         /\ LastEditBefore(f, "edit-deps") = IF "edit-config" \in f THEN "edit-config"
                                             ELSE IF "edit-docs" \in f THEN "edit-docs" ELSE "edit"
         /\ LastEditBefore(f, "validate") = IF "edit-deps" \in f THEN "edit-deps"
                                            ELSE IF "edit-config" \in f THEN "edit-config"
                                            ELSE IF "edit-docs" \in f THEN "edit-docs" ELSE "edit"
<1>1. LastEditBefore(f, "edit-docs") = "edit"
  BY Positions, LastEditIs DEF Workstreams
<1>2. LastEditBefore(f, "edit-config") = IF "edit-docs" \in f THEN "edit-docs" ELSE "edit"
  <2>1. CASE "edit-docs" \in f
    BY <2>1, Positions, LastEditIs DEF Workstreams
  <2>2. CASE "edit-docs" \notin f
    BY <2>2, Positions, LastEditIs DEF Workstreams
  <2> QED
    BY <2>1, <2>2
<1>3. LastEditBefore(f, "edit-deps") = IF "edit-config" \in f THEN "edit-config"
                                       ELSE IF "edit-docs" \in f THEN "edit-docs" ELSE "edit"
  <2>1. CASE "edit-config" \in f
    BY <2>1, Positions, LastEditIs DEF Workstreams
  <2>2. CASE "edit-config" \notin f /\ "edit-docs" \in f
    BY <2>2, Positions, LastEditIs DEF Workstreams
  <2>3. CASE "edit-config" \notin f /\ "edit-docs" \notin f
    BY <2>3, Positions, LastEditIs DEF Workstreams
  <2> QED
    BY <2>1, <2>2, <2>3
<1>4. LastEditBefore(f, "validate") = IF "edit-deps" \in f THEN "edit-deps"
                                      ELSE IF "edit-config" \in f THEN "edit-config"
                                      ELSE IF "edit-docs" \in f THEN "edit-docs" ELSE "edit"
  <2>1. CASE "edit-deps" \in f
    BY <2>1, Positions, LastEditIs DEF Workstreams
  <2>2. CASE "edit-deps" \notin f /\ "edit-config" \in f
    BY <2>2, Positions, LastEditIs DEF Workstreams
  <2>3. CASE "edit-deps" \notin f /\ "edit-config" \notin f /\ "edit-docs" \in f
    BY <2>3, Positions, LastEditIs DEF Workstreams
  <2>4. CASE "edit-deps" \notin f /\ "edit-config" \notin f /\ "edit-docs" \notin f
    BY <2>4, Positions, LastEditIs DEF Workstreams
  <2> QED
    BY <2>1, <2>2, <2>3, <2>4
<1> QED
  BY <1>1, <1>2, <1>3, <1>4

\* What the items depend on, in either builder.
LEMMA DependsOnFacts ==
  ASSUME NEW i \in Nat \ {0}, NEW f \in SUBSET Optional
  PROVE  /\ \A n \in f \intersect Preparations : First(i) \in DependsOn(i, f, n)
         /\ DependsOn(i, f, "edit") = {First(i)} \union (f \intersect Preparations)
         /\ \A n \in Workstreams \union {"validate"} : LastEditBefore(f, n) \in DependsOn(i, f, n)
         /\ DependsOn(i, f, "review") = {"validate"}
         /\ \A n \in Items(i, f) : "review" \notin DependsOn(i, f, n)
         /\ \A n \in Items(i, f) : "validate" \in DependsOn(i, f, n) => n = "review"
<1>1. CASE i = 1
  <2>1. \A n \in f \intersect Preparations : First(i) \in DependsOn(i, f, n)
    BY <1>1 DEF DependsOn, InitialDependsOn, EditDependsOn, First, Preparations
  <2>2. DependsOn(i, f, "edit") = {First(i)} \union (f \intersect Preparations) /\ DependsOn(i, f, "review") = {"validate"}
    BY <1>1 DEF DependsOn, InitialDependsOn, EditDependsOn, Workstreams
  <2>3. \A n \in Workstreams \union {"validate"} : LastEditBefore(f, n) \in DependsOn(i, f, n)
    BY <1>1 DEF DependsOn, InitialDependsOn, Workstreams
  <2>4. \A n \in Items(i, f) : n # "review" => {"validate", "review"} \intersect DependsOn(i, f, n) = {}
    <3> SUFFICES ASSUME NEW n \in Items(i, f), n # "review" PROVE {"validate", "review"} \intersect DependsOn(i, f, n) = {}
      OBVIOUS
    <3>1. n \in {"research", "validate-baseline", "bootstrap", "analyze", "edit", "edit-docs", "edit-config", "edit-deps", "validate"}
      BY <1>1 DEF Items, First, Optional, Preparations, Workstreams
    <3>2. {"validate", "review"} \intersect EditDependsOn(1, f) = {}
      BY DEF EditDependsOn, First, Preparations
    <3>3. n \in Workstreams \union {"validate"} => LastEditBefore(f, n) \in {"edit", "edit-docs", "edit-config", "edit-deps"}
      BY LastEdits DEF Workstreams
    <3>4. CASE n \in {"research", "validate-baseline", "bootstrap", "analyze", "edit"}
      BY <1>1, <3>2, <3>4 DEF DependsOn, InitialDependsOn, Workstreams
    <3>5. CASE n \in Workstreams \union {"validate"}
      BY <1>1, <3>2, <3>3, <3>5 DEF DependsOn, InitialDependsOn, Workstreams
    <3> QED
      BY <3>1, <3>4, <3>5 DEF Workstreams
  <2> QED
    BY <2>1, <2>2, <2>3, <2>4
<1>2. CASE i # 1
  <2>1. \A n \in f \intersect Preparations : First(i) \in DependsOn(i, f, n)
    <3>1. First(i) = "replan"
      BY <1>2 DEF First
    <3>2. ASSUME NEW n \in Preparations PROVE DependsOn(i, f, n) = {"replan"}
      <4>1. n # "replan"
        BY DEF Preparations
      <4>2. DependsOn(i, f, n) = RepairDependsOn(i, f, n)
        BY <1>2 DEF DependsOn
      <4> QED
        BY <4>1, <4>2 DEF RepairDependsOn, Preparations, Workstreams
    <3> QED
      BY <3>1, <3>2
  <2>2. DependsOn(i, f, "edit") = {First(i)} \union (f \intersect Preparations) /\ DependsOn(i, f, "review") = {"validate"}
    BY <1>2 DEF DependsOn, RepairDependsOn, EditDependsOn, Workstreams, Preparations
  <2>3. \A n \in Workstreams \union {"validate"} : LastEditBefore(f, n) \in DependsOn(i, f, n)
    BY <1>2 DEF DependsOn, RepairDependsOn, Workstreams, Preparations
  <2>4. \A n \in Items(i, f) : n # "review" => {"validate", "review"} \intersect DependsOn(i, f, n) = {}
    <3> SUFFICES ASSUME NEW n \in Items(i, f), n # "review" PROVE {"validate", "review"} \intersect DependsOn(i, f, n) = {}
      OBVIOUS
    <3>1. n \in {"replan", "validate-baseline", "bootstrap", "analyze", "edit", "edit-docs", "edit-config", "edit-deps", "validate"}
      BY <1>2 DEF Items, First, Optional, Preparations, Workstreams
    <3>2. {"validate", "review"} \intersect EditDependsOn(i, f) = {}
      BY <1>2 DEF EditDependsOn, First, Preparations
    <3>3. n \in Workstreams \union {"validate"} => LastEditBefore(f, n) \in {"edit", "edit-docs", "edit-config", "edit-deps"}
      BY LastEdits DEF Workstreams
    <3>4. CASE n \in {"replan", "validate-baseline", "bootstrap", "analyze", "edit"}
      BY <1>2, <3>2, <3>4 DEF DependsOn, RepairDependsOn, Workstreams, Preparations
    <3>5. CASE n \in Workstreams \union {"validate"}
      BY <1>2, <3>3, <3>5 DEF DependsOn, RepairDependsOn, Workstreams, Preparations
    <3> QED
      BY <3>1, <3>4, <3>5 DEF Workstreams
  <2> QED
    BY <2>1, <2>2, <2>3, <2>4
<1> QED
  BY <1>1, <1>2

\* What is known of the cycles of a sole runner.
LEMMA CycleFacts ==
  ASSUME Inv, CycleInv
  PROVE  /\ Last \in Nat \ {0} /\ Last \in 1..MaxCycles /\ DOMAIN cyc = 1..Last
         /\ \A k \in 1..Last : cyc[k].plan \in SUBSET Optional /\ k \in Nat \ {0} /\ cyc[k].iter = k
         /\ \A k \in 1..Last : \A n \in Items(k, cyc[k].plan) :
              <<k, n>> \in Row /\ Iter(<<k, n>>) = k /\ Plan(<<k, n>>) = cyc[k].plan
         /\ \A r \in Present : r \in Row /\ r[1] \in 1..Last /\ r = <<r[1], r[2]>> /\ Iter(r) = r[1] /\ Plan(r) = cyc[r[1]].plan
<1> DEFINE Cycle == [iter : 1..MaxIterations, plan : SUBSET Optional]
<1>1. cyc \in Seq(Cycle) /\ Len(cyc) \in 1..MaxCycles
  BY DEF Inv, TypeOK
<1>2. DOMAIN cyc = 1..Last /\ Last \in Nat \ {0} /\ \A k \in 1..Last : cyc[k] \in Cycle
  <2> HIDE DEF Cycle
  <2> QED
    BY <1>1, ObjectiveAssumption DEF Last
<1>3. \A k \in 1..Last : cyc[k].plan \in SUBSET Optional /\ k \in Nat \ {0} /\ cyc[k].iter = k
  BY <1>2 DEF CycleInv
<1>4. ASSUME NEW k \in 1..Last, NEW n \in Items(k, cyc[k].plan)
      PROVE  <<k, n>> \in Row /\ Iter(<<k, n>>) = k /\ Plan(<<k, n>>) = cyc[k].plan
  <2>1. k \in 1..MaxCycles
    BY <1>1, <1>2, ObjectiveAssumption DEF Last
  <2>2. n \in Name
    BY <1>3 DEF Items, First, Optional, Preparations, Workstreams, Name
  <2> QED
    BY <1>3, <2>1, <2>2 DEF Row, Iter, Plan
<1>5. ASSUME NEW r \in Present
      PROVE  r \in Row /\ r[1] \in 1..Last /\ r = <<r[1], r[2]>> /\ Iter(r) = r[1] /\ Plan(r) = cyc[r[1]].plan
  <2>1. r \in Row /\ r[1] \in 1..Last
    BY <1>2 DEF Inv, TypeOK, Present
  <2>2. r = <<r[1], r[2]>>
    BY <2>1 DEF Row
  <2> QED
    BY <1>3, <2>1, <2>2 DEF Iter, Plan
<1> QED
  BY <1>1, <1>2, <1>3, <1>4, <1>5 DEF Last

\* What has been started in a cycle has its dependencies completed in that cycle.
LEMMA Chain ==
  ASSUME Inv, CycleInv, NEW k \in 1..Last, NEW n \in Items(k, cyc[k].plan),
         row[<<k, n>>] \notin {"absent", "created", "cancelled"},
         NEW m \in DependsOn(k, cyc[k].plan, n)
  PROVE  row[<<k, m>>] = "completed"
<1>1. <<k, n>> \in Row /\ Iter(<<k, n>>) = k /\ Plan(<<k, n>>) = cyc[k].plan
  BY CycleFacts
<1>2. <<k, n>> \in Present /\ Deps(<<k, n>>) = DependsOn(k, cyc[k].plan, n)
  BY <1>1 DEF Present, Deps
<1>3. DependenciesFirst
  BY DEF Inv, DepInv
<1>4. PICK s \in WithId(k, m) : row[s] = "completed"
  BY <1>1, <1>2, <1>3 DEF DependenciesFirst
<1>5. s \in Present /\ s[2] = m /\ Iter(s) = k
  BY <1>4 DEF WithId
<1>6. s = <<k, m>>
  BY <1>5, CycleFacts
<1> QED
  BY <1>4, <1>6

\* The items are started in the order in which the contract lists them, except
\* that the preparations may run side by side.
LEMMA InOrder ==
  ASSUME Inv, CycleInv, NEW k \in 1..Last, NEW n \in Items(k, cyc[k].plan),
         row[<<k, n>>] \notin {"absent", "created", "cancelled"},
         NEW m \in Items(k, cyc[k].plan), Position(m) < Position(n), n \notin Preparations \/ m = First(k)
  PROVE  row[<<k, m>>] = "completed"
<1> DEFINE f == cyc[k].plan
           St(x) == row[<<k, x>>] \notin {"absent", "created", "cancelled"}
           Co(x) == row[<<k, x>>] = "completed"
<1>1. f \in SUBSET Optional /\ k \in Nat \ {0}
  BY CycleFacts
<1>2. ASSUME NEW x \in Items(k, f), St(x), NEW y \in DependsOn(k, f, x) PROVE Co(y)
  BY <1>2, Chain
<1> HIDE DEF f
<1>3. {"edit", "validate", "review"} \subseteq Items(k, f) /\ f \subseteq Items(k, f)
  BY DEF Items
<1>4. \A x \in f \intersect Preparations : St(x) => Co(First(k))
  BY <1>1, <1>2, <1>3, DependsOnFacts
<1>5. St("edit") => Co(First(k)) /\ \A y \in f \intersect Preparations : Co(y)
  BY <1>1, <1>2, <1>3, DependsOnFacts
<1>6. \A x \in (f \intersect Workstreams) \union {"validate"} : St(x) => Co(LastEditBefore(f, x))
  <2>1. \A x \in Workstreams \union {"validate"} : LastEditBefore(f, x) \in DependsOn(k, f, x)
    BY <1>1, DependsOnFacts
  <2> QED
    BY <1>2, <1>3, <2>1
<1>7. St("review") => Co("validate")
  <2>1. "validate" \in DependsOn(k, f, "review")
    BY <1>1, DependsOnFacts
  <2> QED
    BY <1>2, <1>3, <2>1
<1>8. \A x : Co(x) => St(x)
  OBVIOUS
<1>9. m \in Items(k, f) /\ n \in Items(k, f) /\ St(n)
  BY DEF f
<1> HIDE DEF St, Co
<1>10. "edit-docs" \in f /\ St("edit-docs") => Co("edit")
  BY <1>1, <1>6, LastEdits DEF Workstreams
<1>11. "edit-config" \in f /\ St("edit-config") => Co("edit") /\ ("edit-docs" \in f => Co("edit-docs"))
  <2>1. "edit-config" \in f /\ St("edit-config") => Co(IF "edit-docs" \in f THEN "edit-docs" ELSE "edit")
    BY <1>1, <1>6, LastEdits DEF Workstreams
  <2> QED
    BY <1>8, <1>10, <2>1
<1>12. "edit-deps" \in f /\ St("edit-deps") =>
         Co("edit") /\ ("edit-docs" \in f => Co("edit-docs")) /\ ("edit-config" \in f => Co("edit-config"))
  <2>1. "edit-deps" \in f /\ St("edit-deps") =>
          Co(IF "edit-config" \in f THEN "edit-config" ELSE IF "edit-docs" \in f THEN "edit-docs" ELSE "edit")
    BY <1>1, <1>6, LastEdits DEF Workstreams
  <2> QED
    BY <1>8, <1>10, <1>11, <2>1
<1>13. St("validate") => Co("edit") /\ \A y \in f \intersect Workstreams : Co(y)
  <2>1. St("validate") =>
          Co(IF "edit-deps" \in f THEN "edit-deps" ELSE IF "edit-config" \in f THEN "edit-config"
             ELSE IF "edit-docs" \in f THEN "edit-docs" ELSE "edit")
    BY <1>1, <1>6, LastEdits DEF Workstreams
  <2> QED
    BY <1>8, <1>10, <1>11, <1>12, <2>1 DEF Workstreams
<1>14. Co(m)
  <2>1. CASE n = First(k)
    BY <2>1, <1>9, <1>1, Positions DEF First, Items, Optional, Preparations, Workstreams
  <2>2. CASE n \in f \intersect Preparations
    BY <1>4, <1>9, <2>2
  <2>3. \A y \in Items(k, f) : Position(y) < 4 => y = First(k) \/ y \in f \intersect Preparations
    BY <1>1, Positions DEF First, Items, Optional, Preparations, Workstreams
  <2>4. \A y \in Items(k, f) : Position(y) < 8 => Position(y) < 4 \/ y = "edit" \/ y \in f \intersect Workstreams
    BY <1>1, Positions DEF First, Items, Optional, Preparations, Workstreams
  <2>5. St("edit") => \A y \in Items(k, f) : Position(y) < 4 => Co(y)
    BY <1>5, <2>3
  <2>6. CASE n = "edit"
    BY <1>9, <2>5, <2>6, Positions
  <2>7. CASE n \in f \intersect Workstreams
    <3>1. Co("edit") /\ St("edit")
      BY <1>8, <1>9, <1>10, <1>11, <1>12, <2>7 DEF Workstreams
    <3>2. Position(m) < 4 \/ m = "edit" \/ m \in f \intersect Workstreams
      <4>1. Position(n) \in 5..7
        BY <2>7, Positions DEF Workstreams
      <4>2. Position(m) \in Nat
        BY <1>1, <1>9, Positions DEF First, Items, Optional, Preparations, Workstreams
      <4> QED
        BY <1>9, <2>4, <4>1, <4>2
    <3>3. m \in f \intersect Workstreams => Co(m)
      BY <1>9, <1>11, <1>12, <2>7, Positions DEF Workstreams
    <3> QED
      BY <1>9, <2>5, <3>1, <3>2, <3>3
  <2>8. St("validate") => \A y \in Items(k, f) : Position(y) < 8 => Co(y)
    BY <1>8, <1>13, <2>4, <2>5
  <2>9. CASE n = "validate"
    BY <1>9, <2>8, <2>9, Positions
  <2>10. CASE n = "review"
    <3>1. Co("validate") /\ St("validate")
      BY <1>7, <1>8, <1>9, <2>10
    <3>2. Position(m) < 8 \/ m = "validate"
      BY <1>1, <1>9, <2>10, Positions DEF First, Items, Optional, Preparations, Workstreams
    <3> QED
      BY <1>9, <2>8, <3>1, <3>2
  <2> QED
    BY <1>1, <1>9, <2>1, <2>2, <2>6, <2>7, <2>9, <2>10 DEF Items, Optional
<1> QED
  BY <1>14 DEF Co

\* Only the runner acts, and it acts only before its verdict.
LEMMA SoleSteps ==
  ASSUME Inv, CycleInv, deployed = {}, verdict' # "error", Next
  PROVE  HandlerStep(Runner) \/ ReconcileIgnored(Runner) \/ RunnerStep \/ ClientStep(Runner) \/ Expire
<1>1. ASSUME NEW p \in Procs, HandlerStep(p) \/ ReconcileIgnored(p) PROVE p = Runner
  <2>1. pc[p] # "idle"
    BY <1>1 DEF HandlerStep, MaterializeItem, ListReady, QueueItem, FailOverBudget, QueueDone, ReconcileRead,
                ReconcileWrite, ReconcileIgnored, Stop, StartRepair, CancelDependent, BeginCycle
  <2> QED
    BY <2>1 DEF CycleInv
<1>2. ASSUME NEW p \in Procs, HandlerFails(p) \/ BridgeLost(p) PROVE FALSE
  <2>1. pc[p] # "idle" /\ Abort(p)
    BY <1>2 DEF HandlerFails, BridgeLost, Handling, PC
  <2>2. p = Runner
    BY <2>1 DEF CycleInv
  <2> QED
    BY <2>1, <2>2 DEF Abort
<1>3. ASSUME NEW p \in Procs, OperatorResolves(p) PROVE FALSE
  BY <1>3 DEF OperatorResolves
<1>4. ASSUME NEW p \in Bridges, ClientStep(p) PROVE p = Runner
  <2>1. p \in Procs
    BY DEF Procs
  <2>2. CASE Claim(p)
    BY <2>2 DEF Claim
  <2>3. CASE Ask(p) \/ \E res \in Result : Submit(p, res)
    <3>1. pc[p] = "run"
      BY <2>3 DEF Ask, Submit
    <3> QED
      BY <2>1, <3>1 DEF CycleInv
  <2> QED
    BY <1>4, <2>2, <2>3 DEF ClientStep
<1>5. \A p \in Bridges : p \in Procs
  BY DEF Procs
<1> QED
  BY <1>1, <1>2, <1>3, <1>4, <1>5 DEF Next

\* A step of the runner within the cycle in force.
LEMMA SoleFrame ==
  ASSUME Inv, CycleInv, UNCHANGED cyc, superseded \subseteq superseded',
         NEW l, pc' = [pc EXCEPT ![Runner] = l],
         row' \in [Row -> TaskState \union {"absent"}],
         \A r \in Row : row'[r] # row[r] => r[1] = Last /\ r[2] \in LastItems
  PROVE  /\ CycleInv' /\ Here' = l
         /\ Last' = Last /\ LastItems' = LastItems /\ Outranked' = Outranked
<1>1. Last' = Last /\ LastItems' = LastItems /\ Outranked' = Outranked
  BY DEF Last, LastItems, Outranked
<1>2. Runner \in Procs /\ pc \in [Procs -> PC]
  BY DEF Procs, Bridges, Inv, TypeOK
<1>3. Here' = l /\ \A p \in Procs \ {Runner} : pc'[p] = "idle"
  BY <1>2 DEF Here, CycleInv
<1>4. \A r \in Present' : r[2] \in Items(r[1], cyc'[r[1]].plan)
  <2> SUFFICES ASSUME NEW r \in Row, row'[r] # "absent" PROVE r[2] \in Items(r[1], cyc[r[1]].plan)
    BY DEF Present
  <2>1. CASE row'[r] = row[r]
    BY <2>1 DEF CycleInv, Present
  <2>2. CASE row'[r] # row[r]
    BY <2>2 DEF LastItems
  <2> QED
    BY <2>1, <2>2
<1>5. \A r \in Present' : r[1] < Last => row'[r] = "completed" \/ (row'[r] = "cancelled" /\ r \in superseded')
  <2> SUFFICES ASSUME NEW r \in Row, row'[r] # "absent", r[1] < Last
               PROVE  row'[r] = "completed" \/ (row'[r] = "cancelled" /\ r \in superseded')
    BY DEF Present
  <2>1. row'[r] = row[r]
    BY CycleFacts DEF Row
  <2> QED
    BY <2>1 DEF CycleInv, Present
<1>6. \A k \in DOMAIN cyc' : cyc'[k].iter = k
  BY DEF CycleInv
<1> QED
  BY <1>1, <1>3, <1>4, <1>5, <1>6 DEF CycleInv

\* A step that changes neither rows nor cycles.
LEMMA QuietFrame ==
  ASSUME Inv, LiveInv, UNCHANGED <<cyc, row, superseded, accepted, latest>>, NEW l, pc' = [pc EXCEPT ![Runner] = l]
  PROVE  /\ CycleInv' /\ ShownInv' /\ Here' = l
         /\ Last' = Last /\ LastItems' = LastItems /\ Present' = Present /\ Fails' = Fails /\ Done' = Done
         /\ Explained' = Explained /\ Outranked' = Outranked
<1>1. row' \in [Row -> TaskState \union {"absent"}]
  BY DEF Inv, TypeOK
<1>2. CycleInv' /\ Here' = l /\ Last' = Last /\ LastItems' = LastItems /\ Outranked' = Outranked
  BY <1>1, SoleFrame DEF LiveInv
<1>3. Present' = Present /\ Fails' = Fails /\ Done' = Done
  BY DEF Present, Fails, Done
<1>4. Explained' = Explained
  BY <1>2 DEF Explained
<1>5. ShownInv'
  BY <1>2, <1>3, <1>4 DEF LiveInv, ShownInv, Now
<1> QED
  BY <1>2, <1>3, <1>4, <1>5

LEMMA RunnerFacts ==
  ASSUME Inv
  PROVE  /\ Runner \in Procs /\ Stacked(pc[Runner], ret[Runner])
         /\ pc \in [Procs -> PC] /\ at \in [Procs -> Row \union {NoRow}] /\ todo \in [Procs -> SUBSET Row]
         /\ ret \in [Procs -> Seq(PC)] /\ derived \in [Procs -> Status] /\ row \in [Row -> TaskState \union {"absent"}]
<1>1. Runner \in Procs
  BY DEF Procs, Bridges
<1> QED
  BY <1>1 DEF Inv, TypeOK, CtlInv

LEMMA SoleList ==
  ASSUME Inv, LiveInv, ListReady(Runner) \/ QueueDone(Runner)
  PROVE  LiveInv'
<1>f. /\ Runner \in Procs /\ Stacked(pc[Runner], ret[Runner])
      /\ pc \in [Procs -> PC] /\ todo \in [Procs -> SUBSET Row]
  BY RunnerFacts
<1>1. CASE ListReady(Runner)
  <2>1. /\ Here = "list" /\ pc' = [pc EXCEPT ![Runner] = "queue"] 
        /\ todo'[Runner] = {r \in Present : row[r] = "created" /\ DependenciesSatisfied(r)}
        /\ UNCHANGED <<cyc, row, superseded, accepted, latest, at, ret, derived, status, verdict, expired>>
    BY <1>1, <1>f DEF ListReady, Goto, Here
  <2>2. /\ CycleInv' /\ ShownInv' /\ Here' = "queue"
        /\ Last' = Last /\ LastItems' = LastItems /\ Present' = Present /\ Fails' = Fails /\ Done' = Done
        /\ Explained' = Explained /\ Outranked' = Outranked
    BY <2>1, QuietFrame
  <2>3. \A r \in todo'[Runner] : r[1] = Last /\ row[r] = "created"
    BY <2>1, CycleFacts DEF LiveInv, CycleInv
  <2>4. PlaceInv'
    BY <2>1, <2>2, <2>3 DEF LiveInv, PlaceInv, Now
  <2>5. ReviewInv'
    BY <2>1, <2>2 DEF LiveInv, ReviewInv, Now
  <2>6. VerdictInv'
    BY <2>1, <2>2 DEF LiveInv, VerdictInv
  <2> QED
    BY <2>2, <2>4, <2>5, <2>6 DEF LiveInv
<1>2. CASE QueueDone(Runner)
  <2>1. /\ Here = "queue" /\ pc' = [pc EXCEPT ![Runner] = "read"] /\ todo[Runner] = {} /\ ret[Runner] \in Bare
        /\ UNCHANGED <<cyc, row, superseded, accepted, latest, at, todo, ret, derived, status, verdict, expired>>
    BY <1>2, <1>f DEF QueueDone, Goto, Here, Stacked
  <2>2. /\ CycleInv' /\ ShownInv' /\ Here' = "read"
        /\ Last' = Last /\ LastItems' = LastItems /\ Present' = Present /\ Fails' = Fails /\ Done' = Done
        /\ Explained' = Explained /\ Outranked' = Outranked
    BY <2>1, QuietFrame
  <2>4. PlaceInv'
    BY <2>1, <2>2 DEF LiveInv, PlaceInv, Now
  <2>5. ReviewInv'
    BY <2>1, <2>2 DEF LiveInv, ReviewInv, Now
  <2>6. VerdictInv'
    <3>1. ret[Runner] \notin {<<"queue", "idle">>, <<"queue", "read", "idle">>, <<"loop">>}
      BY <2>1 DEF Bare
    <3> QED
      BY <2>1, <2>2, <3>1 DEF LiveInv, VerdictInv, Listing
  <2> QED
    BY <2>2, <2>4, <2>5, <2>6 DEF LiveInv
<1> QED
  BY <1>1, <1>2

LEMMA SoleReconcile ==
  ASSUME Inv, LiveInv, ReconcileRead(Runner) \/ ReconcileWrite(Runner) \/ ReconcileIgnored(Runner)
  PROVE  LiveInv'
<1>f. /\ Runner \in Procs /\ Stacked(pc[Runner], ret[Runner]) /\ pc \in [Procs -> PC]
      /\ ret \in [Procs -> Seq(PC)] /\ derived \in [Procs -> Status] /\ at \in [Procs -> Row \union {NoRow}]
  BY RunnerFacts
<1>1. CASE ReconcileRead(Runner)
  <2>1. /\ Here = "read" /\ pc' = [pc EXCEPT ![Runner] = "write"] /\ derived'[Runner] = DeriveStatus
        /\ UNCHANGED <<cyc, row, superseded, accepted, latest, at, todo, ret, status, verdict, expired>>
    BY <1>1, <1>f DEF ReconcileRead, Goto, Here
  <2>2. /\ CycleInv' /\ ShownInv' /\ Here' = "write"
        /\ Last' = Last /\ LastItems' = LastItems /\ Present' = Present /\ Fails' = Fails /\ Done' = Done
        /\ Explained' = Explained /\ Outranked' = Outranked
    BY <2>1, QuietFrame
  <2>3. \A r \in Present : row[r] = "cancelled" => r \in superseded
    <3> SUFFICES ASSUME NEW r \in Present, row[r] = "cancelled" PROVE r \in superseded
      OBVIOUS
    <3>1. r \in Row /\ r[1] \in 1..Last /\ r = <<r[1], r[2]>> /\ Last \in Nat /\ r[2] \in Items(r[1], cyc[r[1]].plan)
      BY CycleFacts DEF LiveInv, CycleInv
    <3>2. CASE r[1] = Last
      BY <2>1, <3>1, <3>2 DEF LiveInv, PlaceInv, LastItems, Now
    <3>3. CASE r[1] < Last
      BY <3>3 DEF LiveInv, CycleInv
    <3> QED
      BY <3>1, <3>2, <3>3
  <2>4. (DeriveStatus = "blocked" <=> Fails) /\ (DeriveStatus = "completed" => Done)
    <3>1. CASE Fails
      BY <3>1 DEF Fails, DeriveStatus
    <3>2. CASE ~Fails
      BY <2>3, <3>2 DEF Fails, Done, DeriveStatus, Terminal
    <3> QED
      BY <3>1, <3>2
  <2>5. PlaceInv'
    BY <2>1, <2>2 DEF LiveInv, PlaceInv, Now, Listing
  <2>6. ReviewInv'
    BY <2>1, <2>2 DEF LiveInv, ReviewInv, Now
  <2>7. VerdictInv'
    BY <2>1, <2>2, <2>4 DEF LiveInv, VerdictInv, Listing
  <2> QED
    BY <2>2, <2>5, <2>6, <2>7 DEF LiveInv
<1>2. CASE ReconcileWrite(Runner) \/ ReconcileIgnored(Runner)
  <2> DEFINE l == Head(ret[Runner])
             s == Tail(ret[Runner])
  <2>1. /\ Here \in {"read", "write"} /\ pc' = [pc EXCEPT ![Runner] = l] /\ ret'[Runner] = s
        /\ UNCHANGED <<cyc, row, superseded, accepted, latest, todo, derived, verdict, expired>>
    BY <1>2, <1>f DEF ReconcileWrite, ReconcileIgnored, Return, Goto, Here
  <2>w. \/ Here = "write" /\ status' = derived[Runner]
        \/ status' = status /\ ret[Runner] \in {<<"idle">>, <<"loop">>}
    BY <1>2 DEF ReconcileWrite, ReconcileIgnored, Here
  <2>2. \/ ret[Runner] = <<"idle">> /\ l = "idle" /\ s = <<>>
        \/ ret[Runner] = <<"loop">> /\ l = "loop" /\ s = <<>>
        \/ ret[Runner] = <<"read", "idle">> /\ l = "read" /\ s = <<"idle">>
    <3>1. ~ Listing(Here, ret[Runner])
      BY <2>1 DEF LiveInv, VerdictInv
    <3> QED
      BY <1>f, <2>1, <3>1, Pop DEF Stacked, Stacks, Bare, Here, Listing
  <2> HIDE DEF l, s
  <2>3. /\ CycleInv' /\ ShownInv' /\ Here' = l
        /\ Last' = Last /\ LastItems' = LastItems /\ Present' = Present /\ Fails' = Fails /\ Done' = Done
        /\ Explained' = Explained /\ Outranked' = Outranked
    BY <2>1, QuietFrame
  <2>4. l \in {"idle", "loop", "read"} /\ ~ Listing(l, s) /\ s # <<"loop">>
    <3>1. <<>> # <<"loop">> /\ <<"idle">> \notin {<<"loop">>, <<"queue", "idle">>, <<"queue", "read", "idle">>}
      OBVIOUS
    <3> QED
      BY <2>2, <3>1 DEF Listing
  <2>6. PlaceInv'
    BY <2>1, <2>3, <2>4 DEF LiveInv, PlaceInv, Now, Listing
  <2>7. ReviewInv'
    BY <2>1, <2>3 DEF LiveInv, ReviewInv, Now
  <2>8. VerdictInv'
    <3>1. verdict = "none"
      BY <2>1 DEF LiveInv, VerdictInv
    <3>2. status' = "completed" => Done
      BY <2>1, <2>w DEF LiveInv, VerdictInv
    <3>3. status' = "blocked" => Fails \/ (Explained /\ l = "idle")
      <4>1. CASE Here = "write" /\ status' = derived[Runner]
        BY <4>1 DEF LiveInv, VerdictInv
      <4>2. CASE status' = status /\ ret[Runner] \in {<<"idle">>, <<"loop">>}
        <5>1. status = "blocked" => Fails \/ (Explained /\ ret[Runner] # <<"loop">>)
          BY DEF LiveInv, VerdictInv
        <5>2. ret[Runner] = <<"loop">> \/ l = "idle"
          <6>1. <<"read", "idle">> \notin {<<"idle">>, <<"loop">>}
            OBVIOUS
          <6> QED
            BY <2>2, <4>2, <6>1
        <5> QED
          BY <4>2, <5>1, <5>2
      <4> QED
        BY <2>w, <4>1, <4>2
    <3> QED
      BY <2>1, <2>3, <2>4, <3>1, <3>2, <3>3 DEF VerdictInv
  <2> QED
    BY <2>3, <2>6, <2>7, <2>8 DEF LiveInv
<1> QED
  BY <1>1, <1>2

LEMMA SolePoll ==
  ASSUME Inv, LiveInv, Poll \/ NothingToClaim \/ Expire
  PROVE  LiveInv'
<1>f. /\ Runner \in Procs /\ Stacked(pc[Runner], ret[Runner]) /\ pc \in [Procs -> PC]
  BY RunnerFacts
<1>1. CASE Poll \/ NothingToClaim
  <2>1. PICK l \in {"idle", "loop"} : pc' = [pc EXCEPT ![Runner] = l]
    <3>1. CASE NothingToClaim
      BY <3>1 DEF NothingToClaim, Goto
    <3>2. CASE Poll
      <4>1. pc' = pc \/ pc' = [pc EXCEPT ![Runner] = "loop"]
        BY <3>2 DEF Poll, Goto
      <4>2. pc[Runner] = "idle"
        BY <3>2 DEF Poll
      <4>3. pc' = pc => pc' = [pc EXCEPT ![Runner] = "idle"]
        BY <1>f, <4>2
      <4> QED
        BY <4>1, <4>3
    <3> QED
      BY <1>1, <3>1, <3>2
  <2>2. /\ Here \in {"idle", "loop"} /\ ret[Runner] = <<>>
        /\ UNCHANGED <<cyc, row, superseded, accepted, latest, at, todo, ret, derived, status, expired>>
    BY <1>1, <1>f DEF Poll, NothingToClaim, Here, Stacked
  <2>3. verdict' # "none" => l = "idle" /\ status = verdict'
    <3>1. CASE NothingToClaim
      BY <2>2, <3>1 DEF NothingToClaim, LiveInv, VerdictInv, Here
    <3>2. CASE Poll
      <4>1. CASE status \in {"completed", "blocked"}
        <5>1. verdict' = status /\ pc' = pc /\ pc[Runner] = "idle"
          BY <3>2, <4>1 DEF Poll
        <5> QED
          BY <1>f, <2>1, <5>1
      <4>2. CASE status \notin {"completed", "blocked"}
        BY <3>2, <4>2 DEF Poll
      <4> QED
        BY <4>1, <4>2
    <3> QED
      BY <1>1, <3>1, <3>2
  <2>4. /\ CycleInv' /\ ShownInv' /\ Here' = l
        /\ Last' = Last /\ LastItems' = LastItems /\ Present' = Present /\ Fails' = Fails /\ Done' = Done
        /\ Explained' = Explained /\ Outranked' = Outranked
    BY <2>1, <2>2, QuietFrame
  <2>5. PlaceInv'
    BY <2>1, <2>2, <2>4 DEF LiveInv, PlaceInv, Now, Listing
  <2>6. ReviewInv'
    BY <2>2, <2>4 DEF LiveInv, ReviewInv, Now
  <2>7. VerdictInv'
    <3>1. l = "loop" => status # "blocked" \/ Fails
      <4>1. CASE Here = "loop"
        BY <4>1 DEF LiveInv, VerdictInv
      <4>2. CASE Here = "idle"
        <5>1. Poll
          BY <1>1, <4>2 DEF NothingToClaim, Here
        <5>2. status = "blocked" => pc' = pc
          BY <5>1 DEF Poll
        <5> QED
          BY <1>f, <2>1, <4>2, <5>2 DEF Here
      <4> QED
        BY <2>2, <4>1, <4>2
    <3>2. <<>> # <<"loop">>
      OBVIOUS
    <3> QED
      BY <2>1, <2>2, <2>3, <2>4, <3>1, <3>2 DEF LiveInv, VerdictInv
  <2> QED
    BY <2>4, <2>5, <2>6, <2>7 DEF LiveInv
<1>2. CASE Expire
  <2>1. /\ UNCHANGED <<cyc, row, superseded, accepted, latest, at, todo, ret, derived, status, verdict, pc>> /\ expired' = TRUE
    BY <1>2 DEF Expire
  <2>2. pc' = [pc EXCEPT ![Runner] = pc[Runner]]
    BY <1>f, <2>1
  <2>3. /\ CycleInv' /\ ShownInv' /\ Here' = Here
        /\ Last' = Last /\ LastItems' = LastItems /\ Present' = Present /\ Fails' = Fails /\ Done' = Done
        /\ Explained' = Explained /\ Outranked' = Outranked
    BY <2>1, <2>2, QuietFrame DEF Here
  <2>4. PlaceInv'
    BY <2>1, <2>3 DEF LiveInv, PlaceInv, Now
  <2>5. ReviewInv'
    BY <2>1, <2>3 DEF LiveInv, ReviewInv, Now
  <2>6. VerdictInv'
    BY <2>1, <2>3 DEF LiveInv, VerdictInv
  <2> QED
    BY <2>3, <2>4, <2>5, <2>6 DEF LiveInv
<1> QED
  BY <1>1, <1>2

LEMMA SoleStartRepair ==
  ASSUME Inv, LiveInv, StartRepair(Runner)
  PROVE  LiveInv'
<1>f. /\ Runner \in Procs /\ Stacked(pc[Runner], ret[Runner]) /\ pc \in [Procs -> PC]
      /\ todo \in [Procs -> SUBSET Row]
  BY RunnerFacts
<1>1. /\ Here = "repair" /\ ret[Runner] \in Bare
      /\ UNCHANGED <<cyc, row, superseded, accepted, latest, at, ret, derived, status, verdict, expired>>
  BY <1>f DEF StartRepair, Here, Stacked
<1>2. ~Fails /\ verdict = "none" /\ status \notin {"completed", "blocked"}
  BY <1>1 DEF LiveInv, VerdictInv
<1>3. CASE expired
  <2>1. pc' = [pc EXCEPT ![Runner] = "read"] /\ todo' = todo
    BY <1>3 DEF StartRepair, Goto
  <2>2. /\ CycleInv' /\ ShownInv' /\ Here' = "read"
        /\ Last' = Last /\ LastItems' = LastItems /\ Present' = Present /\ Fails' = Fails /\ Done' = Done
        /\ Explained' = Explained /\ Outranked' = Outranked
    BY <1>1, <2>1, QuietFrame
  <2>3. ret[Runner] \notin {<<"queue", "idle">>, <<"queue", "read", "idle">>}
    BY <1>1 DEF Bare
  <2>4. PlaceInv'
    BY <1>1, <2>1, <2>2, <2>3 DEF LiveInv, PlaceInv, Now, Listing
  <2>5. ReviewInv'
    <3>1. Last < MaxIterations
      <4>1. PICK w : w = at[Runner]
        OBVIOUS
      <4>2. w[1] = Last /\ row[w] = "completed" /\ w \in Row /\ Iter(w) < MaxIterations
        BY <1>1, <1>f, <4>1 DEF LiveInv, PlaceInv, Here, Inv, CtlInv, Known
      <4>3. Iter(w) = Last
        BY <4>2, CycleFacts DEF LiveInv, Present
      <4> QED
        BY <4>2, <4>3
    <3> QED
      BY <1>1, <1>3, <2>2, <3>1 DEF ReviewInv
  <2>6. VerdictInv'
    BY <1>1, <1>2, <2>2, <2>3 DEF VerdictInv, Listing
  <2> QED
    BY <2>2, <2>4, <2>5, <2>6 DEF LiveInv
<1>4. CASE ~expired
  <2>1. pc' = [pc EXCEPT ![Runner] = "cancel"] /\ todo'[Runner] = Supersedable(at[Runner])
    BY <1>4, <1>f DEF StartRepair, Goto
  <2>2. /\ CycleInv' /\ ShownInv' /\ Here' = "cancel"
        /\ Last' = Last /\ LastItems' = LastItems /\ Present' = Present /\ Fails' = Fails /\ Done' = Done
        /\ Explained' = Explained /\ Outranked' = Outranked
    BY <1>1, <2>1, QuietFrame
  <2>3. PICK w : w = at[Runner]
    OBVIOUS
  <2>4. w[1] = Last /\ w[2] \in LastItems /\ w[2] \in {"validate", "review"} /\ row[w] = "completed" /\ w \in Row
        /\ (w[2] = "validate" => row[Now("review")] = "created")
    BY <1>1, <1>f, <2>3 DEF LiveInv, PlaceInv, Here, Inv, CtlInv, Known
  <2>5. w \in Present /\ w = Now(w[2]) /\ Iter(w) = Last
    BY <2>4, CycleFacts DEF LiveInv, Present, Now
  <2>6. ASSUME NEW s \in Present, Iter(s) = Iter(w)
        PROVE  /\ "review" \notin Deps(s) /\ ("validate" \in Deps(s) => s = Now("review")) /\ (s = Now("review") => "validate" \in Deps(s))
    <3>1. s[1] = Last /\ s = <<s[1], s[2]>> /\ Plan(s) = cyc[Last].plan /\ Iter(s) = Last
      BY <2>5, <2>6, CycleFacts DEF LiveInv
    <3>2. s[2] \in Items(Last, cyc[Last].plan) /\ Last \in Nat \ {0} /\ cyc[Last].plan \in SUBSET Optional
      BY <3>1, CycleFacts DEF LiveInv, CycleInv
    <3>3. Deps(s) = DependsOn(Last, cyc[Last].plan, s[2])
      BY <3>1 DEF Deps
    <3>4. "review" \notin Deps(s) /\ ("validate" \in Deps(s) => s[2] = "review")
      <4>1. PICK c, f, n : c = Last /\ f = cyc[Last].plan /\ n = s[2]
        OBVIOUS
      <4>2. c \in Nat \ {0} /\ f \in SUBSET Optional /\ n \in Items(c, f)
        BY <3>2, <4>1
      <4>3. "review" \notin DependsOn(c, f, n) /\ ("validate" \in DependsOn(c, f, n) => n = "review")
        BY <4>2, DependsOnFacts
      <4> QED
        BY <3>3, <4>1, <4>3
    <3>5. s[2] = "review" => "validate" \in Deps(s)
      BY <3>2, <3>3, DependsOnFacts
    <3> QED
      BY <3>1, <3>4, <3>5 DEF Now
  <2>7. w[2] = "validate" => Supersedable(w) = {Now("review")}
    <3> SUFFICES ASSUME w[2] = "validate" PROVE Supersedable(w) = {Now("review")}
      OBVIOUS
    <3>1. Now("review") \in Present /\ Now("review") # w /\ Iter(Now("review")) = Iter(w)
      <4>1. "review" \in LastItems
        BY DEF LastItems, Items
      <4>2. Now("review") \in Row /\ Iter(Now("review")) = Last
        BY <4>1, CycleFacts DEF LiveInv, Now, LastItems
      <4> QED
        BY <2>4, <2>5, <4>2 DEF Present, Now
    <3>2. DependOn(w, {"validate"}) = {Now("review")}
      BY <2>6, <3>1 DEF DependOn
    <3>3. {s[2] : s \in {Now("review")}} = {"review"}
      BY DEF Now
    <3>4. DependOn(w, {"review"}) = {}
      BY <2>6 DEF DependOn
    <3>5. AllDependents(w) = {Now("review")}
      BY <3>2, <3>3, <3>4 DEF AllDependents
    <3> QED
      BY <2>4, <3>5 DEF Supersedable
  <2>8. w[2] = "review" => Supersedable(w) = {}
    <3> SUFFICES ASSUME w[2] = "review" PROVE AllDependents(w) = {}
      BY DEF Supersedable
    <3>1. DependOn(w, {"review"}) = {}
      BY <2>6 DEF DependOn
    <3>2. {s[2] : s \in {}} = {} /\ DependOn(w, {}) = {}
      BY DEF DependOn
    <3> QED
      BY <3>1, <3>2 DEF AllDependents
  <2>9. PlaceInv'
    <3>2. todo'[Runner] = IF w[2] = "validate" THEN {Now("review")} ELSE {}
      BY <2>1, <2>3, <2>4, <2>7, <2>8
    <3>3. Now("review")' = Now("review") /\ \A n : Now(n)' = Now(n)
      BY <2>2 DEF Now
    <3>4. \A n \in LastItems : row[Now(n)] \notin {"absent", "cancelled"}
      BY <1>1 DEF LiveInv, PlaceInv
    <3> QED
      BY <1>1, <2>2, <2>3, <2>4, <3>2, <3>3, <3>4 DEF PlaceInv, Listing
  <2>10. ReviewInv'
    BY <1>1, <2>2 DEF LiveInv, ReviewInv, Now
  <2>11. VerdictInv'
    BY <1>1, <1>2, <2>2 DEF VerdictInv
  <2> QED
    BY <2>2, <2>9, <2>10, <2>11 DEF LiveInv
<1> QED
  BY <1>3, <1>4

\* A step that sets one row of the cycle in force.
Sets(r, x, l) ==
  /\ UNCHANGED cyc /\ superseded \subseteq superseded' /\ pc' = [pc EXCEPT ![Runner] = l]
  /\ r \in Row /\ r[1] = Last /\ r[2] \in LastItems /\ x \in TaskState /\ SetRow(r, x)

LEMMA RowFrame ==
  ASSUME Inv, LiveInv, NEW r, NEW x, NEW l, Sets(r, x, l), row[r] # "failed"
  PROVE  /\ CycleInv' /\ Here' = l /\ r = Now(r[2])
         /\ Last' = Last /\ LastItems' = LastItems /\ Outranked' = Outranked /\ \A n : Now(n)' = Now(n)
         /\ row'[r] = x /\ \A n \in LastItems \ {r[2]} : row'[Now(n)] = row[Now(n)]
         /\ \A u \in Row \ {r} : row'[u] = row[u]
         /\ Fails' => Fails \/ x = "failed"
         /\ Fails => Fails'
         /\ UNCHANGED latest /\ x # "failed" /\ row[r] # "completed" => ShownInv'
         /\ row[r] \notin {"completed", "cancelled", "absent"} => ~Done
<1>1. row \in [Row -> TaskState \union {"absent"}]
  BY RunnerFacts
<1>h. /\ UNCHANGED cyc /\ superseded \subseteq superseded' /\ pc' = [pc EXCEPT ![Runner] = l]
      /\ r \in Row /\ r[1] = Last /\ r[2] \in LastItems /\ x \in TaskState
  BY DEF Sets
<1>2. row' = [row EXCEPT ![r] = x]
  BY DEF SetRow, Sets
<1>3. row' \in [Row -> TaskState \union {"absent"}] /\ row'[r] = x /\ \A u \in Row \ {r} : row'[u] = row[u]
  BY <1>h, <1>1, <1>2
<1>4. CycleInv' /\ Here' = l /\ Last' = Last /\ LastItems' = LastItems /\ Outranked' = Outranked
  BY <1>h, <1>3, SoleFrame DEF LiveInv
<1>5. r = Now(r[2]) /\ \A n : Now(n)' = Now(n)
  BY <1>h, <1>4 DEF Row, Now
<1>6. ASSUME NEW n \in LastItems, n # r[2] PROVE row'[Now(n)] = row[Now(n)]
  <2>1. Now(n) \in Row
    BY CycleFacts DEF LiveInv, LastItems, Now
  <2>2. Now(n) # r
    BY <1>h, <1>6 DEF Now
  <2> QED
    BY <1>3, <2>1, <2>2
<1>7. (Fails' => Fails \/ x = "failed") /\ (Fails => Fails')
  <2>1. \A u \in Row \ {r} : row'[u] = row[u]
    BY <1>3
  <2>2. "failed" # "absent"
    OBVIOUS
  <2> QED
    BY <1>h, <1>3, <2>1, <2>2 DEF Fails, Present
<1>8. UNCHANGED latest /\ x # "failed" /\ row[r] # "completed" => ShownInv'
  <2> SUFFICES ASSUME UNCHANGED latest, x # "failed", row[r] # "completed" PROVE ShownInv'
    OBVIOUS
  <2>1. latest.iter <= Last
    BY DEF LiveInv, ShownInv
  <2>2. ASSUME latest.iter = Last, ~Outranked
        PROVE  \E n \in LastItems : Kind(n) = latest.kind /\ row'[Now(n)] \in {"completed", "failed"}
    <3>1. PICK n \in LastItems : Kind(n) = latest.kind /\ row[Now(n)] \in {"completed", "failed"}
      BY <2>2 DEF LiveInv, ShownInv
    <3>2. n # r[2]
      BY <1>5, <3>1
    <3> QED
      BY <1>6, <3>1, <3>2
  <2> QED
    BY <1>4, <1>5, <1>7, <2>1, <2>2 DEF LiveInv, ShownInv, Explained
<1>9. row[r] \notin {"completed", "cancelled", "absent"} => ~Done
  BY <1>h DEF Done, Present
<1> QED
  BY <1>3, <1>4, <1>5, <1>6, <1>7, <1>8, <1>9

LEMMA SoleCreate ==
  ASSUME Inv, LiveInv, MaterializeItem(Runner)
  PROVE  LiveInv'
<1>f. /\ Runner \in Procs /\ Stacked(pc[Runner], ret[Runner]) /\ pc \in [Procs -> PC]
      /\ todo \in [Procs -> SUBSET Row]
  BY RunnerFacts
<1>1. PICK r \in todo[Runner] :
        /\ SetRow(r, "created") /\ todo' = [todo EXCEPT ![Runner] = @ \ {r}]
        /\ Goto(Runner, IF todo[Runner] = {r} THEN "list" ELSE "create")
  BY DEF MaterializeItem
<1>2. /\ Here = "create" /\ ~Fails /\ verdict = "none" /\ status \notin {"completed", "blocked"}
      /\ UNCHANGED <<cyc, superseded, accepted, latest, at, ret, derived, status, verdict, expired>>
  BY DEF MaterializeItem, Here, LiveInv, VerdictInv
<1>3. r \in Row /\ r[1] = Last /\ r[2] \in LastItems
  BY <1>2, <1>f DEF LiveInv, PlaceInv
<1>4. PICK l, x : /\ l = (IF todo[Runner] = {r} THEN "list" ELSE "create") /\ pc' = [pc EXCEPT ![Runner] = l]
                  /\ x = "created" /\ SetRow(r, x)
  BY <1>1 DEF Goto
<1>5. /\ CycleInv' /\ Here' = l /\ r = Now(r[2])
      /\ Last' = Last /\ LastItems' = LastItems /\ \A n : Now(n)' = Now(n)
      /\ row'[r] = x /\ \A n \in LastItems \ {r[2]} : row'[Now(n)] = row[Now(n)]
      /\ ~Fails' /\ ShownInv'
  <2>1. superseded \subseteq superseded' /\ x \in TaskState /\ x # "failed"
    BY <1>2, <1>4 DEF TaskState
  <2>2. row[r] = "absent"
    BY <1>2, <1>3 DEF LiveInv, PlaceInv, Row, Now
  <2>3. Sets(r, x, l)
    BY <1>2, <1>3, <1>4, <2>1 DEF Sets
  <2> QED
    BY <1>2, <2>1, <2>2, <2>3, RowFrame
<1>t. todo'[Runner] = todo[Runner] \ {r}
  BY <1>1, <1>f
<1>6. \A n \in LastItems : row[Now(n)] = IF Now(n) \in todo[Runner] THEN "absent" ELSE "created"
  BY <1>2 DEF LiveInv, PlaceInv
<1>7. \A n \in LastItems : row'[Now(n)] = IF Now(n) \in todo'[Runner] THEN "absent" ELSE "created"
  <2>1. \A n \in LastItems : n # r[2] => Now(n) # r
    BY DEF Now
  <2> QED
    BY <1>t, <1>4, <1>5, <1>6, <2>1
<1>8. CASE todo[Runner] = {r}
  <2>1. Here' = "list" /\ todo'[Runner] = {}
    BY <1>t, <1>4, <1>5, <1>8
  <2>2. PlaceInv'
    BY <1>2, <1>5, <1>7, <2>1 DEF PlaceInv, Listing
  <2>3. ReviewInv'
    <3>1. "review" \in LastItems
      BY DEF LastItems, Items
    <3> QED
      BY <1>5, <1>7, <2>1, <3>1 DEF ReviewInv
  <2>4. VerdictInv'
    BY <1>2, <1>5, <2>1 DEF VerdictInv
  <2> QED
    BY <1>5, <2>2, <2>3, <2>4 DEF LiveInv
<1>9. CASE todo[Runner] # {r}
  <2>1. Here' = "create" /\ todo'[Runner] \subseteq todo[Runner]
    BY <1>t, <1>4, <1>5, <1>9
  <2>2. PlaceInv'
    <3>1. \A u \in todo'[Runner] : u[1] = Last /\ u[2] \in LastItems
      BY <1>2, <2>1 DEF LiveInv, PlaceInv
    <3> QED
      BY <1>2, <1>5, <1>7, <2>1, <3>1 DEF PlaceInv, Listing
  <2>3. ReviewInv'
    <3>1. "review" \in LastItems
      BY DEF LastItems, Items
    <3> QED
      BY <1>5, <1>7, <2>1, <3>1 DEF ReviewInv
  <2>4. VerdictInv'
    BY <1>2, <1>5, <2>1 DEF VerdictInv
  <2> QED
    BY <1>5, <2>2, <2>3, <2>4 DEF LiveInv
<1> QED
  BY <1>8, <1>9

LEMMA SoleQueue ==
  ASSUME Inv, LiveInv, verdict' # "error", QueueItem(Runner) \/ FailOverBudget(Runner)
  PROVE  LiveInv'
<1>f. /\ Runner \in Procs /\ Stacked(pc[Runner], ret[Runner]) /\ pc \in [Procs -> PC]
      /\ todo \in [Procs -> SUBSET Row]
  BY RunnerFacts
<1>1. /\ Here = "queue" /\ verdict = "none" /\ Listing(Here, ret[Runner])
      /\ status # "completed" /\ (status = "blocked" => Fails)
  BY DEF QueueItem, FailOverBudget, Here, Listing, LiveInv, VerdictInv
<1>2. \A r \in todo[Runner] : r \in Row /\ r[1] = Last /\ row[r] = "created" /\ r[2] \in LastItems
  <2>1. \A r \in todo[Runner] : r \in Row /\ r[1] = Last /\ row[r] = "created"
    BY <1>1, <1>f DEF LiveInv, PlaceInv
  <2> QED
    BY <2>1 DEF LiveInv, CycleInv, Present, LastItems
<1>3. CASE FailOverBudget(Runner)
  <2>1. PICK r \in todo[Runner] : ~IsValidTransition(row[r], "failed") => Abort(Runner)
    BY <1>3 DEF FailOverBudget
  <2>2. ~IsValidTransition(row[r], "failed")
    BY <1>2 DEF IsValidTransition, ValidTransitions
  <2> QED
    BY <2>1, <2>2 DEF Abort
<1>4. CASE QueueItem(Runner)
  <2>1. PICK r \in todo[Runner] :
          row[r] \in LaunchableFrom =>
            /\ SetRow(r, "queued") /\ todo' = [todo EXCEPT ![Runner] = @ \ {r}]
            /\ UNCHANGED <<pc, at, ret, verdict>>
    BY <1>4 DEF QueueItem
  <2>2. UNCHANGED <<cyc, superseded, accepted, latest, derived, status, expired>>
    BY <1>4 DEF QueueItem
  <2>3. /\ SetRow(r, "queued") /\ todo'[Runner] = todo[Runner] \ {r} /\ UNCHANGED <<pc, at, ret, verdict>>
        /\ r \in Row /\ r[1] = Last /\ row[r] = "created" /\ r[2] \in LastItems
    BY <1>2, <1>f, <2>1 DEF LaunchableFrom
  <2>4. PICK x, l : x = "queued" /\ l = "queue"
    OBVIOUS
  <2>5. Sets(r, x, l)
    BY <1>1, <1>f, <2>2, <2>3, <2>4 DEF Sets, TaskState, Here
  <2>6. /\ CycleInv' /\ Here' = "queue" /\ r = Now(r[2])
        /\ Last' = Last /\ LastItems' = LastItems /\ \A n : Now(n)' = Now(n)
        /\ row'[r] = "queued" /\ \A n \in LastItems \ {r[2]} : row'[Now(n)] = row[Now(n)]
        /\ \A u \in Row \ {r} : row'[u] = row[u]
        /\ (Fails => Fails') /\ ShownInv'
    BY <1>1, <2>2, <2>3, <2>4, <2>5, RowFrame
  <2>7. \A u \in todo'[Runner] : u[1] = Last /\ row'[u] = "created"
    BY <1>2, <2>3, <2>6
  <2>8. \A n \in LastItems : row'[Now(n)] \notin {"absent", "cancelled"}
    BY <1>1, <2>6 DEF LiveInv, PlaceInv
  <2>9. PlaceInv'
    BY <2>6, <2>7, <2>8 DEF PlaceInv
  <2>10. ReviewInv'
    <3>1. "review" \in LastItems
      BY DEF LastItems, Items
    <3>2. row'[Now("review")] = "completed" => row[Now("review")] = "completed"
      BY <2>6, <3>1
    <3> QED
      BY <1>1, <2>2, <2>6, <3>2 DEF LiveInv, ReviewInv
  <2>11. VerdictInv'
    BY <1>1, <2>2, <2>3, <2>6 DEF VerdictInv
  <2> QED
    BY <2>6, <2>9, <2>10, <2>11 DEF LiveInv
<1> QED
  BY <1>3, <1>4

LEMMA SoleCancel ==
  ASSUME Inv, LiveInv, CancelDependent(Runner)
  PROVE  LiveInv'
<1>f. /\ Runner \in Procs /\ Stacked(pc[Runner], ret[Runner]) /\ pc \in [Procs -> PC]
      /\ todo \in [Procs -> SUBSET Row]
  BY RunnerFacts
<1>1. /\ Here = "cancel" /\ ~Fails /\ verdict = "none" /\ status \notin {"completed", "blocked"}
      /\ "review" \in LastItems
  BY DEF CancelDependent, Here, LiveInv, VerdictInv, LastItems, Items
<1>2. PICK r \in todo[Runner] :
        /\ superseded' = superseded \union {r}
        /\ IsValidTransition(row[r], "cancelled") =>
             /\ SetRow(r, "cancelled") /\ todo' = [todo EXCEPT ![Runner] = @ \ {r}]
             /\ UNCHANGED <<pc, at, ret, verdict>>
  BY DEF CancelDependent
<1>3. UNCHANGED <<cyc, accepted, latest, derived, status, expired>>
  BY DEF CancelDependent
<1>4. r = Now("review") /\ todo[Runner] = {r} /\ row[r] = "created" /\ at[Runner][2] = "validate" /\ r \in Row
  BY <1>1, <1>2, <1>f DEF LiveInv, PlaceInv
<1>5. SetRow(r, "cancelled") /\ todo'[Runner] = {} /\ UNCHANGED <<pc, at, ret, verdict>>
  BY <1>2, <1>4, <1>f DEF IsValidTransition, ValidTransitions
<1>6. r[1] = Last /\ r[2] = "review"
  BY <1>4 DEF Now
<1>7. PICK x, l : x = "cancelled" /\ l = "cancel"
  OBVIOUS
<1>8. Sets(r, x, l)
  BY <1>1, <1>2, <1>3, <1>4, <1>5, <1>6, <1>7, <1>f DEF Sets, TaskState, Here
<1>9. /\ CycleInv' /\ Here' = "cancel"
      /\ Last' = Last /\ LastItems' = LastItems /\ \A n : Now(n)' = Now(n)
      /\ row'[r] = "cancelled" /\ \A n \in LastItems \ {r[2]} : row'[Now(n)] = row[Now(n)]
      /\ \A u \in Row \ {r} : row'[u] = row[u]
      /\ ~Fails' /\ ShownInv'
  BY <1>1, <1>3, <1>4, <1>7, <1>8, RowFrame
<1>10. PlaceInv'
  <2>1. PICK w : w = at[Runner]
    OBVIOUS
  <2>2. w[1] = Last /\ w[2] = "validate" /\ w[2] \in LastItems /\ row[w] = "completed"
    BY <1>1, <1>4, <2>1 DEF LiveInv, PlaceInv
  <2>3. row'[w] = "completed"
    <3>1. w \in Row
      BY <1>1, <1>f, <2>1 DEF Inv, CtlInv, Known, Here
    <3> QED
      BY <1>6, <1>9, <2>2, <3>1
  <2>4. \A n \in LastItems : row'[Now(n)] # "absent"
    BY <1>1, <1>6, <1>9, <1>4 DEF LiveInv, PlaceInv
  <2> QED
    BY <1>2, <1>4, <1>5, <1>9, <2>1, <2>2, <2>3, <2>4 DEF PlaceInv, Listing
<1>11. ReviewInv'
  BY <1>4, <1>9 DEF ReviewInv
<1>12. VerdictInv'
  BY <1>1, <1>3, <1>5, <1>9 DEF VerdictInv
<1> QED
  BY <1>9, <1>10, <1>11, <1>12 DEF LiveInv

\* Only items of the cycle in force are neither completed nor cancelled.
LEMMA CurrentRow ==
  ASSUME Inv, LiveInv, NEW r \in Present, row[r] \notin {"completed", "cancelled"}
  PROVE  r \in Row /\ r[1] = Last /\ r[2] \in LastItems
<1>1. r \in Row /\ r[1] \in 1..Last /\ Last \in Nat
  BY CycleFacts DEF LiveInv
<1>2. r[1] = Last
  BY <1>1 DEF LiveInv, CycleInv
<1> QED
  BY <1>1, <1>2 DEF LiveInv, CycleInv, LastItems

LEMMA SoleClaim ==
  ASSUME Inv, LiveInv, verdict' # "error", Claim(Runner) \/ Ask(Runner) \/ RunnerResolves
  PROVE  LiveInv'
<1>f. /\ Runner \in Procs /\ Stacked(pc[Runner], ret[Runner]) /\ pc \in [Procs -> PC]
      /\ at \in [Procs -> Row \union {NoRow}] /\ ret \in [Procs -> Seq(PC)]
  BY RunnerFacts
<1>1. Here \in {"loop", "run"} /\ ret[Runner] = <<>>
  BY <1>f, ObjectiveAssumption DEF Claim, Ask, RunnerResolves, Here, Stacked
<1>2. verdict = "none" /\ "review" \in LastItems /\ (status = "completed" => Done) /\ (status = "blocked" => Fails)
  <2>1. Here \in {"loop", "run"} => verdict = "none"
    BY <1>1 DEF LiveInv, VerdictInv
  <2> QED
    BY <1>1, <2>1 DEF LiveInv, VerdictInv, LastItems, Items
<1>3. PICK r \in Present, x \in {"in_progress", "waiting_approval", "queued"}, l \in {"run", "idle", "read"} :
        /\ row[r] \in {"queued", "in_progress", "waiting_approval"} /\ SetRow(r, x) /\ pc' = [pc EXCEPT ![Runner] = l]
        /\ l = "run" => at'[Runner] = r
        /\ l = "read" => ret'[Runner] = <<"loop">>
        /\ UNCHANGED <<cyc, superseded, accepted, latest, derived, status, expired, todo, verdict>>
  <2>1. CASE Claim(Runner)
    BY <2>1, <1>f DEF Claim, Goto
  <2>2. CASE Ask(Runner)
    <3>1. PICK w : w = at[Runner]
      OBVIOUS
    <3>2. w \in Row
      BY <2>2, <1>f, <3>1 DEF Ask, Inv, CtlInv, Known
    <3>3. row[w] = "in_progress"
      BY <2>2, <3>1 DEF Ask, Abort
    <3>4. w \in Present
      BY <3>2, <3>3 DEF Present
    <3> QED
      BY <2>2, <3>1, <3>3, <3>4 DEF Ask, Goto
  <2>3. CASE RunnerResolves
    <3>1. PICK r \in Waiting : Resolve(Runner, r, TRUE, "loop")
      BY <2>3 DEF RunnerResolves
    <3>2. r \in Present /\ row[r] = "waiting_approval"
      BY DEF Waiting
    <3>3. /\ SetRow(r, "queued") /\ pc' = [pc EXCEPT ![Runner] = "read"] /\ ret'[Runner] = <<"loop">>
          /\ UNCHANGED <<cyc, superseded, accepted, latest, derived, status, expired, todo, verdict>>
      BY <1>f, <3>1 DEF Resolve, Goto
    <3> QED
      BY <3>2, <3>3
  <2> QED
    BY <2>1, <2>2, <2>3
<1>4. r \in Row /\ r[1] = Last /\ r[2] \in LastItems
  BY <1>3, CurrentRow
<1>5. Sets(r, x, l)
  BY <1>3, <1>4 DEF Sets, TaskState
<1>6. /\ CycleInv' /\ Here' = l /\ r = Now(r[2])
      /\ Last' = Last /\ LastItems' = LastItems /\ \A n : Now(n)' = Now(n)
      /\ row'[r] = x /\ \A n \in LastItems \ {r[2]} : row'[Now(n)] = row[Now(n)]
      /\ (Fails => Fails') /\ ShownInv' /\ ~Done
  <2>1. row[r] \notin {"completed", "cancelled", "absent"} /\ x # "failed"
    BY <1>3
  <2> QED
    BY <1>2, <1>3, <1>5, <2>1, RowFrame
<1>7. \A n \in LastItems : row'[Now(n)] \notin {"absent", "cancelled"}
  <2>1. \A n \in LastItems : row[Now(n)] \notin {"absent", "cancelled"}
    BY <1>1 DEF LiveInv, PlaceInv
  <2> QED
    BY <1>3, <1>6, <2>1
<1>8. PlaceInv'
  <2>1. <<"loop">> \notin {<<"queue", "idle">>, <<"queue", "read", "idle">>}
    OBVIOUS
  <2>2. ~Listing(l, ret'[Runner])
    BY <1>3, <2>1 DEF Listing
  <2> QED
    BY <1>3, <1>4, <1>6, <1>7, <2>2 DEF PlaceInv, Listing
<1>9. ReviewInv'
  <2>1. row'[Now("review")] = "completed" => row[Now("review")] = "completed"
    BY <1>2, <1>3, <1>6
  <2> QED
    BY <1>1, <1>3, <1>6, <2>1 DEF LiveInv, ReviewInv
<1>10. VerdictInv'
  <2>1. status # "completed" /\ (status = "blocked" => Fails')
    BY <1>2, <1>6
  <2>2. <<"loop">> \notin {<<"queue", "idle">>, <<"queue", "read", "idle">>}
    OBVIOUS
  <2> QED
    BY <1>2, <1>3, <1>6, <2>1, <2>2 DEF VerdictInv, Listing
<1> QED
  BY <1>6, <1>8, <1>9, <1>10 DEF LiveInv

LEMMA SoleStop ==
  ASSUME Inv, LiveInv, Stop(Runner)
  PROVE  LiveInv'
<1>f. /\ Runner \in Procs /\ Stacked(pc[Runner], ret[Runner]) /\ pc \in [Procs -> PC]
  BY RunnerFacts
<1>1. /\ Here = "stop" /\ ret[Runner] \in Bare /\ verdict = "none" /\ pc' = [pc EXCEPT ![Runner] = "read"]
      /\ status' = "blocked"
      /\ UNCHANGED <<cyc, row, superseded, accepted, at, todo, ret, derived, verdict, expired>>
  BY <1>f DEF Stop, Here, Stacked, Goto, LiveInv, VerdictInv
<1>2. row' \in [Row -> TaskState \union {"absent"}]
  BY <1>1, RunnerFacts
<1>3. CycleInv' /\ Here' = "read" /\ Last' = Last /\ LastItems' = LastItems /\ Outranked' = Outranked
  BY <1>1, <1>2, SoleFrame DEF LiveInv
<1>4. Fails' = Fails /\ \A n : Now(n)' = Now(n)
  BY <1>1, <1>3 DEF Fails, Present, Now
<1>5. PICK w : w = at[Runner]
  OBVIOUS
<1>6. w[1] = Last /\ w[2] \in LastItems /\ row[w] = "completed" /\ w \in Row
  BY <1>1, <1>5, <1>f DEF LiveInv, PlaceInv, Inv, CtlInv, Known, Here
<1>7. w = Now(w[2]) /\ Iter(w) = Last
  BY <1>6, CycleFacts DEF LiveInv, Now, Present
<1>s. latest' = (IF SnapshotPrecedes(latest, StopSnapshot(w)) THEN StopSnapshot(w) ELSE latest)
  BY <1>5 DEF Stop, Show
<1>x. StopSnapshot(w).iter = Last /\ StopSnapshot(w).kind = Kind(w[2]) /\ StopSnapshot(w).next = "block_initiative"
  BY <1>7 DEF StopSnapshot
<1>e. Explained'
  <2>1. CASE Outranked
    BY <1>3, <2>1 DEF Explained
  <2>2. CASE ~Outranked
    <3>1. latest.iter = Last /\ latest.kind = Kind(w[2])
      BY <1>1, <1>5, <2>2 DEF LiveInv, VerdictInv
    <3>2. SnapshotRank(Kind(w[2])) \in Nat
      BY DEF SnapshotRank
    <3>3. SnapshotPrecedes(latest, StopSnapshot(w))
      BY <1>x, <3>1, <3>2 DEF SnapshotPrecedes
    <3> QED
      BY <1>s, <1>x, <3>3 DEF Explained
  <2> QED
    BY <2>1, <2>2
<1>8. ShownInv'
  <2>1. CASE latest' = latest
    BY <1>1, <1>3, <1>4, <1>e, <2>1 DEF LiveInv, ShownInv
  <2>2. CASE latest' = StopSnapshot(w)
    <3>1. Last \in Nat
      BY CycleFacts DEF LiveInv
    <3> QED
      BY <1>1, <1>3, <1>4, <1>6, <1>7, <1>e, <1>x, <2>2, <3>1 DEF ShownInv
  <2> QED
    BY <1>s, <2>1, <2>2
<1>9. PlaceInv'
  <2>1. ret[Runner] \notin {<<"queue", "idle">>, <<"queue", "read", "idle">>}
    BY <1>1 DEF Bare
  <2> QED
    BY <1>1, <1>3, <1>4, <2>1 DEF LiveInv, PlaceInv, Listing
<1>10. ReviewInv'
  BY <1>1, <1>3, <1>4 DEF LiveInv, ReviewInv
<1>11. VerdictInv'
  <2>1. ret[Runner] \notin {<<"queue", "idle">>, <<"queue", "read", "idle">>, <<"loop">>}
    BY <1>1 DEF Bare
  <2> QED
    BY <1>1, <1>3, <1>e, <2>1 DEF VerdictInv, Listing
<1> QED
  BY <1>3, <1>8, <1>9, <1>10, <1>11 DEF LiveInv

\* A cycle that is repaired is over: everything before the item that failed is
\* completed, and what comes after it was superseded.
LEMMA CycleOver ==
  ASSUME Inv, LiveInv, Here = "cancel", todo[Runner] = {}, NEW n \in LastItems
  PROVE  row[Now(n)] = "completed" \/ (row[Now(n)] = "cancelled" /\ Now(n) \in superseded)
<1>1. PICK w : w = at[Runner]
  OBVIOUS
<1>2. w[1] = Last /\ w[2] \in LastItems /\ row[w] = "completed" /\ w[2] \in {"validate", "review"} /\ w \in Row
  BY <1>1, RunnerFacts DEF LiveInv, PlaceInv, Inv, CtlInv, Known, Here
<1>3. w[2] = "validate" => row[Now("review")] = "cancelled" /\ Now("review") \in superseded
  BY <1>1 DEF LiveInv, PlaceInv
<1>4. w = <<Last, w[2]>> /\ Last \in 1..Last /\ cyc[Last].plan \in SUBSET Optional
  BY <1>2, CycleFacts DEF LiveInv, Row
<1>5. CASE n = w[2]
  BY <1>2, <1>4, <1>5 DEF Now
<1>6. CASE n # w[2]
  <2>1. CASE n = "review"
    BY <1>2, <1>3, <1>6, <2>1
  <2>2. CASE n # "review"
    <3>1. w[2] \notin Preparations
      BY <1>2 DEF Preparations
    <3>2. Position(n) < Position(w[2])
      BY <1>2, <1>4, <1>6, <2>2, Positions DEF LastItems, Items, First, Optional, Preparations, Workstreams
    <3>3. row[<<Last, w[2]>>] \notin {"absent", "created", "cancelled"}
      BY <1>2, <1>4
    <3>4. row[<<Last, n>>] = "completed"
      BY <1>2, <1>4, <3>1, <3>2, <3>3, InOrder DEF LiveInv, LastItems
    <3> QED
      BY <3>4 DEF Now
  <2> QED
    BY <2>1, <2>2
<1> QED
  BY <1>5, <1>6

LEMMA SoleCycle ==
  ASSUME Inv, LiveInv, BeginCycle(Runner)
  PROVE  LiveInv'
<1>f. /\ Runner \in Procs /\ Stacked(pc[Runner], ret[Runner]) /\ pc \in [Procs -> PC]
      /\ todo \in [Procs -> SUBSET Row] /\ row \in [Row -> TaskState \union {"absent"}]
  BY RunnerFacts
<1>1. /\ Here = "cancel" /\ todo[Runner] = {} /\ ~Fails /\ verdict = "none" /\ Len(cyc) < MaxCycles
      /\ status \notin {"completed", "blocked"}
      /\ pc' = [pc EXCEPT ![Runner] = "create"]
      /\ UNCHANGED <<row, superseded, accepted, latest, at, ret, derived, status, verdict, expired>>
  BY <1>f DEF BeginCycle, Here, Goto, LiveInv, VerdictInv
<1>2. PICK findings \in SUBSET FindingKind, changed \in BOOLEAN :
        /\ cyc' = Append(cyc, [iter |-> Iter(at[Runner]) + 1, plan |-> RepairPlan(Plan(at[Runner]), findings, changed)])
        /\ todo' = [todo EXCEPT ![Runner] = RowsOf(Len(cyc) + 1, Iter(at[Runner]) + 1,
                                                   RepairPlan(Plan(at[Runner]), findings, changed))]
  BY DEF BeginCycle
<1>3. PICK f : f = RepairPlan(Plan(at[Runner]), findings, changed)
  OBVIOUS
<1>4. Iter(at[Runner]) = Last /\ Last \in Nat \ {0} /\ DOMAIN cyc = 1..Last
  <2>1. PICK w : w = at[Runner]
    OBVIOUS
  <2>2. w[1] = Last /\ row[w] = "completed" /\ w \in Row
    BY <1>1, <1>f, <2>1 DEF LiveInv, PlaceInv, Inv, CtlInv, Known, Here
  <2>3. Iter(w) = Last
    BY <2>2, CycleFacts DEF LiveInv, Present
  <2> QED
    BY <2>1, <2>3, CycleFacts DEF LiveInv
<1> DEFINE c == [iter |-> Last + 1, plan |-> f]
<1>5. cyc' = Append(cyc, c) /\ todo'[Runner] = RowsOf(Last + 1, Last + 1, f)
  BY <1>2, <1>3, <1>4, <1>f DEF Last
<1>6. /\ Last' = Last + 1 /\ DOMAIN cyc' = 1..(Last + 1)
      /\ \A k \in 1..Last : cyc'[k] = cyc[k] 
      /\ cyc'[Last + 1].iter = Last + 1 /\ cyc'[Last + 1].plan = f
  <2> DEFINE Cycle == [iter : 1..MaxIterations, plan : SUBSET Optional]
  <2>1. cyc \in Seq(Cycle)
    BY DEF Inv, TypeOK
  <2>2. c.iter = Last + 1 /\ c.plan = f
    OBVIOUS
  <2> HIDE DEF Cycle, c
  <2>3. /\ Len(cyc') = Len(cyc) + 1 /\ DOMAIN cyc' = 1..(Len(cyc) + 1) /\ cyc'[Len(cyc) + 1] = c
        /\ \A k \in 1..Len(cyc) : cyc'[k] = cyc[k] 
    BY <1>5, <2>1
  <2> QED
    BY <2>2, <2>3 DEF Last
<1>7. LastItems' = Items(Last + 1, f) /\ Here' = "create" /\ \A n : Now(n)' = <<Last + 1, n>>
  BY <1>1, <1>6, <1>f DEF LastItems, Here, Now
<1>8. \A n : <<Last + 1, n>> \notin Present /\ \A r \in Present : r[1] \in 1..Last
  <2>1. \A r \in Present : r[1] \in 1..Last
    BY CycleFacts DEF LiveInv
  <2> QED
    BY <1>4, <2>1
<1>9. CycleInv'
  <2>1. \A p \in Procs \ {Runner} : pc'[p] = "idle"
    BY <1>1, <1>f DEF LiveInv, CycleInv
  <2>2. \A k \in DOMAIN cyc' : cyc'[k].iter = k
    BY <1>4, <1>6 DEF LiveInv, CycleInv
  <2>3. Present' = Present
    BY <1>1 DEF Present
  <2>4. \A r \in Present : r[2] \in Items(r[1], cyc'[r[1]].plan)
    BY <1>6, <1>8 DEF LiveInv, CycleInv
  <2>5. ASSUME NEW r \in Present PROVE row[r] = "completed" \/ (row[r] = "cancelled" /\ r \in superseded)
    <3>1. r[1] \in 1..Last /\ r = <<r[1], r[2]>> /\ r[2] \in Items(r[1], cyc[r[1]].plan)
      BY CycleFacts DEF LiveInv, CycleInv
    <3>2. CASE r[1] = Last
      BY <1>1, <3>1, <3>2, CycleOver DEF LastItems, Now
    <3>3. CASE r[1] < Last
      BY <3>3 DEF LiveInv, CycleInv
    <3> QED
      BY <1>4, <3>1, <3>2, <3>3
  <2> QED
    BY <1>1, <2>1, <2>2, <2>3, <2>4, <2>5 DEF CycleInv
<1>10. \A n \in LastItems' : row'[<<Last + 1, n>>] = "absent"
  <2>1. f \in SUBSET Optional /\ Last + 1 \in 1..MaxCycles
    <3>1. RepairPlan(Plan(at[Runner]), findings, changed) \in SUBSET Optional
      BY DEF RepairPlan, Optional, Preparations
    <3> QED
      BY <1>1, <1>3, <1>4, <3>1, ObjectiveAssumption DEF Last
  <2>2. \A n \in LastItems' : <<Last + 1, n>> \in Row
    BY <1>7, <2>1 DEF Row, Items, First, Optional, Preparations, Workstreams, Name
  <2> QED
    BY <1>1, <1>8, <2>2 DEF Present
<1>11. PlaceInv'
  <2>1. \A r \in todo'[Runner] : r[1] = Last + 1 /\ r[2] \in LastItems'
    BY <1>5, <1>7 DEF RowsOf
  <2>2. \A n \in LastItems' : <<Last + 1, n>> \in todo'[Runner]
    BY <1>5, <1>7 DEF RowsOf
  <2> QED
    BY <1>6, <1>7, <1>10, <2>1, <2>2 DEF PlaceInv, Listing
<1>12. ReviewInv'
  <2>1. "review" \in LastItems'
    BY <1>7 DEF Items
  <2> QED
    BY <1>7, <1>10, <2>1 DEF ReviewInv
<1>13. ~Fails' /\ VerdictInv'
  <2>1. ~Fails'
    BY <1>1 DEF Fails, Present
  <2> QED
    BY <1>1, <1>7, <2>1 DEF VerdictInv
<1>14. ShownInv'
  <2>1. latest.iter \in Nat /\ latest.iter <= Last
    BY ObjectiveAssumption DEF LiveInv, ShownInv, Inv, TypeOK
  <2> QED
    BY <1>1, <1>4, <1>6, <1>13, <2>1 DEF ShownInv
<1> QED
  BY <1>9, <1>11, <1>12, <1>13, <1>14 DEF LiveInv

\* Without the two items that outrank what follows them, the snapshot of an item
\* is shown over those of all items that ended before it.
LEMMA RankOrder ==
  ASSUME Inv, CycleInv, ~Outranked, NEW m \in LastItems, NEW n \in LastItems,
         row[Now(m)] = "completed", row[Now(n)] = "in_progress"
  PROVE  SnapshotRank(Kind(m)) <= SnapshotRank(Kind(n))
<1>1. PICK k, f : k = Last /\ f = cyc[Last].plan
  OBVIOUS
<1>2. k \in 1..Last /\ k \in Nat \ {0} /\ f \in SUBSET Optional /\ m \in Items(k, f) /\ n \in Items(k, f)
      /\ {"validate-baseline", "bootstrap"} \intersect f = {}
  BY <1>1, CycleFacts DEF LastItems, Outranked
<1>3. {m, n} \subseteq {First(k), "analyze", "edit", "edit-docs", "edit-config", "edit-deps", "validate", "review"}
  BY <1>2 DEF Items, Optional, Preparations, Workstreams
<1>4. First(k) \in {"research", "replan"}
  BY DEF First
<1>5. ~(Position(n) < Position(m))
  <2> SUFFICES ASSUME Position(n) < Position(m) PROVE FALSE
    OBVIOUS
  <2>1. m \notin Preparations \/ n = First(k)
    <3>1. m \in Preparations => m = "analyze"
      BY <1>3, <1>4 DEF Preparations
    <3>2. m = "analyze" => n = First(k)
      BY <1>3, <1>4, Positions
    <3> QED
      BY <3>1, <3>2
  <2>2. row[<<k, m>>] \notin {"absent", "created", "cancelled"} /\ row[<<k, n>>] # "completed"
    BY <1>1 DEF Now
  <2>3. n \in Items(k, cyc[k].plan) /\ m \in Items(k, cyc[k].plan)
    BY <1>1, <1>2
  <2>4. row[<<k, n>>] = "completed"
    BY <1>2, <2>1, <2>2, <2>3, InOrder
  <2> QED
    BY <2>2, <2>4
<1>6. /\ SnapshotRank(Kind("research")) = 1 /\ SnapshotRank(Kind("replan")) = 2 /\ SnapshotRank(Kind("analyze")) = 3
      /\ SnapshotRank(Kind("edit")) = 4 /\ SnapshotRank(Kind("edit-docs")) = 4
      /\ SnapshotRank(Kind("edit-config")) = 4 /\ SnapshotRank(Kind("edit-deps")) = 4
      /\ SnapshotRank(Kind("validate")) = 5 /\ SnapshotRank(Kind("review")) = 6
  <2>1. /\ Kind("research") = "research" /\ Kind("replan") = "replan" /\ Kind("analyze") = "analyze" /\ Kind("edit") = "edit"
        /\ Kind("edit-docs") = "edit" /\ Kind("edit-config") = "edit" /\ Kind("edit-deps") = "edit"
        /\ Kind("validate") = "validate" /\ Kind("review") = "review"
    BY DEF Kind, Workstreams
  <2> QED
    BY <2>1 DEF SnapshotRank
<1>7. CASE m = First(k)
  <2>1. n = First(k) \/ SnapshotRank(Kind(n)) >= 3
    BY <1>3, <1>6
  <2> QED
    <3>1. SnapshotRank(Kind(m)) \in {1, 2}
      BY <1>4, <1>6, <1>7
    <3>2. SnapshotRank(Kind(n)) \in 1..6
      BY <1>3, <1>4, <1>6
    <3> QED
      BY <1>7, <2>1, <3>1, <3>2
<1>8. CASE m # First(k)
  <2>1. n # First(k)
    BY <1>3, <1>4, <1>5, <1>8, Positions
  <2>2. ASSUME NEW y \in {"analyze", "edit", "edit-docs", "edit-config", "edit-deps", "validate", "review"}
        PROVE  /\ SnapshotRank(Kind(y)) = IF Position(y) < 4 THEN 3 ELSE IF Position(y) < 8 THEN 4
                                          ELSE IF Position(y) < 9 THEN 5 ELSE 6
               /\ Position(y) \in 3..9
    BY <1>6, Positions
  <2> QED
    BY <1>3, <1>5, <1>8, <2>1, <2>2
<1> QED
  BY <1>7, <1>8

\* While an item is done, none of its cycle has failed, if the item is the
\* validation or the review or the plan has none of those two items.
LEMMA NoneFailed ==
  ASSUME Inv, LiveInv, NEW n \in LastItems, row[Now(n)] = "in_progress", ~Outranked \/ n \in {"validate", "review"}
  PROVE  ~Fails
<1> SUFFICES ASSUME NEW r \in Present, row[r] = "failed" PROVE FALSE
  BY DEF Fails
<1>1. r \in Row /\ r[1] = Last /\ r[2] \in LastItems
  BY CurrentRow
<1>2. PICK m : m = r[2]
  OBVIOUS
<1>3. PICK k, f : k = Last /\ f = cyc[Last].plan
  OBVIOUS
<1>4. /\ k \in 1..Last /\ k \in Nat \ {0} /\ f \in SUBSET Optional /\ m \in Items(k, f) /\ n \in Items(k, f)
      /\ m \in Items(k, cyc[k].plan) /\ n \in Items(k, cyc[k].plan)
  BY <1>1, <1>2, <1>3, CycleFacts DEF LiveInv, LastItems
<1>5. row[<<k, m>>] = "failed" /\ row[<<k, n>>] = "in_progress"
  BY <1>1, <1>2, <1>3 DEF Row, Now
<1>6. First(k) \in {"research", "replan"}
  BY DEF First
<1>7. ~(Position(m) < Position(n) /\ (n \notin Preparations \/ m = First(k)))
  <2>1. row[<<k, m>>] # "completed" /\ row[<<k, n>>] \notin {"absent", "created", "cancelled"}
    BY <1>5
  <2> QED
    BY <1>4, <2>1, InOrder DEF LiveInv
<1>8. ~(Position(n) < Position(m) /\ (m \notin Preparations \/ n = First(k)))
  <2>1. row[<<k, n>>] # "completed" /\ row[<<k, m>>] \notin {"absent", "created", "cancelled"}
    BY <1>5
  <2> QED
    BY <1>4, <2>1, InOrder DEF LiveInv
<1>9. m # n
  BY <1>5
<1>10. CASE n \in {"validate", "review"}
  <2>1. n \notin Preparations
    BY <1>10 DEF Preparations
  <2>2. m = "review" \/ Position(m) < Position(n)
    BY <1>4, <1>6, <1>9, <1>10, Positions DEF Items, Optional, Preparations, Workstreams
  <2>3. m = "review" => Position(n) < Position(m) /\ m \notin Preparations
    BY <1>9, <1>10, Positions DEF Preparations
  <2> QED
    BY <1>7, <1>8, <2>1, <2>2, <2>3
<1>11. CASE ~Outranked
  <2>1. {m, n} \subseteq {First(k), "analyze", "edit", "edit-docs", "edit-config", "edit-deps", "validate", "review"}
    BY <1>3, <1>4, <1>11 DEF Items, Optional, Preparations, Workstreams, Outranked
  <2>2. Position(m) < Position(n) \/ Position(n) < Position(m)
    BY <1>6, <1>9, <2>1, Positions
  <2>3. Position(m) < Position(n) => n \notin Preparations \/ m = First(k)
    BY <1>6, <2>1, Positions DEF Preparations
  <2>4. Position(n) < Position(m) => m \notin Preparations \/ n = First(k)
    BY <1>6, <2>1, Positions DEF Preparations
  <2> QED
    BY <1>7, <1>8, <2>2, <2>3, <2>4
<1> QED
  BY <1>10, <1>11

LEMMA SoleSubmit ==
  ASSUME Inv, LiveInv, verdict' # "error", NEW res \in Result, Submit(Runner, res)
  PROVE  LiveInv'
<1>f. /\ Runner \in Procs /\ pc \in [Procs -> PC] /\ ret \in [Procs -> Seq(PC)]
  BY RunnerFacts
<1>1. /\ Here = "run" /\ verdict = "none" /\ "review" \in LastItems
      /\ status # "completed" /\ (status = "blocked" => Fails)
  BY DEF Submit, Here, LiveInv, VerdictInv, LastItems, Items
<1>2. PICK w : w = at[Runner]
  OBVIOUS
<1>3. w[1] = Last /\ w[2] \in LastItems /\ w \in Row /\ row[w] = "in_progress"
  <2>1. w[1] = Last /\ w[2] \in LastItems /\ w \in Row
    BY <1>1, <1>2, <1>f DEF LiveInv, PlaceInv, Inv, CtlInv, Known, Here
  <2>2. row[w] = "in_progress"
    BY <1>2 DEF Submit, Abort
  <2> QED
    BY <2>1, <2>2
<1>4. w = Now(w[2]) /\ Iter(w) = Last /\ Last \in Nat
  BY <1>3, CycleFacts DEF LiveInv, Now, Present
<1>5. PICK x, l : /\ x = (IF CountsAsSuccess(w, res) \/ RepairStarts(w, res) THEN "completed" ELSE "failed")
                  /\ l = AfterResult(w, res)
  OBVIOUS
<1>6. /\ SetRow(w, x) /\ pc' = [pc EXCEPT ![Runner] = l] /\ UNCHANGED <<cyc, superseded, at, todo, verdict, derived, status, expired>>
      /\ accepted' = (IF w[2] = "review" /\ res = "success" THEN accepted \union {w} ELSE accepted)
      /\ ret'[Runner] = (IF l = "repair" THEN <<"read", "idle">> ELSE <<"idle">>)
      /\ Show(ResultSnapshot(w, res))
  BY <1>2, <1>3, <1>5, <1>f DEF Submit, Goto
<1>7. /\ l \in {"stop", "list", "repair", "read"}
      /\ x = "failed" => l = "read" /\ ~CountsAsSuccess(w, res) /\ ~RepairStarts(w, res)
      /\ l \in {"stop", "repair"} => x = "completed"
      /\ l = "repair" => w[2] \in {"validate", "review"}
      /\ w[2] = "review" /\ x = "completed" => res = "success" \/ l = "repair"
      /\ x \in {"completed", "failed"}
  BY <1>5 DEF AfterResult, CountsAsSuccess, RepairStarts
<1>n. ~Outranked \/ w[2] \in {"validate", "review"} => ~Fails
  BY <1>3, <1>4, NoneFailed
<1>8. Sets(w, x, l)
  BY <1>3, <1>6, <1>7 DEF Sets, TaskState
<1>9. /\ CycleInv' /\ Here' = l
      /\ Last' = Last /\ LastItems' = LastItems /\ Outranked' = Outranked /\ \A n : Now(n)' = Now(n)
      /\ row'[w] = x /\ \A n \in LastItems \ {w[2]} : row'[Now(n)] = row[Now(n)]
      /\ (Fails' => Fails \/ x = "failed") /\ (Fails => Fails')
  <2>1. row[w] # "failed"
    BY <1>3
  <2> QED
    BY <1>8, <2>1, RowFrame
<1>10. \A n \in LastItems : row[Now(n)] \notin {"absent", "cancelled"}
  BY <1>1 DEF LiveInv, PlaceInv
<1>11. w[2] = "validate" => row[Now("review")] = "created" /\ row'[Now("review")] = "created"
  <2> SUFFICES ASSUME w[2] = "validate", row[Now("review")] # "created" PROVE FALSE
    BY <1>1, <1>9
  <2>1. "review" \in Items(Last, cyc[Last].plan) /\ Last \in 1..Last /\ Last \in Nat \ {0} /\ cyc[Last].plan \in SUBSET Optional
    BY <1>1, CycleFacts DEF LiveInv, LastItems
  <2>2. "validate" \in DependsOn(Last, cyc[Last].plan, "review")
    BY <2>1, DependsOnFacts
  <2>3. row[<<Last, "review">>] \notin {"absent", "created", "cancelled"}
    BY <1>1, <1>10 DEF Now
  <2>4. row[<<Last, "validate">>] = "completed"
    BY <2>1, <2>2, <2>3, Chain DEF LiveInv
  <2> QED
    BY <1>3, <1>4, <2>4 DEF Now
<1>12. PlaceInv'
  <2>1. \A n \in LastItems : row'[Now(n)] \notin {"absent", "cancelled"}
    BY <1>4, <1>7, <1>9, <1>10
  <2>2. ret'[Runner] \in Bare /\ ret'[Runner] \notin {<<"queue", "idle">>, <<"queue", "read", "idle">>}
    BY <1>6 DEF Bare
  <2>3. at'[Runner] = w
    BY <1>2, <1>6
  <2> QED
    BY <1>3, <1>7, <1>9, <1>11, <2>1, <2>2, <2>3 DEF PlaceInv, Listing
<1>13. ReviewInv'
  <2>1. CASE w[2] = "review"
    <3>1. at'[Runner] = w
      BY <1>2, <1>6
    <3> QED
      BY <1>4, <1>6, <1>7, <1>9, <2>1, <3>1 DEF ReviewInv
  <2>2. CASE w[2] # "review"
    <3>1. row'[Now("review")] = row[Now("review")]
      BY <1>1, <1>9, <2>2
    <3> QED
      BY <1>1, <1>6, <1>9, <3>1 DEF LiveInv, ReviewInv
  <2> QED
    BY <2>1, <2>2
<1>14. ShownInv' /\ (l = "stop" /\ ~Outranked => latest'.iter = Last /\ latest'.kind = Kind(w[2]))
  <2> DEFINE snap == ResultSnapshot(w, res)
  <2>1. snap.iter = Last /\ snap.kind = Kind(w[2]) /\ (x = "failed" => snap.next = "block_initiative")
    <3>1. snap.iter = Last /\ snap.kind = Kind(w[2])
      BY <1>4 DEF ResultSnapshot
    <3>2. snap.next = NextExpectedAction(w[2], CountsAsSuccess(w, res), RepairStarts(w, res))
      BY DEF ResultSnapshot
    <3>3. x = "failed" => NextExpectedAction(w[2], CountsAsSuccess(w, res), RepairStarts(w, res)) = "block_initiative"
      BY <1>7 DEF NextExpectedAction
    <3> QED
      BY <3>1, <3>2, <3>3
  <2>2. latest.iter \in Nat /\ latest.iter <= Last
    BY ObjectiveAssumption DEF LiveInv, ShownInv, Inv, TypeOK
  <2>3. latest' = (IF SnapshotPrecedes(latest, snap) THEN snap ELSE latest)
    BY <1>6 DEF Show
  <2>4. ~Outranked => SnapshotPrecedes(latest, snap)
    <3> SUFFICES ASSUME ~Outranked PROVE SnapshotPrecedes(latest, snap)
      OBVIOUS
    <3>0. ~Outranked
      OBVIOUS
    <3> HIDE DEF snap
    <3>1. CASE latest.iter < Last
      BY <1>4, <2>1, <2>2, <3>1 DEF SnapshotPrecedes
    <3>2. CASE latest.iter = Last
      <4>1. PICK m \in LastItems : Kind(m) = latest.kind /\ row[Now(m)] \in {"completed", "failed"}
        BY <3>2 DEF LiveInv, ShownInv
      <4>2. row[Now(m)] = "completed"
        <5>1. Now(m) \in Row
          BY CycleFacts DEF LiveInv, LastItems, Now
        <5> QED
          BY <1>n, <3>0, <4>1, <5>1 DEF Fails, Present
      <4>3. SnapshotRank(Kind(m)) <= SnapshotRank(Kind(w[2]))
        BY <1>3, <1>4, <4>1, <4>2, RankOrder DEF LiveInv
      <4>4. SnapshotRank(snap.kind) >= SnapshotRank(latest.kind)
        <5>1. SnapshotRank(Kind(m)) \in Nat /\ SnapshotRank(Kind(w[2])) \in Nat
          BY DEF SnapshotRank
        <5> QED
          BY <2>1, <4>1, <4>3, <5>1
      <4> QED
        BY <2>1, <3>2, <4>4 DEF SnapshotPrecedes
    <3> QED
      BY <1>4, <2>2, <3>1, <3>2
  <2> HIDE DEF snap
  <2>5. latest'.iter <= Last
    BY <1>4, <2>1, <2>2, <2>3
  <2>6. ~Outranked => \E n \in LastItems : Kind(n) = latest'.kind /\ row'[Now(n)] \in {"completed", "failed"}
    BY <1>3, <1>4, <1>7, <1>9, <2>1, <2>3, <2>4
  <2>7. Fails' => latest'.next = "block_initiative" \/ Outranked
    BY <1>9, <1>n, <2>1, <2>3, <2>4
  <2> QED
    BY <1>9, <2>1, <2>3, <2>4, <2>5, <2>6, <2>7 DEF ShownInv, Explained
<1>15. VerdictInv'
  <2>1. ret'[Runner] \in Bare /\ ret'[Runner] \notin {<<"queue", "idle">>, <<"queue", "read", "idle">>}
    BY <1>6 DEF Bare
  <2>2. l = "repair" => ~Fails'
    BY <1>7, <1>9, <1>n
  <2>3. at'[Runner] = w
    BY <1>2, <1>6
  <2> QED
    BY <1>1, <1>6, <1>7, <1>9, <1>14, <2>1, <2>2, <2>3 DEF VerdictInv, Listing
<1> QED
  BY <1>9, <1>12, <1>13, <1>14, <1>15 DEF LiveInv

LEMMA SoleInit == Init => SoleInv
<1> SUFFICES ASSUME Init PROVE LiveInv
  BY DEF SoleInv
<1>p. Runner \in Procs /\ Inv
  BY InitInv DEF Procs, Bridges
<1>1. PICK f \in Plans : cyc = <<[iter |-> 1, plan |-> f]>>
  BY DEF Init
<1> DEFINE c == [iter |-> 1, plan |-> f]
<1>2. cyc = <<c>> /\ c.iter = 1 /\ c.plan = f
  BY <1>1
<1>3. Last = 1 /\ DOMAIN cyc = 1..1 /\ cyc[1].plan = f /\ cyc[1].iter = 1
  <2> HIDE DEF c
  <2> QED
    BY <1>2 DEF Last
<1>4. LastItems = Items(1, f) /\ \A n : Now(n) = <<1, n>>
  BY <1>3 DEF LastItems, Now
<1>5. Present = {} /\ row = [r \in Row |-> "absent"]
  BY DEF Init, Present
<1>6. Here = "create" /\ todo[Runner] = RowsOf(1, 1, f) /\ verdict = "none" /\ latest.iter = 0 /\ status = "idea_submitted"
  BY <1>p, <1>3 DEF Init, Here
<1>7. CycleInv
  <2>1. \A p \in Procs \ {Runner} : pc[p] = "idle"
    BY DEF Init
  <2> QED
    BY <1>3, <1>5, <2>1 DEF CycleInv
<1>8. PlaceInv
  <2>1. \A n \in LastItems : Now(n) \in todo[Runner] /\ row[Now(n)] = "absent"
    <3>1. \A n \in LastItems : Now(n) \in todo[Runner]
      <4> SUFFICES ASSUME NEW n \in Items(1, f) PROVE <<1, n>> \in RowsOf(1, 1, f)
        BY <1>4, <1>6
      <4> QED
        BY DEF RowsOf
    <3>2. \A n \in LastItems : Now(n) \in Row
      <4>1. Last \in 1..Last
        BY <1>3
      <4> QED
        BY <1>p, <1>7, <4>1, CycleFacts DEF LastItems, Now
    <3> QED
      BY <1>5, <3>1, <3>2
  <2>2. \A r \in todo[Runner] : r[1] = Last /\ r[2] \in LastItems
    BY <1>3, <1>4, <1>6 DEF RowsOf
  <2> QED
    BY <1>6, <2>1, <2>2 DEF PlaceInv, Listing
<1>9. ReviewInv
  <2>1. "review" \in LastItems
    BY <1>4 DEF Items
  <2>2. Now("review") \in Row
    BY <1>p, <1>3, <1>7, <2>1, CycleFacts DEF LastItems, Now
  <2> QED
    BY <1>5, <2>2 DEF ReviewInv
<1>10. VerdictInv /\ ShownInv
  <2>1. ~Fails
    BY <1>5 DEF Fails
  <2> QED
    BY <1>3, <1>6, <2>1 DEF VerdictInv, ShownInv
<1> QED
  BY <1>7, <1>8, <1>9, <1>10 DEF LiveInv

\* Every step keeps what is known of a sole runner.
LEMMA SoleStepInv == Inv /\ SoleInv /\ [Next]_vars => SoleInv'
<1> SUFFICES ASSUME Inv, SoleInv, [Next]_vars, deployed' = {}, verdict' # "error" PROVE LiveInv'
  BY DEF SoleInv
<1>1. CASE UNCHANGED vars
  <2>1. UNCHANGED <<deployed, cyc, row, superseded, approved, accepted, status, latest, expired, stopped,
                    pc, at, todo, ret, derived, verdict, faults>>
    BY <1>1 DEF vars
  <2>2. LiveInv
    BY <2>1 DEF SoleInv
  <2> QED
    BY <2>1, <2>2 DEF LiveInv, CycleInv, PlaceInv, ReviewInv, VerdictInv, ShownInv, Here, Last, LastItems, Now,
                      Fails, Done, Explained, Outranked, Present
<1>2. CASE Next
  <2>1. deployed = {}
    BY <1>2 DEF Next, HandlerStep, RunnerStep, ClientStep, HandlerFails, ReconcileIgnored, OperatorResolves, BridgeLost, Expire,
                MaterializeItem, ListReady, QueueItem, FailOverBudget, QueueDone, ReconcileRead, ReconcileWrite,
                Stop, StartRepair, CancelDependent, BeginCycle, Claim, Ask, Submit, Poll, RunnerResolves,
                NothingToClaim, Resolve
  <2>2. verdict # "error"
    BY <1>2 DEF Next, HandlerStep, RunnerStep, ClientStep, HandlerFails, ReconcileIgnored, OperatorResolves, BridgeLost, Expire,
                MaterializeItem, ListReady, QueueItem, FailOverBudget, QueueDone, ReconcileRead, ReconcileWrite,
                Stop, StartRepair, CancelDependent, BeginCycle, Claim, Ask, Submit, Poll, RunnerResolves,
                NothingToClaim, Resolve, Abort
  <2>3. LiveInv
    BY <2>1, <2>2 DEF SoleInv
  <2>4. HandlerStep(Runner) \/ ReconcileIgnored(Runner) \/ RunnerStep \/ ClientStep(Runner) \/ Expire
    BY <1>2, <2>1, <2>3, SoleSteps DEF LiveInv
  <2>5. CASE HandlerStep(Runner) \/ ReconcileIgnored(Runner)
    BY <2>3, <2>5, SoleCreate, SoleList, SoleQueue, SoleReconcile, SoleStop, SoleStartRepair, SoleCancel, SoleCycle
       DEF HandlerStep
  <2>6. CASE RunnerStep \/ Expire
    BY <2>3, <2>6, SolePoll, SoleClaim DEF RunnerStep
  <2>7. CASE ClientStep(Runner)
    BY <2>3, <2>7, SoleClaim, SoleSubmit DEF ClientStep
  <2> QED
    BY <2>4, <2>5, <2>6, <2>7
<1> QED
  BY <1>1, <1>2

\* The success that "lab-agent objective" (Run of bridge/objective_runner.go)
\* reports is that of the last review, or the deadline passed after a review that
\* asked for changes was stored and before its repair began: for a runner that is
\* alone, for every plan, any number of iterations and whatever fails on the way.
THEOREM ReviewedSafe == Spec => []RunnerSuccessIsReviewed
<1>1. ASSUME Inv, SoleInv PROVE RunnerSuccessIsReviewed
  <2> SUFFICES ASSUME deployed = {}, verdict = "completed"
               PROVE  \E r \in Present :
                        /\ r[2] = "review" /\ row[r] = "completed"
                        /\ \A s \in Present : Iter(s) <= Iter(r)
                        /\ r \in accepted \/ RepairDropped(r)
    BY DEF RunnerSuccessIsReviewed, SoleRunner
  <2>1. LiveInv
    BY <1>1 DEF SoleInv
  <2>2. Here = "idle" /\ Done
    BY <2>1 DEF LiveInv, VerdictInv
  <2>3. "review" \in LastItems /\ row[Now("review")] \notin {"absent", "cancelled"}
    <3>1. "review" \in LastItems
      BY DEF LastItems, Items
    <3> QED
      BY <2>1, <2>2, <3>1 DEF LiveInv, PlaceInv
  <2>4. Now("review") \in Row /\ Iter(Now("review")) = Last
    BY <1>1, <2>1, <2>3, CycleFacts DEF LiveInv, LastItems, Now
  <2>5. row[Now("review")] = "completed" /\ Now("review") \in Present /\ Now("review")[2] = "review"
    BY <2>2, <2>3, <2>4 DEF Done, Present, Now
  <2>6. Now("review") \in accepted \/ (expired /\ Last < MaxIterations)
    BY <2>1, <2>2, <2>5 DEF LiveInv, ReviewInv
  <2>7. \A s \in Present : Iter(s) <= Last
    BY <1>1, <2>1, CycleFacts DEF LiveInv
  <2> QED
    BY <2>4, <2>5, <2>6, <2>7 DEF RepairDropped
<1> QED
  BY <1>1, InitInv, StepInv, SoleInit, SoleStepInv, PTL DEF Spec

\* When it reports a block, the snapshot that readers are shown
\* (objectiveStatusSnapshotPrecedes) is the one of the item that failed or of the
\* stop, or a baseline or bootstrap of the same cycle has outranked it.
THEOREM BlockerSafe == Spec => []BlockerIsShown
<1>1. ASSUME Inv, SoleInv PROVE BlockerIsShown
  <2> SUFFICES ASSUME deployed = {}, verdict = "blocked" PROVE Explained
    BY DEF BlockerIsShown, SoleRunner, Explained, Outranked, Last
  <2>1. LiveInv
    BY <1>1 DEF SoleInv
  <2>2. status = "blocked"
    BY <2>1 DEF LiveInv, VerdictInv
  <2>3. Fails \/ Explained
    BY <2>1, <2>2 DEF LiveInv, VerdictInv
  <2> QED
    BY <2>1, <2>3 DEF LiveInv, ShownInv
<1> QED
  BY <1>1, InitInv, StepInv, SoleInit, SoleStepInv, PTL DEF Spec

\* The order of a plan: every item waits for earlier ones of the same plan, and
\* all but the review are waited for.
LEMMA PlanOrder ==
  ASSUME NEW i \in Nat \ {0}, NEW f \in SUBSET Optional
  PROVE  /\ \A n \in Items(i, f) : \A d \in DependsOn(i, f, n) : d \in Items(i, f) /\ Position(d) < Position(n)
         /\ \A d \in Items(i, f) \ {"review"} : \E n \in Items(i, f) : d \in DependsOn(i, f, n)
<1>1. /\ First(i) \in {"research", "replan"} /\ Position(First(i)) = 0
      /\ Items(i, f) = {First(i)} \union f \union {"edit", "validate", "review"}
  BY Positions DEF First, Items
<1>2. ASSUME NEW n \in Workstreams \union {"validate"}
      PROVE  LastEditBefore(f, n) \in {"edit"} \union f /\ Position(LastEditBefore(f, n)) < Position(n)
             /\ Position(LastEditBefore(f, n)) \in 4..7
  BY LastEdits, Positions DEF Workstreams
<1>3. ASSUME NEW n \in Items(i, f) PROVE \A d \in DependsOn(i, f, n) : d \in Items(i, f) /\ Position(d) < Position(n)
  <2>1. n \in {First(i)} \union f \union {"edit", "validate", "review"}
    BY <1>1
  <2>2. f \subseteq {"validate-baseline", "bootstrap", "analyze", "edit-docs", "edit-config", "edit-deps"}
    BY DEF Optional, Preparations, Workstreams
  <2>3. CASE n = First(i)
    <3>1. DependsOn(i, f, n) = {}
      <4>1. CASE i = 1
        <5>1. n = "research"
          BY <2>3, <4>1 DEF First
        <5> QED
          BY <4>1, <5>1 DEF DependsOn, InitialDependsOn, Workstreams
      <4>2. CASE i # 1
        <5>1. n = "replan"
          BY <2>3, <4>2 DEF First
        <5> QED
          BY <4>2, <5>1 DEF DependsOn, RepairDependsOn, Preparations, Workstreams
      <4> QED
        BY <4>1, <4>2
    <3> QED
      BY <3>1
  <2>4. CASE n \in Preparations
    <3>1. DependsOn(i, f, n) \subseteq ({First(i)} \union (f \intersect {"validate-baseline", "bootstrap"}))
          /\ (n # "analyze" => DependsOn(i, f, n) = {First(i)})
      <4>1. CASE i = 1
        <5>1. n # "analyze" => DependsOn(i, f, n) = {"research"}
          BY <2>4, <4>1 DEF DependsOn, InitialDependsOn, Preparations, Workstreams
        <5>2. n = "analyze" => DependsOn(i, f, n) = EditDependsOn(1, f) \ {"analyze"}
          BY <2>4, <4>1 DEF DependsOn, InitialDependsOn, Workstreams
        <5>3. First(i) = "research" /\ EditDependsOn(1, f) = {"research"} \union (f \intersect Preparations)
          BY <4>1 DEF EditDependsOn, First
        <5> QED
          BY <2>4, <5>1, <5>2, <5>3 DEF Preparations
      <4>2. CASE i # 1
        BY <2>4, <4>2 DEF DependsOn, RepairDependsOn, First, Preparations, Workstreams
      <4> QED
        BY <4>1, <4>2
    <3>2. ASSUME NEW d \in {First(i)} \union (f \intersect {"validate-baseline", "bootstrap"})
          PROVE  d \in Items(i, f) /\ Position(d) \in 0..2
      BY <1>1, Positions
    <3>3. Position(n) \in 1..3 /\ (n = "analyze" => Position(n) = 3)
      BY <2>4, Positions DEF Preparations
    <3> QED
      BY <3>1, <3>2, <3>3, <1>1
  <2>5. CASE n = "edit"
    <3>1. DependsOn(i, f, n) = {First(i)} \union (f \intersect Preparations)
      BY <2>5, DependsOnFacts
    <3> QED
      BY <2>5, <3>1, <1>1, Positions DEF Preparations
  <2>6. CASE n \in Workstreams \union {"validate"}
    <3>1. DependsOn(i, f, n) \subseteq ({First(i), LastEditBefore(f, n)} \union (f \intersect Preparations))
      <4>1. CASE i = 1
        <5>1. DependsOn(i, f, n) \in {EditDependsOn(1, f) \union {LastEditBefore(f, n)}, {LastEditBefore(f, n)}}
          BY <2>6, <4>1 DEF DependsOn, InitialDependsOn, Workstreams
        <5> QED
          BY <5>1, <4>1 DEF EditDependsOn
      <4>2. CASE i # 1
        BY <2>6, <4>2 DEF DependsOn, RepairDependsOn, First, Preparations, Workstreams
      <4> QED
        BY <4>1, <4>2
    <3>2. Position(n) \in 5..8 /\ \A d \in Preparations : Position(d) \in 1..3
      BY <2>6, Positions DEF Workstreams, Preparations
    <3>3. LastEditBefore(f, n) \in {"edit"} \union f /\ Position(LastEditBefore(f, n)) < Position(n)
      BY <2>6, <1>2
    <3> QED
      BY <3>1, <3>2, <3>3, <1>1
  <2>7. CASE n = "review"
    <3>1. DependsOn(i, f, n) = {"validate"}
      BY <2>7, DependsOnFacts
    <3> QED
      BY <2>7, <3>1, <1>1, Positions
  <2> QED
    BY <2>1, <2>2, <2>3, <2>4, <2>5, <2>6, <2>7 DEF Preparations, Workstreams
<1>4. ASSUME NEW d \in Items(i, f) \ {"review"} PROVE \E n \in Items(i, f) : d \in DependsOn(i, f, n)
  <2>1. {"edit", "validate", "review"} \subseteq Items(i, f)
    BY <1>1
  <2>2. CASE d = First(i) \/ d \in Preparations
    BY <2>1, <2>2, <1>1, DependsOnFacts DEF Preparations
  <2>3. CASE d = "validate"
    BY <2>1, <2>3, DependsOnFacts
  <2>4. CASE d \in {"edit"} \union Workstreams
    <3>1. \A n \in (f \intersect Workstreams) \union {"validate"} :
            n \in Items(i, f) /\ LastEditBefore(f, n) \in DependsOn(i, f, n)
      BY <1>1, DependsOnFacts
    <3>2. d \in {"edit"} \union f
      BY <2>4, <1>1 DEF Workstreams
    <3>3. \E n \in (f \intersect Workstreams) \union {"validate"} : LastEditBefore(f, n) = d
      BY <3>2, <2>4, LastEdits DEF Workstreams
    <3> QED
      BY <3>1, <3>3
  <2> QED
    BY <2>2, <2>3, <2>4, <1>1 DEF Optional
<1> QED
  BY <1>3, <1>4

(***************************************************************************)
(* The contract: its plan, and the files of its items.                     *)
(***************************************************************************)
ContractInv ==
  /\ contract.plan \in SUBSET Optional /\ DOMAIN contract.paths = Items(1, contract.plan)
  /\ \A n \in DOMAIN contract.paths : contract.paths[n] \subseteq contract.paths["review"]
  /\ \A n \in contract.plan \intersect Workstreams : Artifact \notin contract.paths[n]

PlanInv ==
  /\ ws \in Workspaces
  /\ stage \in {"context", "contract", "done", "research", "analysis", "queue", "edit", "result"}
  /\ stage \notin {"context", "contract"} => ContractInv

LEMMA InitialPlanIs == InitialPlan \in SUBSET Optional
  BY DEF InitialPlan, Optional, Preparations, Workstreams

LEMMA GenerateSafe ==
  ASSUME PlanInv, GenerateContract
  PROVE  PlanInv'
<1>0. ws' = ws /\ stage' = "done"
  BY DEF GenerateContract
<1>1. PICK f \in SUBSET Optional : f = InitialPlan
  BY InitialPlanIs
<1>2. contract'.plan = f /\ contract'.paths = [n \in Items(1, f) |-> ItemPaths(f, n)]
  BY <1>1 DEF GenerateContract
<1>3. /\ DOMAIN contract'.paths = Items(1, f)
      /\ \A n \in Items(1, f) : contract'.paths[n] = ItemPaths(f, n)
  BY <1>2
<1>4. ItemPaths(f, "review") = ValidatePaths(f)
  BY DEF ItemPaths, Workstreams
<1>5. ASSUME NEW n \in Items(1, f) PROVE ItemPaths(f, n) \subseteq ItemPaths(f, "review")
  <2>1. CASE n \in Workstreams
    <3>1. ItemPaths(f, n) = WorkstreamPaths(WorkstreamClass(n)) /\ n \in f
      BY <2>1 DEF ItemPaths, Workstreams, Items, First
    <3> QED
      BY <3>1, <2>1, <1>4 DEF ValidatePaths
  <2>2. CASE n \in {"validate", "review"}
    <3>1. ItemPaths(f, n) = ValidatePaths(f)
      BY <2>2 DEF ItemPaths, Workstreams
    <3> QED
      BY <3>1, <1>4
  <2>3. CASE n \notin Workstreams \union {"validate", "review"}
    <3>1. ItemPaths(f, n) = SuspectedPaths
      BY <2>3 DEF ItemPaths
    <3> QED
      BY <3>1, <1>4 DEF ValidatePaths
  <2> QED
    BY <2>1, <2>2, <2>3
<1>6. ASSUME NEW n \in f \intersect Workstreams PROVE Artifact \notin ItemPaths(f, n)
  <2>1. ItemPaths(f, n) = WorkstreamPaths(WorkstreamClass(n))
    BY DEF ItemPaths, Workstreams
  <2>2. WorkstreamPaths(WorkstreamClass(n)) \subseteq ws.files \union {DefaultPath}
    BY DEF WorkstreamPaths
  <2>3. ws.files \subseteq Nat
    BY WorkspaceAssumption DEF PlanInv
  <2> QED
    BY <2>1, <2>2, <2>3 DEF Artifact, DefaultPath
<1>7. "review" \in Items(1, f) /\ f \subseteq Items(1, f)
  BY DEF Items
<1>8. ContractInv'
  BY <1>2, <1>3, <1>5, <1>6, <1>7 DEF ContractInv
<1> QED
  BY <1>0, <1>8 DEF PlanInv

LEMMA PlanStep ==
  ASSUME PlanInv, [ScopeNext]_allVars
  PROVE  PlanInv'
<1>1. CASE GenerateContract
  BY <1>1, GenerateSafe
<1>2. CASE BuildPlanningContext
  BY <1>2 DEF BuildPlanningContext, PlanInv
<1>3. CASE UNCHANGED allVars
  BY <1>3 DEF allVars, planVars, PlanInv, ContractInv
<1>4. CASE /\ UNCHANGED <<ws, contract>> /\ stage \notin {"context", "contract"}
           /\ stage' \in {"research", "analysis", "queue", "edit", "result"}
  BY <1>4 DEF PlanInv, ContractInv
<1>5. CASE StartObjective \/ ResearchProject \/ CodeAnalysis \/ QueueEdits \/ StartRepairCycle
  BY <1>4, <1>5 DEF StartObjective, ResearchProject, CodeAnalysis, QueueEdits, StartRepairCycle
<1>6. ASSUME NEW changed, NEW findings, ChangesRequested(changed, findings) PROVE PlanInv'
  BY <1>4, <1>6 DEF ChangesRequested
<1> QED
  BY <1>1, <1>2, <1>3, <1>5, <1>6
  DEF ScopeNext, PlanNext, ValidationFails, ReviewFails, ReviewMissesDiff

LEMMA PlanStart ==
  ASSUME ScopeInit
  PROVE  PlanInv
  BY DEF ScopeInit, PlanInit, PlanInv

\* Whatever the workspace and the precedents, in the first contract
\* (GenerateObjectiveExecutionContract) and in every repair cycle after it
\* (buildObjectiveRepairCycle) items wait for earlier ones only, all of them
\* come before the review, and the review covers every file an item may edit.
THEOREM ReviewSafe == ScopeSpec => []ReviewSeesEverything
<1>1. ASSUME PlanInv PROVE ReviewSeesEverything
  <2> SUFFICES ASSUME stage = "done" PROVE ReviewSeesEverything
    BY DEF ReviewSeesEverything
  <2>1. ContractInv
    BY <1>1 DEF PlanInv
  <2>2. \A findings, changed : RepairPlan(contract.plan, findings, changed) \in SUBSET Optional
    BY DEF RepairPlan, Optional, Preparations, Workstreams
  <2>3. \A i \in {1, 2} : i \in Nat \ {0}
    OBVIOUS
  <2> QED
    BY <2>1, <2>2, <2>3, PlanOrder DEF ReviewSeesEverything, ContractInv
<1> QED
  BY <1>1, PlanStart, PlanStep, PTL DEF ScopeSpec

(***************************************************************************)
(* From the findings of a review to the files of the next edit.            *)
(***************************************************************************)

\* Findings fi of a diff ch say what it touches, unless no diff was compared.
Agrees(ch, fi) ==
  /\ "planner_scope_contradicted" \in fi
       <=> "missing_diff" \notin fi /\ SelectedPaths # {} /\ ch # {} /\ SelectedPaths \intersect ch = {}
  /\ "planner_rejected_scope_confirmed" \in fi
       <=> "missing_diff" \notin fi /\ RejectedPaths # {} /\ ch # {} /\ RejectedPaths \intersect ch = {}

EvidenceInv == Agrees(result.changed, result.findings)

\* A cycle that follows a diff starts from it.
CycleStartInv ==
  /\ stage \in {"context", "contract", "done"} => result.changed = {} /\ result.findings = {}
  /\ stage \in {"research", "analysis", "queue", "edit"} /\ result.changed # {} => suspected = result.changed
  /\ iter \in Nat \ {0}
  /\ stage \in {"research", "analysis", "queue", "edit"} =>
       optional \in SUBSET Optional /\ optional \intersect Workstreams \subseteq contract.plan

\* What the research recommends.
ResearchInv ==
  /\ Artifact \notin research.scope /\ result.changed \ {Artifact} \subseteq research.scope
  /\ research.scope = {} => suspected \subseteq {Artifact}
  /\ (\A p \in research.scope : ~ RuledOut(p)) \/ (\A p \in research.scope : RuledOut(p))

ScopeInv ==
  /\ EvidenceInv /\ CycleStartInv
  /\ stage \in {"analysis", "queue"} => ResearchInv
  /\ stage = "queue" /\ "analyze" \notin optional => found = {}
  /\ RepairFollowsEvidence

\* A result comes from no review, from one that compared the diff with the
\* planner's lists, or from one that missed a diff.
LEMMA FindingsAgree ==
  ASSUME NEW ch, NEW fi,
         \/ ch = {} /\ fi \subseteq {"validation_failure"}
         \/ fi = {"validation_failure"} \union ReviewAlignmentFindings(ch) \union ReviewRetrievalFindings(ch)
         \/ fi = {"missing_diff"} \union ReviewRetrievalFindings(ch)
  PROVE  Agrees(ch, fi)
<1>1. ReviewRetrievalFindings(ch) \subseteq {"retrieval_scope_confirmed", "retrieval_scope_contradicted"}
  BY DEF ReviewRetrievalFindings
<1>2. "planner_scope_contradicted" \in ReviewAlignmentFindings(ch)
        <=> SelectedPaths # {} /\ ch # {} /\ SelectedPaths \intersect ch = {}
  <2>1. "planner_scope_contradicted" \in ReviewAlignmentFindings(ch)
          <=> ReviewScopeAlignment(SelectedPaths, ch) = "contradicted"
    BY DEF ReviewAlignmentFindings
  <2> QED
    BY <2>1 DEF ReviewScopeAlignment
<1>3. "planner_rejected_scope_confirmed" \in ReviewAlignmentFindings(ch)
        <=> RejectedPaths # {} /\ ch # {} /\ RejectedPaths \intersect ch = {}
  <2>1. "planner_rejected_scope_confirmed" \in ReviewAlignmentFindings(ch)
          <=> ReviewRejectedScopeAlignment(RejectedPaths, ch) = "confirmed"
    BY DEF ReviewAlignmentFindings
  <2> QED
    BY <2>1 DEF ReviewRejectedScopeAlignment
<1>4. "missing_diff" \notin ReviewAlignmentFindings(ch)
  BY DEF ReviewAlignmentFindings
<1>5. CASE ch = {} /\ fi \subseteq {"validation_failure"}
  BY <1>5 DEF Agrees
<1>6. CASE fi = {"validation_failure"} \union ReviewAlignmentFindings(ch) \union ReviewRetrievalFindings(ch)
  BY <1>1, <1>2, <1>3, <1>4, <1>6 DEF Agrees
<1>7. CASE fi = {"missing_diff"} \union ReviewRetrievalFindings(ch)
  BY <1>1, <1>7 DEF Agrees
<1> QED
  BY <1>5, <1>6, <1>7

\* Exactly the files that the review has ruled out are excluded.
LEMMA ExcludedIsRuledOut ==
  ASSUME EvidenceInv, NEW p
  PROVE  p \in Excluded <=> RuledOut(p)
<1>1. PICK S, R, ch, fi : S = SelectedPaths /\ R = RejectedPaths /\ ch = result.changed /\ fi = result.findings
  OBVIOUS
<1>2. /\ "planner_scope_contradicted" \in fi
           <=> "missing_diff" \notin fi /\ S # {} /\ ch # {} /\ S \intersect ch = {}
      /\ "planner_rejected_scope_confirmed" \in fi
           <=> "missing_diff" \notin fi /\ R # {} /\ ch # {} /\ R \intersect ch = {}
  BY <1>1 DEF EvidenceInv, Agrees
<1>3. Promoted \subseteq ch
  BY <1>1 DEF Promoted
<1>4. p \in Excluded <=> /\ p \notin Promoted
                         /\ \/ "planner_scope_contradicted" \in fi /\ p \in S \ ch
                            \/ "planner_rejected_scope_confirmed" \in fi /\ p \in R
  BY <1>1 DEF Excluded
<1>5. RuledOut(p) <=> /\ "missing_diff" \notin fi /\ ch # {} /\ p \notin ch
                      /\ (p \in S /\ ch \intersect S = {}) \/ (p \in R /\ ch \intersect R = {})
  BY <1>1 DEF RuledOut
<1> QED
  BY <1>2, <1>3, <1>4, <1>5

\* recommendResearchScopePaths keeps the diff and drops what is ruled out,
\* unless nothing else is left.
LEMMA ResearchSafe ==
  ASSUME ScopeInv, ResearchProject
  PROVE  ResearchInv'
<1>0. EvidenceInv /\ stage = "research" /\ UNCHANGED <<ws, contract, iter, suspected, result>>
  BY DEF ScopeInv, ResearchProject
<1>1. PICK all, infer : /\ infer = InferScopePathsFromReadme \union InferScopePathsFromGoal
                        /\ all = (Promoted \union Confirmed \union result.changed \union PatchIntent
                                  \union suspected \union infer) \ {Artifact}
  OBVIOUS
<1>2. research'.scope = IF all \ Excluded # {} THEN all \ Excluded ELSE all
  <2>1. research'.scope = RecommendResearchScopePaths
    BY DEF ResearchProject
  <2>2. all = (Promoted \union Confirmed \union result.changed \union PatchIntent
               \union suspected \union InferScopePathsFromReadme \union InferScopePathsFromGoal) \ {Artifact}
    BY <1>1
  <2> QED
    BY <2>1, <2>2, Zenon DEF RecommendResearchScopePaths
<1>3. \A p : p \in Excluded <=> RuledOut(p)
  BY <1>0, ExcludedIsRuledOut
<1>4. \A p : RuledOut(p)' <=> RuledOut(p)
  BY <1>0 DEF RuledOut, SelectedPaths, RejectedPaths
<1>5. \A p \in result.changed : ~ RuledOut(p)
  BY DEF RuledOut
<1>6. Artifact \notin all /\ (result.changed \union suspected) \ {Artifact} \subseteq all
  BY <1>1
<1>7. result.changed # {} => suspected = result.changed
  BY <1>0 DEF ScopeInv, CycleStartInv
<1>8. CASE all \ Excluded # {}
  <2>1. research'.scope = all \ Excluded
    BY <1>2, <1>8
  <2>2. result.changed \ {Artifact} \subseteq research'.scope
    BY <2>1, <1>3, <1>5, <1>6
  <2>3. \A p \in research'.scope : ~ RuledOut(p)'
    BY <2>1, <1>3, <1>4
  <2> QED
    BY <2>1, <2>2, <2>3, <1>0, <1>6, <1>8 DEF ResearchInv, Artifact
<1>9. CASE all \ Excluded = {}
  <2>1. research'.scope = all
    BY <1>2, <1>9
  <2>2. \A p \in research'.scope : RuledOut(p)'
    BY <2>1, <1>3, <1>4, <1>9
  <2>3. result'.changed \ {Artifact} \subseteq research'.scope
        /\ (research'.scope = {} => suspected' \subseteq {Artifact})
    BY <2>1, <1>0, <1>6
  <2> QED
    BY <2>1, <2>2, <2>3, <1>6 DEF ResearchInv, Artifact
<1> QED
  BY <1>8, <1>9

\* objectiveQueueMetadataPatch takes over what the research recommends and adds
\* what the analysis found.
LEMMA QueueSafe ==
  ASSUME PlanInv, ScopeInv, QueueEdits
  PROVE  RepairFollowsEvidence'
<1>0. /\ stage = "queue" /\ ResearchInv /\ ContractInv /\ UNCHANGED <<contract, iter, optional, suspected, found, result>>
      /\ iter \in Nat \ {0} /\ optional \in SUBSET Optional /\ ("analyze" \notin optional => found = {})
  BY DEF PlanInv, ScopeInv, CycleStartInv, QueueEdits
<1>1. \A p : RuledOut(p)' <=> RuledOut(p)
  BY <1>0 DEF RuledOut, SelectedPaths, RejectedPaths
<1>2. PICK E : E = {e \in Items(iter, optional) : Kind(e) = "edit"}
  OBVIOUS
<1>3. /\ \A n \in E : scope'[n] = Patched(n, IF n \in Workstreams THEN contract.paths[n] ELSE suspected)
      /\ "edit" \in E /\ "edit" \notin Workstreams /\ optional \intersect Workstreams \subseteq E
  <2>1. scope' = [n \in E |-> Patched(n, IF n \in Workstreams THEN contract.paths[n] ELSE suspected)]
    BY <1>2 DEF QueueEdits
  <2>2. "edit" \in E /\ "edit" \notin Workstreams /\ optional \intersect Workstreams \subseteq E
    BY <1>2 DEF Items, Kind, Workstreams
  <2> QED
    BY <2>1, <2>2
<1>4. PICK R : R = IF research.scope = {} THEN suspected ELSE research.scope
  OBVIOUS
<1>5. scope'["edit"] = found \union R
  <2>1. scope'["edit"] = Patched("edit", suspected)
    BY <1>3
  <2>2. DependsOn(iter, optional, "edit") = {First(iter)} \union (optional \intersect Preparations)
    BY <1>0, DependsOnFacts
  <2>3. First(iter) # "analyze"
    BY DEF First
  <2>4. ResearchPatch("edit", suspected) = R
    BY <1>0, <1>3, <1>4 DEF ResearchPatch, PrioritizeWorkstreamScope, ResearchInv
  <2>5. Patched("edit", suspected) = IF "analyze" \in optional THEN found \union R ELSE R
    BY <2>2, <2>3, <2>4 DEF Patched, AnalysisPatch, Preparations
  <2> QED
    BY <2>1, <2>5, <1>0
<1>6. found \union (result.changed \ {Artifact}) \subseteq scope'["edit"]
  BY <1>0, <1>4, <1>5 DEF ResearchInv
<1>7. ASSUME NEW n \in optional \intersect Workstreams PROVE contract.paths[n] \subseteq scope'[n]
  <2>1. scope'[n] = Patched(n, contract.paths[n])
    BY <1>3
  <2>2. Artifact \notin contract.paths[n]
    BY <1>0 DEF ContractInv, ScopeInv, CycleStartInv
  <2>3. contract.paths[n] \subseteq ResearchPatch(n, contract.paths[n])
    BY <2>2, <1>0 DEF ResearchPatch, PrioritizeWorkstreamScope, ResearchInv
  <2> QED
    BY <2>1, <2>3 DEF Patched, AnalysisPatch
<1>8. \/ \A p \in scope'["edit"] : RuledOut(p) => p \in found
      \/ \A p \in scope'["edit"] : RuledOut(p) \/ p \in found
  <2>1. CASE research.scope # {}
    BY <2>1, <1>0, <1>4, <1>5 DEF ResearchInv
  <2>2. CASE research.scope = {}
    <3>1. \A p \in suspected : ~ RuledOut(p)
      BY <1>0 DEF RuledOut, ScopeInv, CycleStartInv
    <3> QED
      BY <2>2, <3>1, <1>4, <1>5
  <2> QED
    BY <2>1, <2>2
<1> QED
  BY <1>0, <1>1, <1>6, <1>7, <1>8 DEF RepairFollowsEvidence

LEMMA EvidenceStays ==
  ASSUME EvidenceInv, UNCHANGED <<contract, result>>
  PROVE  EvidenceInv'
  BY DEF EvidenceInv, Agrees, SelectedPaths, RejectedPaths

LEMMA ResearchStays ==
  ASSUME ResearchInv, UNCHANGED <<contract, result, research, suspected>>
  PROVE  ResearchInv'
  BY DEF ResearchInv, RuledOut, SelectedPaths, RejectedPaths, Artifact

LEMMA RequestSafe ==
  ASSUME ScopeInv, NEW changed, NEW findings, ChangesRequested(changed, findings), Agrees(changed, findings)
  PROVE  ScopeInv'
<1>1. stage' = "result" /\ result'.changed = changed /\ result'.findings = findings /\ contract' = contract /\ iter' = iter
  BY DEF ChangesRequested
<1>2. EvidenceInv'
  BY <1>1 DEF EvidenceInv, Agrees, SelectedPaths, RejectedPaths
<1> QED
  BY <1>1, <1>2 DEF ScopeInv, CycleStartInv, RepairFollowsEvidence

LEMMA ScopeStep ==
  ASSUME PlanInv, ScopeInv, [ScopeNext]_allVars
  PROVE  ScopeInv'
<1>0. /\ EvidenceInv /\ CycleStartInv /\ RepairFollowsEvidence
      /\ stage \in {"context", "contract", "done", "research", "analysis", "queue", "edit", "result"}
  BY DEF PlanInv, ScopeInv
<1>1. CASE UNCHANGED allVars
  <2>1. UNCHANGED <<ws, chunks, hits, contract, stage>> /\ UNCHANGED <<iter, optional, suspected, research, found, scope, result>>
    BY <1>1 DEF allVars, planVars, scopeVars
  <2>2. EvidenceInv' /\ CycleStartInv' /\ RepairFollowsEvidence'
    BY <2>1, <1>0, EvidenceStays DEF CycleStartInv, RepairFollowsEvidence, RuledOut, SelectedPaths, RejectedPaths
  <2>3. stage \in {"analysis", "queue"} => ResearchInv'
    BY <2>1, ResearchStays DEF ScopeInv
  <2> QED
    BY <2>1, <2>2, <2>3 DEF ScopeInv
<1>2. CASE PlanNext /\ UNCHANGED scopeVars
  <2>1. /\ stage \in {"context", "contract"} /\ stage' \in {"contract", "done"}
        /\ UNCHANGED <<iter, optional, suspected, research, found, scope, result>>
    BY <1>2 DEF PlanNext, BuildPlanningContext, GenerateContract, scopeVars
  <2>2. result'.changed = {} /\ result'.findings = {}
    BY <2>1, <1>0 DEF CycleStartInv
  <2>3. EvidenceInv'
    BY <2>2 DEF EvidenceInv, Agrees
  <2> QED
    BY <2>1, <2>2, <2>3, <1>0 DEF ScopeInv, CycleStartInv, RepairFollowsEvidence
<1>3. CASE StartObjective
  <2>1. /\ stage = "done" /\ stage' = "research" /\ UNCHANGED <<contract, iter, result>> /\ optional' = contract.plan
    BY <1>3 DEF StartObjective
  <2>2. ContractInv /\ result.changed = {}
    BY <2>1, <1>0 DEF PlanInv, CycleStartInv
  <2> QED
    BY <2>1, <2>2, <1>0, EvidenceStays DEF ScopeInv, CycleStartInv, RepairFollowsEvidence, ContractInv
<1>4. CASE ResearchProject
  <2>1. stage = "research" /\ stage' = "analysis" /\ UNCHANGED <<contract, iter, optional, suspected, result>>
    BY <1>4 DEF ResearchProject
  <2>2. ResearchInv'
    BY <1>4, ResearchSafe
  <2> QED
    BY <2>1, <2>2, <1>0, EvidenceStays DEF ScopeInv, CycleStartInv, RepairFollowsEvidence
<1>5. CASE CodeAnalysis
  <2>1. /\ stage = "analysis" /\ stage' = "queue" /\ UNCHANGED <<contract, iter, optional, suspected, research, result>>
        /\ "analyze" \notin optional => found' = {}
    BY <1>5 DEF CodeAnalysis
  <2>2. ResearchInv'
    BY <2>1, ResearchStays DEF ScopeInv
  <2> QED
    BY <2>1, <2>2, <1>0, EvidenceStays DEF ScopeInv, CycleStartInv, RepairFollowsEvidence
<1>6. CASE QueueEdits
  <2>1. stage = "queue" /\ stage' = "edit" /\ UNCHANGED <<contract, iter, optional, suspected, result>>
    BY <1>6 DEF QueueEdits
  <2> QED
    BY <2>1, <1>0, <1>6, QueueSafe, EvidenceStays DEF ScopeInv, CycleStartInv
<1>7. CASE ValidationFails
  <2>1. Agrees({}, {"validation_failure"})
    BY FindingsAgree
  <2> QED
    BY <2>1, <1>7, RequestSafe DEF ValidationFails
<1>8. ASSUME NEW changed, ReviewFails(changed) \/ ReviewMissesDiff(changed) PROVE ScopeInv'
  BY <1>8, FindingsAgree, RequestSafe DEF ReviewFails, ReviewMissesDiff
<1>9. CASE StartRepairCycle
  <2>1. /\ stage = "result" /\ stage' = "research" /\ UNCHANGED <<contract, result>> /\ iter' = iter + 1
        /\ result.changed # {} => suspected' = result.changed
    BY <1>9 DEF StartRepairCycle
  <2>2. optional' \in SUBSET Optional /\ optional' \intersect Workstreams \subseteq contract.plan
    BY <1>9 DEF StartRepairCycle, RepairPlan, Optional, Preparations, Workstreams
  <2>3. iter' \in Nat \ {0}
    BY <2>1, <1>0 DEF CycleStartInv
  <2> QED
    BY <2>1, <2>2, <2>3, <1>0, EvidenceStays DEF ScopeInv, CycleStartInv, RepairFollowsEvidence
<1> QED
  BY <1>1, <1>2, <1>3, <1>4, <1>5, <1>6, <1>7, <1>8, <1>9 DEF ScopeNext

LEMMA ScopeStart ==
  ASSUME ScopeInit
  PROVE  ScopeInv
<1>1. stage = "context" /\ iter = 1 /\ result.changed = {} /\ result.findings = {}
  BY DEF ScopeInit, PlanInit
<1> QED
  BY <1>1 DEF ScopeInv, EvidenceInv, Agrees, CycleStartInv, RepairFollowsEvidence

\* Through review, repair cycle, replan and queueing (interpretPlannerRepair-
\* Findings, recommendResearchScopePaths, objectiveQueueMetadataPatch) a repair
\* keeps every file of the rejected diff, every finding of the analysis and the
\* files of its synchronisations, and takes up a file that the review ruled out
\* only if the analysis names it or nothing else is left: the files excluded
\* are exactly those ruled out.
THEOREM RepairSafe == ScopeSpec => []RepairFollowsEvidence
<1>1. ScopeInv => RepairFollowsEvidence
  BY DEF ScopeInv
<1> QED
  BY <1>1, PlanStart, PlanStep, ScopeStart, ScopeStep, PTL DEF ScopeSpec

(***************************************************************************)
(* Sorting: Sorted lists a finite set in a strict order.                   *)
(***************************************************************************)
Before(S, R, x) == {y \in S : <<y, x>> \in R}

StrictOrder(S, R) ==
  /\ IsFiniteSet(S)
  /\ \A x \in S : <<x, x>> \notin R
  /\ \A x, y, z \in S : <<x, y>> \in R /\ <<y, z>> \in R => <<x, z>> \in R
  /\ \A x, y \in S : x # y => <<x, y>> \in R \/ <<y, x>> \in R

LEMMA RankFacts ==
  ASSUME NEW S, NEW R, StrictOrder(S, R), NEW x \in S
  PROVE  /\ IsFiniteSet(Before(S, R, x)) /\ Cardinality(Before(S, R, x)) \in Nat
         /\ IsFiniteSet(Before(S, R, x) \union {x})
         /\ Cardinality(Before(S, R, x) \union {x}) = Cardinality(Before(S, R, x)) + 1
<1>1. Before(S, R, x) \in SUBSET S /\ x \notin Before(S, R, x) /\ IsFiniteSet(S)
  BY DEF Before, StrictOrder
<1>2. IsFiniteSet(Before(S, R, x))
  BY <1>1, FS_Subset
<1> QED
  BY <1>1, <1>2, FS_AddElement, FS_CardinalityType

LEMMA RankGrows ==
  ASSUME NEW S, NEW R, StrictOrder(S, R), NEW x \in S, NEW y \in S, <<x, y>> \in R
  PROVE  Cardinality(Before(S, R, x)) < Cardinality(Before(S, R, y))
<1>1. Before(S, R, x) \union {x} \in SUBSET Before(S, R, y)
  BY DEF Before, StrictOrder
<1>2. /\ IsFiniteSet(Before(S, R, y)) /\ Cardinality(Before(S, R, y)) \in Nat
      /\ Cardinality(Before(S, R, x)) \in Nat
      /\ Cardinality(Before(S, R, x) \union {x}) = Cardinality(Before(S, R, x)) + 1
  BY RankFacts
<1>3. Cardinality(Before(S, R, x) \union {x}) <= Cardinality(Before(S, R, y))
  BY <1>1, <1>2, FS_Subset
<1> QED
  BY <1>2, <1>3

LEMMA RankInRange ==
  ASSUME NEW S, NEW R, StrictOrder(S, R), NEW x \in S
  PROVE  Cardinality(Before(S, R, x)) + 1 \in 1..Cardinality(S)
<1>1. Before(S, R, x) \union {x} \in SUBSET S /\ IsFiniteSet(S)
  BY DEF Before, StrictOrder
<1>2. Cardinality(Before(S, R, x)) \in Nat
      /\ Cardinality(Before(S, R, x) \union {x}) = Cardinality(Before(S, R, x)) + 1
  BY RankFacts
<1>3. Cardinality(Before(S, R, x) \union {x}) <= Cardinality(S) /\ Cardinality(S) \in Nat
  BY <1>1, FS_Subset, FS_CardinalityType
<1> QED
  BY <1>2, <1>3

LEMMA SortedIs ==
  ASSUME NEW S, NEW R, StrictOrder(S, R)
  PROVE  /\ Cardinality(S) \in Nat
         /\ \A k \in 1..Cardinality(S) : Sorted(S, R)[k] \in S
         /\ \A x \in S : \E k \in 1..Cardinality(S) : Sorted(S, R)[k] = x
         /\ \A k, l \in 1..Cardinality(S) : k < l => <<Sorted(S, R)[k], Sorted(S, R)[l]>> \in R
<1>0. IsFiniteSet(S) /\ Cardinality(S) \in Nat
  BY FS_CardinalityType DEF StrictOrder
<1>1. PICK N \in Nat : N = Cardinality(S)
  BY <1>0
<1> DEFINE Rank(x) == Cardinality(Before(S, R, x))
<1>2. \A x \in S : Rank(x) + 1 \in 1..N /\ Rank(x) \in Nat
  BY <1>1, RankInRange, RankFacts
<1>3. ASSUME NEW x \in S, NEW y \in S, x # y PROVE Rank(x) # Rank(y)
  <2>1. CASE <<x, y>> \in R
    BY <2>1, <1>2, RankGrows
  <2>2. CASE <<y, x>> \in R
    BY <2>2, <1>2, RankGrows
  <2> QED
    BY <1>3, <2>1, <2>2 DEF StrictOrder
<1>4. PICK f : f = [x \in S |-> Rank(x) + 1]
  OBVIOUS
<1> HIDE DEF Rank
<1>5. f \in Injection(S, 1..N)
  BY <1>2, <1>3, <1>4 DEF Injection, IsInjective
<1>6. IsFiniteSet(1..N) /\ Cardinality(1..N) = N
  BY FS_Interval
<1>7. f \in Surjection(S, 1..N)
  BY <1>1, <1>5, <1>6, FS_Injection
<1>8. \A k \in 1..N : \E x \in S : f[x] = k
  BY <1>7 DEF Surjection
<1>9. \A k \in 1..N : Sorted(S, R)[k] \in S /\ Rank(Sorted(S, R)[k]) = k - 1
  <2> TAKE k \in 1..N
  <2>1. Sorted(S, R)[k] = CHOOSE x \in S : Rank(x) = k - 1
    BY <1>1 DEF Sorted, Rank, Before
  <2>2. \E x \in S : Rank(x) = k - 1
    BY <1>2, <1>4, <1>8
  <2> QED
    BY <2>1, <2>2
<1>10. ASSUME NEW x \in S PROVE \E k \in 1..N : Sorted(S, R)[k] = x
  <2>1. Rank(x) + 1 \in 1..N /\ Rank(x) \in Nat
    BY <1>2
  <2>2. PICK k \in 1..N : k = Rank(x) + 1
    BY <2>1
  <2>3. Sorted(S, R)[k] \in S /\ Rank(Sorted(S, R)[k]) = Rank(x)
    BY <1>9, <2>1, <2>2
  <2> QED
    BY <2>3, <1>3
<1>11. ASSUME NEW k \in 1..N, NEW l \in 1..N, k < l PROVE <<Sorted(S, R)[k], Sorted(S, R)[l]>> \in R
  <2>1. PICK x \in S, y \in S : x = Sorted(S, R)[k] /\ y = Sorted(S, R)[l]
    BY <1>9
  <2>2. Rank(x) < Rank(y) /\ Rank(x) \in Nat /\ Rank(y) \in Nat
    BY <1>9, <1>11, <2>1, <1>2
  <2>3. <<y, x>> \notin R
    BY <2>2, RankGrows DEF Rank
  <2>4. x # y
    BY <2>2
  <2>5. <<x, y>> \in R
    BY <2>3, <2>4 DEF StrictOrder
  <2> QED
    BY <2>1, <2>5
<1> QED
  BY <1>1, <1>9, <1>10, <1>11

(***************************************************************************)
(* The order of the chunks.                                                *)
(***************************************************************************)
Chunk == [ref : Int, class : STRING, score : Int, path : Int, topics : SUBSET STRING]

LEMMA PriorityIs ==
  ASSUME NEW class
  PROVE  MemoryClassPriority(class) \in Nat
  BY DEF MemoryClassPriority

LEMMA BetterIsOrder ==
  ASSUME NEW a \in Chunk, NEW b \in Chunk, NEW c \in Chunk
  PROVE  /\ ~ BetterChunk(a, a)
         /\ BetterChunk(a, b) => ~ BetterChunk(b, a)
         /\ BetterChunk(a, b) /\ BetterChunk(b, c) => BetterChunk(a, c)
         /\ ~ BetterChunk(a, b) /\ ~ BetterChunk(b, c) => ~ BetterChunk(a, c)
<1>1. /\ a.score \in Int /\ b.score \in Int /\ c.score \in Int
      /\ a.ref \in Int /\ b.ref \in Int /\ c.ref \in Int
  BY DEF Chunk
<1>2. PICK x \in Nat, y \in Nat, z \in Nat :
        x = MemoryClassPriority(a.class) /\ y = MemoryClassPriority(b.class) /\ z = MemoryClassPriority(c.class)
  BY PriorityIs
<1> QED
  BY <1>1, <1>2 DEF BetterChunk

\* SortedChunks lists the chunks that are no guardrails, none after a worse one.
LEMMA SortedChunksAre ==
  ASSUME NEW s \in Seq(Chunk)
  PROVE  /\ SortedChunks(s) \in Seq(Chunk)
         /\ \A k, l \in DOMAIN SortedChunks(s) : k < l => ~ BetterChunk(SortedChunks(s)[l], SortedChunks(s)[k])
         /\ \A i \in DOMAIN s : s[i].class # "negative_guardrail" => \E k \in DOMAIN SortedChunks(s) : SortedChunks(s)[k] = s[i]
<1>1. PICK cand : cand = {i \in DOMAIN s : s[i].class # "negative_guardrail"}
  OBVIOUS
<1>2. PICK before : before = {p \in cand \X cand :
                                \/ BetterChunk(s[p[1]], s[p[2]])
                                \/ ~ BetterChunk(s[p[2]], s[p[1]]) /\ p[1] < p[2]}
  OBVIOUS
<1>3. \A i \in cand : i \in Nat /\ s[i] \in Chunk
  BY <1>1
<1>4. \A i, j \in cand : <<i, j>> \in before <=> \/ BetterChunk(s[i], s[j])
                                                 \/ ~ BetterChunk(s[j], s[i]) /\ i < j
  BY <1>2
<1>5. IsFiniteSet(cand)
  <2>1. cand \in SUBSET (1..Len(s)) /\ Len(s) \in Nat
    BY <1>1
  <2>2. IsFiniteSet(1..Len(s))
    BY <2>1, FS_Interval
  <2> QED
    BY <2>1, <2>2, FS_Subset
<1>6. StrictOrder(cand, before)
  <2>1. \A x \in cand : <<x, x>> \notin before
    BY <1>3, <1>4, BetterIsOrder
  <2>2. ASSUME NEW x \in cand, NEW y \in cand, NEW z \in cand, <<x, y>> \in before, <<y, z>> \in before
        PROVE  <<x, z>> \in before
    <3>1. PICK a \in Chunk, b \in Chunk, c \in Chunk : a = s[x] /\ b = s[y] /\ c = s[z]
      BY <1>3
    <3>2. x \in Nat /\ y \in Nat /\ z \in Nat
      BY <1>3
    <3>3. (BetterChunk(a, b) \/ (~ BetterChunk(b, a) /\ x < y)) /\ (BetterChunk(b, c) \/ (~ BetterChunk(c, b) /\ y < z))
      BY <1>4, <2>2, <3>1
    <3>4. /\ BetterChunk(a, b) /\ BetterChunk(b, c) => BetterChunk(a, c)
          /\ ~ BetterChunk(c, b) /\ ~ BetterChunk(b, a) => ~ BetterChunk(c, a)
          /\ ~ BetterChunk(a, c) /\ ~ BetterChunk(c, b) => ~ BetterChunk(a, b)
          /\ ~ BetterChunk(b, a) /\ ~ BetterChunk(a, c) => ~ BetterChunk(b, c)
      BY BetterIsOrder
    <3>5. BetterChunk(a, c) \/ (~ BetterChunk(c, a) /\ x < z)
      BY <3>2, <3>3, <3>4
    <3> QED
      BY <3>1, <3>5, <1>4
  <2>3. ASSUME NEW x \in cand, NEW y \in cand, x # y PROVE <<x, y>> \in before \/ <<y, x>> \in before
    BY <1>3, <1>4, <2>3
  <2> QED
    BY <1>5, <2>1, <2>2, <2>3 DEF StrictOrder
<1>7. PICK N \in Nat : N = Cardinality(cand)
  BY <1>6, SortedIs
<1>8. PICK t : t = Sorted(cand, before)
  OBVIOUS
<1>9. /\ \A k \in 1..N : t[k] \in cand
      /\ \A x \in cand : \E k \in 1..N : t[k] = x
      /\ \A k, l \in 1..N : k < l => <<t[k], t[l]>> \in before
  BY <1>6, <1>7, <1>8, SortedIs
<1>10. SortedChunks(s) = [k \in 1..N |-> s[t[k]]]
  BY <1>1, <1>2, <1>7, <1>8, Zenon DEF SortedChunks
<1>11. PICK q : q = SortedChunks(s)
  OBVIOUS
<1>12. q \in Seq(Chunk) /\ DOMAIN q = 1..N /\ \A k \in 1..N : q[k] = s[t[k]]
  BY <1>3, <1>9, <1>10, <1>11
<1>13. ASSUME NEW k \in 1..N, NEW l \in 1..N, k < l PROVE ~ BetterChunk(q[l], q[k])
  <2>1. t[k] \in cand /\ t[l] \in cand /\ <<t[k], t[l]>> \in before
    BY <1>9, <1>13
  <2>2. PICK a \in Chunk, b \in Chunk : a = s[t[k]] /\ b = s[t[l]]
    BY <2>1, <1>3
  <2>3. BetterChunk(a, b) \/ ~ BetterChunk(b, a)
    BY <2>1, <2>2, <1>4
  <2>4. ~ BetterChunk(b, a)
    BY <2>3, BetterIsOrder
  <2> QED
    BY <2>2, <2>4, <1>12
<1>14. \A i \in cand : \E k \in 1..N : q[k] = s[i]
  BY <1>9, <1>12
<1> QED
  BY <1>1, <1>11, <1>12, <1>13, <1>14

(***************************************************************************)
(* The loop of SelectRetrievalHits over the sorted chunks.                 *)
(***************************************************************************)
IsTaken(f, q, N) == f = [n \in 0..N |-> IF n = 0 THEN <<>> ELSE TakeHit(f[n - 1], q[n])]

LEMMA LeastNumber ==
  ASSUME NEW S, S \subseteq Nat, S # {}
  PROVE  \E x \in S : \A y \in S : x <= y
<1>1. PICK x \in S : \A y \in S : ~ (<<y, x>> \in OpToRel(<, Nat))
  BY NatLessThanWellFounded, WFMin
<1>2. ASSUME NEW y \in S, y < x PROVE FALSE
  <2>1. <<y, x>> \in OpToRel(<, Nat)
    BY <1>2 DEF OpToRel
  <2> QED
    BY <1>1, <2>1
<1> QED
  BY <1>2

LEMMA TakenExists ==
  ASSUME NEW q, NEW N \in Nat
  PROVE  \E f : IsTaken(f, q, N)
<1> DEFINE Step(f, n) == IF n = 0 THEN <<>> ELSE TakeHit(f[n - 1], q[n])
           Has(n) == \E f : f = [i \in 0..n |-> Step(f, i)]
           Bad == {n \in Nat : ~ Has(n)}
<1>1. ASSUME Bad # {} PROVE FALSE
  <2>1. PICK n \in Bad : \A y \in Bad : n <= y
    <3>1. Bad \subseteq Nat
      OBVIOUS
    <3> HIDE DEF Bad
    <3> QED
      BY <3>1, <1>1, LeastNumber
  <2>2. n \in Nat /\ ~ Has(n)
    OBVIOUS
  <2>3. CASE n = 0
    <3>1. PICK f : f = [i \in 0..0 |-> <<>>]
      OBVIOUS
    <3>2. \A i \in 0..0 : Step(f, i) = <<>>
      OBVIOUS
    <3>3. f = [i \in 0..n |-> Step(f, i)]
      <4> HIDE DEF Step
      <4> QED
        BY <3>1, <3>2, <2>3
    <3> HIDE DEF Step
    <3> QED
      BY <3>3, <2>2
  <2>4. CASE n # 0
    <3>1. n - 1 \in Nat /\ n - 1 \notin Bad
      <4> HIDE DEF Bad, Has
      <4> QED
        BY <2>1, <2>2, <2>4
    <3>2. PICK f : f = [i \in 0..(n - 1) |-> Step(f, i)]
      BY <3>1
    <3>3. PICK g : g = [i \in 0..n |-> IF i < n THEN f[i] ELSE Step(f, n)]
      OBVIOUS
    <3>4. ASSUME NEW i \in 0..n PROVE g[i] = Step(g, i)
      <4>1. CASE i = 0
        <5>1. g[i] = f[0] /\ f[0] = <<>>
          BY <4>1, <3>1, <3>2, <3>3, <2>4
        <5> QED
          BY <5>1, <4>1
      <4>2. CASE i # 0 /\ i < n
        <5>1. g[i] = f[i] /\ g[i - 1] = f[i - 1] /\ i \in 0..(n - 1)
          BY <4>2, <3>3, <2>2
        <5>2. f[i] = Step(f, i)
          <6> HIDE DEF Step
          <6> QED
            BY <5>1, <3>2
        <5> QED
          BY <5>1, <5>2, <4>2
      <4>3. CASE i = n
        <5>1. g[i] = Step(f, n) /\ g[i - 1] = f[n - 1]
          <6> HIDE DEF Step
          <6> QED
            BY <4>3, <3>3, <2>2, <2>4
        <5> QED
          BY <5>1, <4>3, <2>4
      <4> QED
        BY <4>1, <4>2, <4>3, <2>2
    <3> HIDE DEF Step
    <3>5. g = [i \in 0..n |-> Step(g, i)]
      BY <3>3, <3>4
    <3> QED
      BY <3>5, <2>2
  <2> QED
    BY <2>3, <2>4
<1>2. Has(N)
  BY <1>1
<1> QED
  BY <1>2 DEF IsTaken

\* Why a chunk that has been looked at need not be among the hits.
NotWorse(c, out) == {j \in DOMAIN out : ~ BetterChunk(c, out[j])}

Accounted(c, out) ==
  \/ \E j \in DOMAIN out : out[j] = c
  \/ Cardinality(NotWorse(c, out)) = DefaultPrecedentLimit
  \/ Cardinality({j \in NotWorse(c, out) : out[j].class = c.class}) = DefaultPerClassLimit
  \/ \E j \in NotWorse(c, out) : out[j].ref = c.ref

\* The chunks of q are sorted.
Descending(q) ==
  /\ q \in Seq(Chunk)
  /\ \A k, l \in DOMAIN q : k < l => ~ BetterChunk(q[l], q[k])

\* What has been taken of the first n chunks of q.
TakenOf(q, n, out) ==
  /\ out \in Seq(Chunk) /\ Len(out) <= DefaultPrecedentLimit
  /\ \A class : Cardinality(OfClass(out, class)) <= DefaultPerClassLimit
  /\ \A j \in DOMAIN out : \E k \in 1..n : out[j] = q[k]
  /\ \A k \in 1..n : Accounted(q[k], out)

LEMMA ClassCount ==
  ASSUME NEW out \in Seq(Chunk)
  PROVE  \A class : IsFiniteSet(OfClass(out, class)) /\ Cardinality(OfClass(out, class)) \in Nat
<1> SUFFICES ASSUME NEW class PROVE IsFiniteSet(OfClass(out, class)) /\ Cardinality(OfClass(out, class)) \in Nat
  OBVIOUS
<1>1. OfClass(out, class) \in SUBSET (1..Len(out)) /\ Len(out) \in Nat
  BY DEF OfClass
<1>2. IsFiniteSet(1..Len(out))
  BY <1>1, FS_Interval
<1>3. IsFiniteSet(OfClass(out, class))
  BY <1>1, <1>2, FS_Subset
<1> QED
  BY <1>3, FS_CardinalityType

\* Nothing taken is worse than the chunk that is looked at.
LEMMA TakenIsNotWorse ==
  ASSUME NEW q, Descending(q), NEW n \in DOMAIN q, NEW out, TakenOf(q, n - 1, out)
  PROVE  NotWorse(q[n], out) = DOMAIN out
<1>1. ASSUME NEW j \in DOMAIN out PROVE ~ BetterChunk(q[n], out[j])
  <2>1. PICK k \in 1..(n - 1) : out[j] = q[k]
    BY DEF TakenOf
  <2>2. k \in DOMAIN q /\ k < n
    BY DEF Descending
  <2> QED
    BY <2>1, <2>2 DEF Descending
<1> QED
  BY <1>1 DEF NotWorse

\* A chunk is passed over for one of the reasons that account for it.
LEMMA PassedOver ==
  ASSUME NEW q, Descending(q), NEW n \in DOMAIN q, NEW out, TakenOf(q, n - 1, out),
         \/ Len(out) >= DefaultPrecedentLimit
         \/ \E i \in DOMAIN out : out[i].ref = q[n].ref
         \/ Cardinality(OfClass(out, q[n].class)) >= DefaultPerClassLimit
  PROVE  TakenOf(q, n, out)
<1>1. NotWorse(q[n], out) = DOMAIN out
  BY TakenIsNotWorse
<1>2. out \in Seq(Chunk) /\ Len(out) <= DefaultPrecedentLimit /\ Len(out) \in Nat
      /\ Cardinality(OfClass(out, q[n].class)) <= DefaultPerClassLimit
      /\ n \in Nat \ {0}
  BY DEF TakenOf, Descending
<1>3. Accounted(q[n], out)
  <2>1. CASE Len(out) >= DefaultPrecedentLimit
    <3>0. PICK m \in Nat : m = Len(out)
      BY <1>2
    <3>1. m = DefaultPrecedentLimit
      BY <3>0, <1>2, <2>1 DEF DefaultPrecedentLimit
    <3>2. Cardinality(1..m) = m
      BY FS_Interval
    <3>3. DOMAIN out = 1..Len(out)
      BY <1>2
    <3> QED
      BY <3>0, <3>1, <3>2, <3>3, <1>1 DEF Accounted
  <2>2. CASE \E i \in DOMAIN out : out[i].ref = q[n].ref
    BY <2>2, <1>1 DEF Accounted
  <2>3. CASE Cardinality(OfClass(out, q[n].class)) >= DefaultPerClassLimit
    <3>1. Cardinality(OfClass(out, q[n].class)) \in Nat
      BY <1>2, ClassCount
    <3>2. Cardinality(OfClass(out, q[n].class)) = DefaultPerClassLimit
      BY <3>1, <2>3, <1>2 DEF DefaultPerClassLimit
    <3>3. {j \in NotWorse(q[n], out) : out[j].class = q[n].class} = OfClass(out, q[n].class)
      BY <1>1 DEF OfClass
    <3> QED
      BY <3>2, <3>3 DEF Accounted
  <2> QED
    BY <2>1, <2>2, <2>3
<1>4. \A k \in 1..n : k \in 1..(n - 1) \/ k = n
  BY <1>2
<1>5. \A k \in 1..(n - 1) : k \in 1..n
  BY <1>2
<1> QED
  BY <1>3, <1>4, <1>5 DEF TakenOf

\* A hit added leaves every chunk before it accounted for.
LEMMA StillAccounted ==
  ASSUME NEW out \in Seq(Chunk), NEW c \in Chunk, NEW d \in Chunk,
         Len(out) < DefaultPrecedentLimit,
         \A class : Cardinality(OfClass(out, class)) <= DefaultPerClassLimit,
         Cardinality(OfClass(out, c.class)) < DefaultPerClassLimit,
         Accounted(d, out)
  PROVE  Accounted(d, Append(out, c))
<1>1. PICK more : more = Append(out, c)
  OBVIOUS
<1>2. /\ Len(out) \in Nat /\ DOMAIN out = 1..Len(out) /\ DOMAIN more = 1..(Len(out) + 1)
      /\ more[Len(out) + 1] = c /\ \A j \in DOMAIN out : more[j] = out[j] /\ j \in DOMAIN more
  BY <1>1
<1>3. IsFiniteSet(1..Len(out)) /\ Cardinality(1..Len(out)) = Len(out)
  BY <1>2, FS_Interval
<1>4. NotWorse(d, out) \in SUBSET (1..Len(out)) /\ NotWorse(d, out) \subseteq NotWorse(d, more)
  BY <1>2 DEF NotWorse
<1>5. CASE \E j \in DOMAIN out : out[j] = d
  BY <1>1, <1>2, <1>5 DEF Accounted
<1>6. CASE Cardinality(NotWorse(d, out)) = DefaultPrecedentLimit
  <2>1. Cardinality(NotWorse(d, out)) <= Len(out)
    BY <1>3, <1>4, FS_Subset
  <2> QED
    BY <2>1, <1>2, <1>6 DEF DefaultPrecedentLimit
<1>7. CASE Cardinality({j \in NotWorse(d, out) : out[j].class = d.class}) = DefaultPerClassLimit
  <2>1. d.class # c.class
    <3>1. {j \in NotWorse(d, out) : out[j].class = d.class} \in SUBSET OfClass(out, d.class)
      BY DEF OfClass, NotWorse
    <3>2. IsFiniteSet(OfClass(out, d.class)) /\ Cardinality(OfClass(out, d.class)) \in Nat
      BY ClassCount
    <3>3. Cardinality({j \in NotWorse(d, out) : out[j].class = d.class}) <= Cardinality(OfClass(out, d.class))
      BY <3>1, <3>2, FS_Subset
    <3> QED
      BY <3>2, <3>3, <1>7 DEF DefaultPerClassLimit
  <2>2. {j \in NotWorse(d, more) : more[j].class = d.class} = {j \in NotWorse(d, out) : out[j].class = d.class}
    BY <2>1, <1>2 DEF NotWorse
  <2> QED
    BY <2>2, <1>1, <1>7 DEF Accounted
<1>8. CASE \E j \in NotWorse(d, out) : out[j].ref = d.ref
  <2>1. \E j \in NotWorse(d, more) : more[j].ref = d.ref
    BY <1>2, <1>4, <1>8 DEF NotWorse
  <2> QED
    BY <2>1, <1>1 DEF Accounted
<1> QED
  BY <1>5, <1>6, <1>7, <1>8 DEF Accounted

LEMMA OneMoreHit ==
  ASSUME NEW q, Descending(q), NEW n \in DOMAIN q, NEW out, TakenOf(q, n - 1, out),
         Len(out) < DefaultPrecedentLimit,
         Cardinality(OfClass(out, q[n].class)) < DefaultPerClassLimit
  PROVE  TakenOf(q, n, Append(out, q[n]))
<1>1. PICK c : c = q[n]
  OBVIOUS
<1>2. PICK more : more = Append(out, c)
  OBVIOUS
<1>3. /\ out \in Seq(Chunk) /\ c \in Chunk /\ n \in Nat \ {0} /\ \A k \in 1..n : q[k] \in Chunk
      /\ \A class : Cardinality(OfClass(out, class)) <= DefaultPerClassLimit
      /\ \A j \in DOMAIN out : \E k \in 1..(n - 1) : out[j] = q[k]
      /\ \A k \in 1..(n - 1) : Accounted(q[k], out)
  BY <1>1 DEF TakenOf, Descending
<1>4. /\ Len(out) \in Nat /\ DOMAIN out = 1..Len(out) /\ DOMAIN more = 1..(Len(out) + 1)
      /\ more[Len(out) + 1] = c /\ \A j \in DOMAIN out : more[j] = out[j] /\ j \in DOMAIN more
      /\ more \in Seq(Chunk) /\ Len(more) = Len(out) + 1
  BY <1>2, <1>3
<1>5. Len(more) <= DefaultPrecedentLimit
  BY <1>4 DEF DefaultPrecedentLimit
<1>6. ASSUME NEW class PROVE Cardinality(OfClass(more, class)) <= DefaultPerClassLimit
  <2>1. CASE class = c.class
    <3>1. OfClass(more, class) = OfClass(out, class) \union {Len(out) + 1}
      BY <1>4, <2>1 DEF OfClass
    <3>2. IsFiniteSet(OfClass(out, class)) /\ Cardinality(OfClass(out, class)) \in Nat
      BY <1>3, ClassCount
    <3>3. Len(out) + 1 \notin OfClass(out, class)
      BY <1>4 DEF OfClass
    <3>4. Cardinality(OfClass(out, class) \union {Len(out) + 1}) = Cardinality(OfClass(out, class)) + 1
      BY <3>2, <3>3, FS_AddElement
    <3> QED
      BY <3>1, <3>2, <3>4, <2>1, <1>1 DEF DefaultPerClassLimit
  <2>2. CASE class # c.class
    <3>1. OfClass(more, class) = OfClass(out, class)
      BY <1>4, <2>2 DEF OfClass
    <3> QED
      BY <3>1, <1>3
  <2> QED
    BY <2>1, <2>2
<1>7. ASSUME NEW j \in DOMAIN more PROVE \E k \in 1..n : more[j] = q[k]
  <2>1. CASE j \in DOMAIN out
    <3>1. PICK k \in 1..(n - 1) : out[j] = q[k]
      BY <2>1, <1>3
    <3>2. k \in 1..n /\ more[j] = q[k]
      BY <3>1, <2>1, <1>3, <1>4
    <3> QED
      BY <3>2
  <2>2. CASE j = Len(out) + 1
    BY <2>2, <1>1, <1>3, <1>4
  <2> QED
    BY <2>1, <2>2, <1>4
<1>8. ASSUME NEW k \in 1..n PROVE Accounted(q[k], more)
  <2>1. CASE k = n
    <3>1. more[Len(out) + 1] = q[k] /\ Len(out) + 1 \in DOMAIN more
      BY <2>1, <1>1, <1>4
    <3> QED
      BY <3>1 DEF Accounted
  <2>2. CASE k # n
    <3>1. k \in 1..(n - 1) /\ q[k] \in Chunk
      BY <2>2, <1>3
    <3>2. Accounted(q[k], out) /\ Cardinality(OfClass(out, c.class)) < DefaultPerClassLimit
      BY <3>1, <1>1, <1>3
    <3> QED
      BY <3>1, <3>2, <1>2, <1>3, StillAccounted
  <2> QED
    BY <2>1, <2>2
<1> QED
  BY <1>1, <1>2, <1>4, <1>5, <1>6, <1>7, <1>8 DEF TakenOf

LEMMA TakeStep ==
  ASSUME NEW q, Descending(q), NEW n \in DOMAIN q, NEW out, TakenOf(q, n - 1, out)
  PROVE  TakenOf(q, n, TakeHit(out, q[n]))
<1>1. out \in Seq(Chunk) /\ Len(out) \in Nat /\ Cardinality(OfClass(out, q[n].class)) \in Nat
  BY ClassCount DEF TakenOf
<1>2. CASE \/ Len(out) >= DefaultPrecedentLimit
           \/ \E i \in DOMAIN out : out[i].ref = q[n].ref
           \/ Cardinality(OfClass(out, q[n].class)) >= DefaultPerClassLimit
  <2>1. TakeHit(out, q[n]) = out
    BY <1>2 DEF TakeHit
  <2> QED
    BY <1>2, <2>1, PassedOver
<1>3. CASE ~ (\/ Len(out) >= DefaultPrecedentLimit
              \/ \E i \in DOMAIN out : out[i].ref = q[n].ref
              \/ Cardinality(OfClass(out, q[n].class)) >= DefaultPerClassLimit)
  <2>1. TakeHit(out, q[n]) = Append(out, q[n])
    BY <1>3 DEF TakeHit
  <2>2. Len(out) < DefaultPrecedentLimit /\ Cardinality(OfClass(out, q[n].class)) < DefaultPerClassLimit
    BY <1>1, <1>3 DEF DefaultPrecedentLimit, DefaultPerClassLimit
  <2> QED
    BY <2>1, <2>2, OneMoreHit
<1> QED
  BY <1>2, <1>3

LEMMA TakenAll ==
  ASSUME NEW q, Descending(q), NEW f, IsTaken(f, q, Len(q))
  PROVE  TakenOf(q, Len(q), f[Len(q)])
<1>1. PICK N \in Nat : N = Len(q) /\ DOMAIN q = 1..N
  BY DEF Descending
<1> DEFINE Bad == {n \in 0..N : ~ TakenOf(q, n, f[n])}
<1>2. ASSUME Bad # {} PROVE FALSE
  <2>1. PICK n \in Bad : \A y \in Bad : n <= y
    <3>1. Bad \subseteq Nat
      OBVIOUS
    <3> HIDE DEF Bad
    <3> QED
      BY <3>1, <1>2, LeastNumber
  <2>2. n \in 0..N /\ ~ TakenOf(q, n, f[n])
    OBVIOUS
  <2>3. CASE n = 0
    <3>1. f[n] = <<>>
      BY <2>2, <2>3, <1>1 DEF IsTaken
    <3>2. PICK e : e = <<>>
      OBVIOUS
    <3>3. e \in Seq(Chunk) /\ Len(e) = 0 /\ DOMAIN e = {}
      BY <3>2
    <3>4. \A class : OfClass(e, class) = {}
      BY <3>3 DEF OfClass
    <3>5. \A class : Cardinality(OfClass(e, class)) <= DefaultPerClassLimit
      BY <3>4, FS_EmptySet DEF DefaultPerClassLimit
    <3>6. 0 <= DefaultPrecedentLimit
      BY DEF DefaultPrecedentLimit
    <3>7. TakenOf(q, n, e)
      BY <3>3, <3>5, <3>6, <2>3 DEF TakenOf
    <3> QED
      BY <3>1, <3>2, <3>7, <2>2
  <2>4. CASE n # 0
    <3>1. n - 1 \in 0..N /\ n - 1 \notin Bad /\ n \in 1..N
      <4> HIDE DEF Bad
      <4> QED
        BY <2>1, <2>2, <2>4
    <3>2. TakenOf(q, n - 1, f[n - 1])
      BY <3>1
    <3>3. f[n] = TakeHit(f[n - 1], q[n])
      BY <2>2, <2>4, <1>1 DEF IsTaken
    <3>4. TakenOf(q, n, f[n])
      BY <3>1, <3>2, <3>3, <1>1, TakeStep
    <3> QED
      BY <3>4, <2>2
  <2> QED
    BY <2>3, <2>4
<1>3. N \in 0..N
  OBVIOUS
<1> QED
  BY <1>1, <1>2, <1>3

LEMMA SelectedAre ==
  ASSUME NEW s \in Seq(Chunk)
  PROVE  TakenOf(SortedChunks(s), Len(SortedChunks(s)), SelectRetrievalHits(s)) /\ Descending(SortedChunks(s))
<1>1. PICK q : q = SortedChunks(s)
  OBVIOUS
<1>2. Descending(q)
  BY <1>1, SortedChunksAre DEF Descending
<1>3. PICK f : f = CHOOSE taken : IsTaken(taken, q, Len(q))
  OBVIOUS
<1>4. Len(q) \in Nat
  BY <1>2 DEF Descending
<1>5. IsTaken(f, q, Len(q))
  BY <1>3, <1>4, TakenExists
<1>6. SelectRetrievalHits(s) = f[Len(q)]
  BY <1>1, <1>3, Zenon DEF SelectRetrievalHits, IsTaken
<1> QED
  BY <1>1, <1>2, <1>5, <1>6, TakenAll

HitsInv ==
  /\ chunks \in Contexts
  /\ stage \in {"context", "contract", "done", "research", "analysis", "queue", "edit", "result"}
  /\ stage = "contract" => hits = SelectRetrievalHits(chunks)

LEMMA HitsStep ==
  ASSUME HitsInv, [ScopeNext]_allVars
  PROVE  HitsInv'
<1>1. CASE BuildPlanningContext
  BY <1>1 DEF BuildPlanningContext, HitsInv
<1>2. CASE UNCHANGED allVars
  BY <1>2 DEF allVars, planVars, HitsInv
<1>3. CASE chunks' = chunks /\ stage' \in {"done", "research", "analysis", "queue", "edit", "result"}
  BY <1>3 DEF HitsInv
<1>4. CASE GenerateContract \/ StartObjective \/ ResearchProject \/ CodeAnalysis \/ QueueEdits \/ StartRepairCycle
  BY <1>3, <1>4 DEF GenerateContract, StartObjective, ResearchProject, CodeAnalysis, QueueEdits, StartRepairCycle
<1>5. ASSUME NEW changed, NEW findings, ChangesRequested(changed, findings) PROVE HitsInv'
  BY <1>3, <1>5 DEF ChangesRequested
<1> QED
  BY <1>1, <1>2, <1>4, <1>5
  DEF ScopeNext, PlanNext, ValidationFails, ReviewFails, ReviewMissesDiff

\* For any retrieved context, SelectRetrievalHits (memory/retrieval.go) leaves a
\* chunk out only because it is a guardrail, because five hits or two of its
\* class are no worse, or because a hit that is no worse has its reference.
THEOREM PrecedentsSafe == ScopeSpec => []PrecedentsAreBest
<1>1. ScopeInit => HitsInv
  BY DEF ScopeInit, PlanInit, HitsInv
<1>2. ASSUME HitsInv PROVE PrecedentsAreBest
  <2> SUFFICES ASSUME stage = "contract" PROVE PrecedentsAreBest
    BY DEF PrecedentsAreBest
  <2>1. chunks \in Seq(Chunk) /\ hits = SelectRetrievalHits(chunks)
    BY <1>2, ContextAssumption DEF HitsInv, Chunk
  <2>2. PICK q : q = SortedChunks(chunks)
    OBVIOUS
  <2>3. /\ TakenOf(q, Len(q), hits) /\ q \in Seq(Chunk)
        /\ \A i \in DOMAIN chunks : chunks[i].class # "negative_guardrail" => \E k \in DOMAIN q : q[k] = chunks[i]
    BY <2>1, <2>2, SelectedAre, SortedChunksAre
  <2>4. \A i \in DOMAIN chunks : chunks[i].class # "negative_guardrail" => Accounted(chunks[i], hits)
    BY <2>3 DEF TakenOf
  <2>5. \A class : Cardinality(OfClass(hits, class)) <= DefaultPerClassLimit
    BY <2>3 DEF TakenOf
  <2> QED
    BY <2>4, <2>5 DEF PrecedentsAreBest, Accounted, NotWorse
<1> QED
  BY <1>1, <1>2, HitsStep, PTL DEF ScopeSpec

=============================================================================
