---------------------- MODULE SecretaryTelegramProofs ----------------------
(***************************************************************************)
(* Proofs about SecretaryTelegram for any number of updates and faults,    *)
(* any queue size and every configuration.                                 *)
(***************************************************************************)
EXTENDS SecretaryTelegram, FiniteSetTheorems, WellFoundedInduction, TLAPS

\* Next of the queue and the scheduler take the lowest element of a non-empty
\* set, and there is one.
LEMMA LowestIsIn ==
  ASSUME NEW S, S \subseteq Nat, S # {}
  PROVE  Lowest(S) \in S /\ \A y \in S : Lowest(S) <= y
<1>1. PICK x \in S : \A y \in S : ~ (<<y, x>> \in OpToRel(<, Nat))
  BY NatLessThanWellFounded, WFMin
<1>2. \A y \in S : x <= y
  <2> SUFFICES ASSUME NEW y \in S, y < x PROVE FALSE
    OBVIOUS
  <2>1. <<y, x>> \in OpToRel(<, Nat)
    BY DEF OpToRel
  <2> QED
    BY <1>1, <2>1
<1> QED
  BY <1>2 DEF Lowest

\* All updates that arrived.
LEMMA ArrivedIsFinite ==
  ASSUME TypeOK
  PROVE  IsFiniteSet(Arrived) /\ Cardinality(Arrived) = Len(sent)
<1>1. PICK n \in Nat : n = Len(sent)
  BY DEF TypeOK
<1>2. IsFiniteSet(1 .. n) /\ Cardinality(1 .. n) = n
  <2>1. 1 \in Int /\ n \in Int /\ n - 1 + 1 = n /\ (1 > n => n = 0)
    OBVIOUS
  <2>2. IsFiniteSet(1 .. n) /\ Cardinality(1 .. n) = IF 1 > n THEN 0 ELSE n - 1 + 1
    BY <2>1, FS_Interval
  <2> QED
    BY <2>1, <2>2
<1> QED
  BY <1>1, <1>2 DEF Arrived

\* The loop over a batch takes its first update and goes on with the rest.
LEMMA RestOfBatch ==
  ASSUME NEW S, NEW b \in Seq(Nat), b # <<>>, \A i \in DOMAIN b : b[i] \in S
  PROVE  /\ Head(b) \in S /\ Tail(b) \in Seq(Nat)
         /\ \A i \in DOMAIN Tail(b) : Tail(b)[i] \in S
<1>1. Len(b) \in Nat /\ Len(b) # 0 /\ DOMAIN b = 1 .. Len(b) /\ Head(b) = b[1]
  OBVIOUS
<1>2. /\ Tail(b) \in Seq(Nat) /\ Len(Tail(b)) = Len(b) - 1
      /\ \A i \in 1 .. Len(Tail(b)) : Tail(b)[i] = b[i + 1]
  OBVIOUS
<1>3. DOMAIN Tail(b) = 1 .. (Len(b) - 1)
  BY <1>2
<1>4. \A i \in DOMAIN Tail(b) : i + 1 \in DOMAIN b
  BY <1>1, <1>3
<1> QED
  BY <1>1, <1>2, <1>3, <1>4

\* A record of a sequence is replaced by one of the same type.
LEMMA SeqExcept ==
  ASSUME NEW S, NEW f \in Seq(S), NEW i \in DOMAIN f, NEW v \in S
  PROVE  /\ [f EXCEPT ![i] = v] \in Seq(S)
         /\ DOMAIN [f EXCEPT ![i] = v] = DOMAIN f
  OBVIOUS

\* Marking a timer as expired, cancelled, delivered, rung or faulted leaves
\* timers.json with the same timers.
LEMMA TimerFields ==
  ASSUME TypeOK, NEW t \in DOMAIN timers
  PROVE  /\ timers[t] \in TimerType
         /\ [timers EXCEPT ![t].expired = TRUE] \in Seq(TimerType)
         /\ DOMAIN [timers EXCEPT ![t].expired = TRUE] = DOMAIN timers
         /\ [timers EXCEPT ![t].delivered = TRUE] \in Seq(TimerType)
         /\ DOMAIN [timers EXCEPT ![t].delivered = TRUE] = DOMAIN timers
         /\ [timers EXCEPT ![t].rings = @ + 1] \in Seq(TimerType)
         /\ DOMAIN [timers EXCEPT ![t].rings = @ + 1] = DOMAIN timers
         /\ [timers EXCEPT ![t].faults = @ + 1] \in Seq(TimerType)
         /\ DOMAIN [timers EXCEPT ![t].faults = @ + 1] = DOMAIN timers
<1>1. timers[t] \in TimerType /\ timers \in Seq(TimerType)
  BY DEF TypeOK
<1>2. /\ [timers[t] EXCEPT !.expired = TRUE] \in TimerType
      /\ [timers[t] EXCEPT !.delivered = TRUE] \in TimerType
  BY <1>1 DEF TimerType
<1>4. [timers[t] EXCEPT !.rings = @ + 1] \in TimerType
  <2>1. timers[t].rings + 1 \in Nat
    BY <1>1 DEF TimerType
  <2> QED
    BY <1>1, <2>1 DEF TimerType
<1>5. [timers[t] EXCEPT !.faults = @ + 1] \in TimerType
  BY <1>1 DEF TimerType
<1>3. \A v \in TimerType : /\ [timers EXCEPT ![t] = v] \in Seq(TimerType)
                           /\ DOMAIN [timers EXCEPT ![t] = v] = DOMAIN timers
  BY <1>1, SeqExcept
<1> QED
  BY <1>1, <1>2, <1>3, <1>4, <1>5

\* A pass of the scheduler that rings has a timer to ring.
LEMMA RingingIsDue ==
  ASSUME TypeOK, sched.at \in {"ring", "mark"}
  PROVE  Ringing \in sched.due /\ Ringing \in DOMAIN timers
<1>1. sched.due \subseteq DOMAIN timers /\ DOMAIN timers \subseteq Nat /\ sched.due # {}
  BY DEF TypeOK
<1> QED
  BY <1>1, LowestIsIn DEF Ringing

\* The updates that have arrived are a finite set of positive numbers.
LEMMA ArrivedFacts ==
  ASSUME TypeOK
  PROVE  /\ Len(sent) \in Nat /\ Arrived \subseteq Nat /\ Arrived \subseteq Updates
         /\ \A S \in SUBSET Arrived : IsFiniteSet(S) /\ Cardinality(S) \in Nat
<1>1. Len(sent) \in Nat
  BY DEF TypeOK
<1>2. IsFiniteSet(Arrived)
  BY <1>1, FS_Interval DEF Arrived
<1>3. \A S \in SUBSET Arrived : IsFiniteSet(S) /\ Cardinality(S) \in Nat
  BY <1>2, FS_Subset, FS_CardinalityType
<1> QED
  BY <1>1, <1>3, TelegramAssumption DEF Arrived, Updates, TypeOK

\* The initial state is well typed.
LEMMA TypeInit == Init => TypeOK
<1> SUFFICES ASSUME Init PROVE TypeOK
  OBVIOUS
<1>1. Cardinality(pending) = 0
  BY FS_EmptySet DEF Init
<1>2. worker \in [at : Places, u : Nat, batch : Seq(Nat)] /\ worker.batch = <<>> /\ worker.at = "boot"
  BY DEF Init, Booting, Places, Unfinished
<1>3. sched \in [at : {"off", "idle", "ring", "mark"}, due : SUBSET DOMAIN timers] /\ sched.due = {} /\ sched.at = "off"
  BY DEF Init, Unstarted
<1>4. timers \in Seq(TimerType) /\ sent \in Seq(Messages) /\ Len(sent) = 0
  BY DEF Init
<1>5. served \in [Updates -> Int]
  BY DEF Init
<1> QED
  BY <1>1, <1>2, <1>3, <1>4, <1>5, TelegramAssumption DEF Init, TypeOK, NoTracker, Unfinished, Arrived

\* A process at work keeps its types when it only moves.
LEMMA TypeMoves ==
  ASSUME TypeOK, NEW l \in Places, Goto(l),
         l \in Unfinished \cup {"start", "remove"} => worker.u \in Arrived
  PROVE  /\ worker' \in [at : Places, u : Nat, batch : Seq(Nat)]
         /\ worker'.at = l /\ worker'.u = worker.u /\ worker'.batch = worker.batch
  BY DEF TypeOK, Goto

\* Every step of Telegram, the worker, the trackers and the scheduler keeps the
\* types, and the queue never holds more than telegramWebhookMaxPending.
LEMMA TypeStep == TypeOK /\ [Next]_vars => TypeOK'
<1> SUFFICES ASSUME TypeOK, [Next]_vars PROVE TypeOK'
  OBVIOUS
<1> USE TelegramAssumption DEF config, disk, history
<1>f. ASSUME Fault \/ NoFault PROVE faults' \in 0 .. MaxFaults
  BY <1>f DEF Fault, NoFault, TypeOK
<1>a. /\ Len(sent) \in Nat /\ Arrived \subseteq Nat /\ Arrived \subseteq Updates
      /\ \A S \in SUBSET Arrived : IsFiniteSet(S) /\ Cardinality(S) \in Nat
  BY ArrivedFacts
<1>1. CASE UNCHANGED vars
  BY <1>1 DEF vars, TypeOK, Arrived
<1>2. ASSUME NEW kind \in Messages, Send(kind) PROVE TypeOK'
  <2>1. sent' \in Seq(Messages) /\ Len(sent') = Len(sent) + 1 /\ Len(sent') <= MaxUpdates
    BY <1>2, <1>a DEF Send, TypeOK
  <2>2. Arrived \subseteq Arrived'
    BY <2>1, <1>a DEF Arrived
  <2>3. UNCHANGED <<config, acked, disk, timers, worker, tracker, sched, history, faults>>
    BY <1>2 DEF Send
  <2>4. /\ acked \subseteq Arrived' /\ pending \subseteq Arrived' /\ completed \subseteq Arrived'
        /\ handled \subseteq Arrived' /\ late \subseteq Arrived'
        /\ worker.at \in Unfinished \cup {"start", "remove"} => worker.u \in Arrived'
        /\ \A i \in DOMAIN worker.batch : worker.batch[i] \in Arrived'
    BY <2>2 DEF TypeOK
  <2>5. offset \in 0 .. Len(sent') + 1
    BY <2>1, <1>a DEF TypeOK
  <2> QED
    BY <2>1, <2>3, <2>4, <2>5 DEF TypeOK
<1>3. ASSUME NEW u \in Updates, ServeHTTP(u) PROVE TypeOK'
  <2>1. u \in Arrived /\ UNCHANGED <<config, sent, offset, timers, worker, tracker, sched, history>>
    BY <1>3 DEF ServeHTTP
  <2>2. Enqueue(u).pending \subseteq Arrived /\ Cardinality(Enqueue(u).pending) <= MaxPending
    <3>1. IsFiniteSet(pending) /\ Cardinality(pending) \in Nat
      BY <1>a DEF TypeOK
    <3>2. ASSUME Cardinality(pending) < MaxPending PROVE Cardinality(pending \cup {u}) <= MaxPending
      <4>1. CASE u \in pending
        <5>1. pending \cup {u} = pending
          BY <4>1
        <5> QED
          BY <5>1, <3>1, <3>2
      <4>2. CASE u \notin pending
        <5>1. Cardinality(pending \cup {u}) = Cardinality(pending) + 1
          BY <4>2, <3>1, FS_AddElement
        <5> QED
          BY <5>1, <3>1, <3>2
      <4> QED
        BY <4>1, <4>2
    <3>5. pending \subseteq Arrived /\ Cardinality(pending) <= MaxPending
      BY DEF TypeOK
    <3>3. Enqueue(u).pending \in {pending, pending \cup {u}}
      BY DEF Enqueue
    <3>4. Enqueue(u).pending = pending \cup {u} => u \in pending \/ Cardinality(pending) < MaxPending
      BY <3>1 DEF Enqueue, Known
    <3>6. CASE Enqueue(u).pending = pending
      BY <3>5, <3>6
    <3>7. CASE Enqueue(u).pending = pending \cup {u} /\ u \notin pending
      BY <3>2, <3>4, <3>5, <3>7, <2>1
    <3>8. pending \cup {u} = pending \/ u \notin pending
      OBVIOUS
    <3> QED
      BY <3>3, <3>6, <3>7, <3>8
  <2>3. pending' \in {pending, Enqueue(u).pending}
    BY <1>3 DEF ServeHTTP, FailedWrite
  <2>4. completed' \subseteq Arrived /\ acked' \subseteq Arrived
    BY <1>3, <2>1 DEF ServeHTTP, TypeOK
  <2>5. faults' \in 0 .. MaxFaults
    BY <1>3, <1>f DEF ServeHTTP
  <2> QED
    BY <2>1, <2>2, <2>3, <2>4, <2>5 DEF TypeOK, Arrived
<1>4. CASE Boot
  <2>1. PICK l \in {"fetch", "stopped"} : Goto(l)
    BY <1>4 DEF Boot
  <2>2. sched' \in {sched, Stopped} /\ UNCHANGED <<config, sent, acked, disk, timers, tracker, history>>
    BY <1>4 DEF Boot
  <2>3. /\ worker' \in [at : Places, u : Nat, batch : Seq(Nat)]
        /\ worker'.at = l /\ worker'.u = worker.u /\ worker'.batch = worker.batch
    BY <2>1, TypeMoves DEF Places, Unfinished
  <2>4. faults' \in 0 .. MaxFaults
    BY <1>4, <1>f DEF Boot
  <2>5. /\ sched' \in [at : {"off", "idle", "ring", "mark"}, due : SUBSET DOMAIN timers']
        /\ (sched'.at \in {"ring", "mark"}) = (sched'.due # {})
    BY <2>2 DEF Stopped, TypeOK
  <2> QED
    BY <2>2, <2>3, <2>4, <2>5 DEF TypeOK, Arrived, Unfinished
<1>5. CASE NextUpdate
  <2>1. Open \subseteq pending /\ (Open # {} => Lowest(Open) \in Arrived)
    BY LowestIsIn, <1>a DEF Open, TypeOK
  <2>2. pending' \subseteq pending /\ UNCHANGED <<config, sent, acked, offset, completed, timers, tracker, sched, history, faults>>
    BY <1>5 DEF NextUpdate
  <2>3. Cardinality(pending') <= MaxPending
    <3>1. IsFiniteSet(pending) /\ Cardinality(pending) \in Nat
      BY <1>a DEF TypeOK
    <3>2. Cardinality(pending') \in Nat /\ Cardinality(pending') <= Cardinality(pending)
      BY <3>1, <2>2, FS_Subset, FS_CardinalityType
    <3> QED
      BY <3>1, <3>2 DEF TypeOK
  <2>4. \/ worker' = worker
        \/ Open # {} /\ worker' = [worker EXCEPT !.at = "start", !.u = Lowest(Open)]
    BY <1>5 DEF NextUpdate
  <2>5. /\ worker' \in [at : Places, u : Nat, batch : Seq(Nat)] /\ worker'.batch = worker.batch
        /\ worker'.at \in Unfinished \cup {"start", "remove"} => worker'.u \in Arrived
    BY <2>1, <2>4, <1>a DEF TypeOK, Places
  <2> QED
    BY <2>2, <2>3, <2>5 DEF TypeOK, Arrived
<1>6. CASE GetUpdates
  <2> DEFINE seen == {u \in Arrived : u >= offset}
  <2>1. UNCHANGED <<config, sent, disk, timers, tracker, sched, history, faults>> /\ acked' = Arrived \ seen
    BY <1>6 DEF GetUpdates
  <2>2. worker' = [worker EXCEPT !.at = "take",
                     !.batch = [i \in 1 .. Cardinality(seen) |-> i + Len(sent) - Cardinality(seen)]]
    BY <1>6 DEF GetUpdates
  <2>3. Cardinality(seen) \in Nat /\ Cardinality(seen) <= Len(sent)
    <3>1. IsFiniteSet(Arrived) /\ Cardinality(Arrived) = Len(sent)
      BY ArrivedIsFinite
    <3>2. Cardinality(seen) <= Cardinality(Arrived)
      BY <3>1, FS_Subset
    <3> QED
      BY <3>1, <3>2, <1>a
  <2>4. /\ worker' \in [at : Places, u : Nat, batch : Seq(Nat)] /\ worker'.at = "take"
        /\ \A i \in DOMAIN worker'.batch : worker'.batch[i] \in Arrived
    <3> HIDE DEF seen
    <3> DEFINE b == [i \in 1 .. Cardinality(seen) |-> i + Len(sent) - Cardinality(seen)]
    <3>1. \A i \in 1 .. Cardinality(seen) : i + Len(sent) - Cardinality(seen) \in 1 .. Len(sent)
      BY <2>3, <1>a
    <3>2. b \in Seq(Nat) /\ DOMAIN b = 1 .. Cardinality(seen) /\ \A i \in DOMAIN b : b[i] \in Arrived
      BY <3>1, <2>3, <1>a DEF Arrived
    <3> HIDE DEF b
    <3>3. worker' = [worker EXCEPT !.at = "take", !.batch = b]
      BY <2>2 DEF b
    <3>4. worker'.at = "take" /\ worker'.batch = b
      BY <3>3 DEF TypeOK
    <3> QED
      BY <3>2, <3>3, <3>4 DEF TypeOK, Places
  <2> HIDE DEF seen
  <2> QED
    BY <2>1, <2>4 DEF TypeOK, Arrived, Unfinished
<1>7. CASE Take
  <2>1. UNCHANGED <<config, sent, acked, pending, completed, timers, tracker, sched, history>>
    BY <1>7 DEF Take
  <2>2. faults' \in 0 .. MaxFaults
    BY <1>7, <1>f DEF Take
  <2>3. CASE worker.batch = <<>> \/ Goto("stopped")
    <3>1. PICK l \in {"fetch", "stopped"} : Goto(l)
      BY <1>7, <2>3 DEF Take
    <3>2. UNCHANGED offset
      <4>1. CASE worker.batch = <<>>
        BY <1>7, <4>1 DEF Take
      <4>2. CASE worker.batch # <<>> /\ Goto("stopped")
        BY <1>7, <4>2 DEF Take, Goto, TypeOK
      <4> QED
        BY <2>3, <4>1, <4>2
    <3>3. /\ worker' \in [at : Places, u : Nat, batch : Seq(Nat)]
          /\ worker'.at = l /\ worker'.u = worker.u /\ worker'.batch = worker.batch
      BY <3>1, TypeMoves DEF Places, Unfinished
    <3> QED
      BY <2>1, <2>2, <3>2, <3>3 DEF TypeOK, Arrived, Unfinished
  <2>4. CASE worker.batch # <<>> /\ ~ Goto("stopped")
    <3>1. /\ offset' = Head(worker.batch) + 1
          /\ worker' = [at |-> "start", u |-> Head(worker.batch), batch |-> Tail(worker.batch)]
      BY <1>7, <2>4 DEF Take, Checkpoint
    <3>2. /\ Head(worker.batch) \in Arrived /\ Tail(worker.batch) \in Seq(Nat)
          /\ \A i \in DOMAIN Tail(worker.batch) : Tail(worker.batch)[i] \in Arrived
      <4>1. worker.batch \in Seq(Nat) /\ \A i \in DOMAIN worker.batch : worker.batch[i] \in Arrived
        BY DEF TypeOK
      <4> QED
        BY <4>1, <2>4, RestOfBatch
    <3>3. offset' \in 0 .. Len(sent) + 1
      BY <3>1, <3>2, <1>a DEF Arrived
    <3> QED
      BY <2>1, <2>2, <3>1, <3>2, <3>3, <1>a DEF TypeOK, Arrived, Places
  <2> QED
    BY <2>3, <2>4
<1> DEFINE Quiet == UNCHANGED <<config, sent, acked, disk, timers, sched>>
           Served == served' \in [Updates -> Int] /\ handled' \subseteq Arrived /\ late' \subseteq Arrived
           Tracked == /\ tracker' \in [kind : {"none", "stage", "interaction"}, closed : BOOLEAN, sent : BOOLEAN, emitting : BOOLEAN]
                      /\ tracker'.emitting => tracker'.sent /\ tracker'.kind = "interaction"
                      /\ tracker'.kind = "none" => tracker'.closed
<1>m. ASSUME NEW l \in Places, Goto(l), l \in Unfinished \cup {"start", "remove"} => worker.u \in Arrived,
             Quiet, Served, Tracked, Fault \/ NoFault
      PROVE  TypeOK'
  BY <1>m, <1>f, TypeMoves DEF TypeOK, Arrived
<1>t. UNCHANGED tracker \/ tracker' = NoTracker \/ tracker' = NewTracker("stage") \/ tracker' = NewTracker("interaction") => Tracked
  <2>2. CASE UNCHANGED tracker
    BY <2>2 DEF TypeOK
  <2>3. CASE tracker' = NoTracker
    BY <2>3 DEF NoTracker
  <2>4. CASE tracker' = NewTracker("stage")
    BY <2>4 DEF NewTracker
  <2>5. CASE tracker' = NewTracker("interaction")
    BY <2>5 DEF NewTracker
  <2> QED
    BY <2>2, <2>3, <2>4, <2>5
<1>h. UNCHANGED history => Served
  BY DEF TypeOK
<1>g. ASSUME worker.u \in Arrived, GiveUp(worker.u) PROVE Served /\ Tracked /\ \E l \in {"fetch", "take"} : Goto(l)
  BY <1>g, <1>a, <1>t DEF TypeOK, GiveUp, AfterFailure
<1>8. CASE StartUpdate
  <2>1. worker.u \in Arrived /\ UNCHANGED <<config, sent, acked, disk, timers, sched, late, faults>>
    BY <1>8 DEF StartUpdate, TypeOK
  <2>2. Served
    BY <1>8, <2>1, <1>a DEF StartUpdate, TypeOK
  <2>3. Tracked
    BY <1>8, <1>t DEF StartUpdate
  <2>4. PICK l \in {"complete", "take", "send", "voice", "reply"} : Goto(l)
    BY <1>8 DEF StartUpdate, AfterAnswer
  <2> QED
    BY <1>m, <2>1, <2>2, <2>3, <2>4 DEF Places, Unfinished, NoFault
<1>9. CASE ProcessVoice
  <2>1. worker.u \in Arrived /\ Quiet /\ (Fault \/ NoFault)
    BY <1>9 DEF ProcessVoice, TypeOK, Unfinished
  <2>2. Served /\ Tracked /\ \E l \in {"fetch", "take", "send", "reply"} : Goto(l)
    BY <1>9, <2>1, <1>t, <1>h, <1>g DEF ProcessVoice
  <2> QED
    BY <1>m, <2>1, <2>2 DEF Places, Unfinished
<1>10. CASE Reply
  <2>1. worker.u \in Arrived /\ UNCHANGED <<config, sent, acked, disk, sched, history>> /\ (Fault \/ NoFault)
    BY <1>10 DEF Reply, TypeOK, Unfinished
  <2>2. tracker' = tracker \/ tracker' = [tracker EXCEPT !.closed = TRUE]
    BY <1>10 DEF Reply
  <2>3. Tracked
    BY <2>2 DEF TypeOK
  <2>4. PICK l \in {"ended", "send", "close"} : Goto(l)
    BY <1>10 DEF Reply, AfterReply
  <2>5. timers' \in Seq(TimerType) /\ DOMAIN timers \subseteq DOMAIN timers'
    <3>1. CASE UNCHANGED timers
      BY <3>1 DEF TypeOK
    <3>2. CASE CreateTimer
      <4>1. NewTimer \in TimerType
        BY DEF NewTimer, TimerType
      <4> QED
        BY <3>2, <4>1 DEF CreateTimer, TypeOK
    <3>3. CASE CancelTimer
      <4> SUFFICES ASSUME NEW t \in DOMAIN timers,
                          timers' = [timers EXCEPT ![t].canceled = TRUE, ![t].early = ~timers[t].expired]
                   PROVE  timers' \in Seq(TimerType) /\ DOMAIN timers \subseteq DOMAIN timers'
        BY <3>1, <3>3 DEF CancelTimer
      <4> DEFINE v == [timers[t] EXCEPT !.canceled = TRUE, !.early = ~timers[t].expired]
      <4>1. timers[t] \in TimerType
        BY DEF TypeOK
      <4>2. v \in TimerType
        BY <4>1 DEF TimerType
      <4>3. timers' = [timers EXCEPT ![t] = v]
        BY <4>1 DEF TypeOK, TimerType
      <4>4. timers \in Seq(TimerType)
        BY DEF TypeOK
      <4> HIDE DEF v
      <4>5. [timers EXCEPT ![t] = v] \in Seq(TimerType) /\ DOMAIN [timers EXCEPT ![t] = v] = DOMAIN timers
        BY <4>2, <4>4, SeqExcept
      <4> QED
        BY <4>3, <4>5
    <3> QED
      BY <1>10, <3>1, <3>2, <3>3 DEF Reply
  <2>6. /\ worker' \in [at : Places, u : Nat, batch : Seq(Nat)]
        /\ worker'.at = l /\ worker'.u = worker.u /\ worker'.batch = worker.batch
    BY <2>1, <2>4, TypeMoves DEF Places, Unfinished
  <2> QED
    BY <2>1, <2>3, <2>5, <2>6, <1>f DEF TypeOK, Arrived
<1>11. CASE ReplyEnded \/ TrackerClosed
  <2>1. worker.u \in Arrived /\ Quiet /\ NoFault /\ UNCHANGED <<tracker, history>>
    BY <1>11 DEF ReplyEnded, TrackerClosed, TypeOK, Unfinished, NoFault
  <2>2. \E l \in {"send", "close"} : Goto(l)
    BY <1>11 DEF ReplyEnded, TrackerClosed, AfterReply
  <2> QED
    BY <1>m, <1>t, <1>h, <2>1, <2>2 DEF Places, Unfinished
<1>12. CASE CloseTracker
  <2>1. worker.u \in Arrived /\ Quiet /\ NoFault /\ UNCHANGED history /\ Goto("closing")
    BY <1>12 DEF CloseTracker, TypeOK, Unfinished, NoFault
  <2>2. Tracked
    BY <1>12 DEF CloseTracker, TypeOK
  <2> QED
    BY <1>m, <1>h, <2>1, <2>2 DEF Places, Unfinished
<1>13. CASE SendAnswer
  <2>1. worker.u \in Arrived /\ Quiet /\ (Fault \/ NoFault)
    BY <1>13 DEF SendAnswer, TypeOK, Unfinished
  <2>2. Served /\ Tracked /\ \E l \in {"fetch", "take", "sent"} : Goto(l)
    BY <1>13, <2>1, <1>t, <1>g DEF SendAnswer, TypeOK
  <2> QED
    BY <1>m, <2>1, <2>2 DEF Places, Unfinished
<1>14. CASE Return
  <2>1. worker.u \in Arrived /\ Quiet /\ NoFault /\ UNCHANGED history /\ tracker' = NoTracker
    BY <1>14 DEF Return, TypeOK, Unfinished, NoFault
  <2>2. \E l \in {"complete", "take"} : Goto(l)
    BY <1>14 DEF Return, AfterAnswer
  <2> QED
    BY <1>m, <1>t, <1>h, <2>1, <2>2 DEF Places, Unfinished
<1>15. CASE Complete
  <2>1. worker.u \in Arrived /\ UNCHANGED <<config, sent, acked, offset, pending, timers, tracker, sched>> /\ (Fault \/ NoFault)
    BY <1>15 DEF Complete, TypeOK, Unfinished
  <2>2. completed' \subseteq Arrived
    BY <1>15, <2>1 DEF Complete, TypeOK
  <2>3. Served
    <3>1. CASE UNCHANGED history
      BY <3>1, <1>h
    <3>2. CASE served' = [served EXCEPT ![worker.u] = @ - 1] /\ UNCHANGED <<handled, late>>
      BY <3>2, <2>1, <1>a DEF TypeOK
    <3> QED
      BY <1>15, <3>1, <3>2 DEF Complete
  <2>4. PICK l \in {"remove", "fetch"} : Goto(l)
    BY <1>15 DEF Complete
  <2>5. /\ worker' \in [at : Places, u : Nat, batch : Seq(Nat)]
        /\ worker'.at = l /\ worker'.u = worker.u /\ worker'.batch = worker.batch
    BY <2>1, <2>4, TypeMoves DEF Places, Unfinished
  <2> QED
    BY <2>1, <2>2, <2>3, <2>5, <1>f DEF TypeOK, Arrived
<1>16. CASE RemovePending
  <2>1. worker.u \in Arrived /\ UNCHANGED <<config, sent, acked, offset, completed, timers, tracker, sched, history>>
        /\ (Fault \/ NoFault) /\ Goto("fetch") /\ pending' \subseteq pending
    BY <1>16 DEF RemovePending, TypeOK
  <2>2. Cardinality(pending') <= MaxPending
    <3>1. IsFiniteSet(pending) /\ Cardinality(pending) \in Nat
      BY <1>a DEF TypeOK
    <3>2. Cardinality(pending') \in Nat /\ Cardinality(pending') <= Cardinality(pending)
      BY <3>1, <2>1, FS_Subset, FS_CardinalityType
    <3> QED
      BY <3>1, <3>2 DEF TypeOK
  <2>3. /\ worker' \in [at : Places, u : Nat, batch : Seq(Nat)]
        /\ worker'.at = "fetch" /\ worker'.u = worker.u /\ worker'.batch = worker.batch
    BY <2>1, TypeMoves DEF Places, Unfinished
  <2> QED
    BY <2>1, <2>2, <2>3, <1>f DEF TypeOK, Arrived
<1>17. CASE SendDelayed \/ EmitDelayed
  <2>1. UNCHANGED <<config, sent, acked, disk, timers, worker, sched, served, handled, faults>>
    BY <1>17 DEF SendDelayed, EmitDelayed
  <2>2. tracker' \in [kind : {"none", "stage", "interaction"}, closed : BOOLEAN, sent : BOOLEAN, emitting : BOOLEAN]
    BY <1>17 DEF SendDelayed, EmitDelayed, TypeOK
  <2>3. late' \subseteq Arrived
    BY <1>17 DEF SendDelayed, EmitDelayed, ProgressArrives, TypeOK, Unfinished
  <2>4. /\ tracker'.emitting => tracker'.sent /\ tracker'.kind = "interaction"
        /\ tracker'.kind = "none" => tracker'.closed
    <3>1. CASE SendDelayed
      BY <3>1 DEF SendDelayed, TypeOK
    <3>2. CASE EmitDelayed
      BY <3>2 DEF EmitDelayed, TypeOK
    <3> QED
      BY <1>17, <3>1, <3>2
  <2> QED
    BY <2>1, <2>2, <2>3, <2>4 DEF TypeOK, Arrived
<1>18. ASSUME NEW t \in DOMAIN timers, TimerExpires(t) PROVE TypeOK'
  <2>1. UNCHANGED <<config, sent, acked, disk, worker, tracker, sched, history, faults>>
    BY <1>18 DEF TimerExpires
  <2>2. timers' \in Seq(TimerType) /\ DOMAIN timers' = DOMAIN timers
    BY <1>18, TimerFields DEF TimerExpires
  <2> QED
    BY <2>1, <2>2 DEF TypeOK, Arrived
<1>19. CASE Scheduler
  <2>1. UNCHANGED <<config, sent, acked, disk, worker, tracker, history>> /\ (Fault \/ NoFault)
    BY <1>19 DEF Scheduler, DueTimers, Ring, MarkTimerDelivered, NoFault
  <2>2. timers' \in Seq(TimerType) /\ DOMAIN timers' = DOMAIN timers
    <3>1. CASE UNCHANGED timers
      BY <3>1 DEF TypeOK
    <3>2. CASE Ring
      BY <3>1, <3>2, TimerFields, RingingIsDue DEF Ring
    <3>3. CASE MarkTimerDelivered
      BY <3>1, <3>3, TimerFields, RingingIsDue DEF MarkTimerDelivered
    <3> QED
      BY <1>19, <3>1, <3>2, <3>3 DEF Scheduler, DueTimers
  <2>3. /\ sched' \in [at : {"off", "idle", "ring", "mark"}, due : SUBSET DOMAIN timers]
        /\ (sched'.at \in {"ring", "mark"}) = (sched'.due # {})
    <3>1. CASE DueTimers
      BY <3>1 DEF DueTimers
    <3>2. CASE sched' = Skip /\ sched.at \in {"ring", "mark"}
      BY <3>2, RingingIsDue DEF Skip, Stopped, TypeOK
    <3>3. CASE sched.at = "ring" /\ sched' = [sched EXCEPT !.at = "mark"]
      BY <3>3 DEF TypeOK
    <3> QED
      BY <1>19, <3>1, <3>2, <3>3 DEF Scheduler, Ring, MarkTimerDelivered
  <2> QED
    BY <2>1, <2>2, <2>3, <1>f DEF TypeOK, Arrived
<1>20. CASE Crash
  <2>1. UNCHANGED <<config, sent, acked, disk, handled, late>> /\ Fault
    BY <1>20 DEF Crash
  <2>2. worker' = Booting /\ tracker' = NoTracker /\ sched' = Unstarted
    BY <1>20 DEF Crash
  <2>3. served' \in [Updates -> Int]
    BY <1>20, <1>a DEF Crash, TypeOK
  <2>4. timers' \in Seq(TimerType) /\ DOMAIN timers' = DOMAIN timers
    BY <1>20, TimerFields, RingingIsDue DEF Crash, TypeOK
  <2>5. /\ worker' \in [at : Places, u : Nat, batch : Seq(Nat)] /\ worker'.at = "boot" /\ worker'.batch = <<>>
    BY <2>2 DEF Booting, Places
  <2>8. /\ worker'.at \in Unfinished \cup {"start", "remove"} => worker'.u \in Arrived
        /\ \A i \in DOMAIN worker'.batch : worker'.batch[i] \in Arrived
    BY <2>5 DEF Unfinished
  <2>6. Tracked
    BY <2>2, <1>t
  <2>7. /\ sched' \in [at : {"off", "idle", "ring", "mark"}, due : SUBSET DOMAIN timers']
        /\ (sched'.at \in {"ring", "mark"}) = (sched'.due # {})
    BY <2>2 DEF Unstarted
  <2> QED
    BY <2>1, <2>3, <2>4, <2>5, <2>6, <2>7, <2>8, <1>f DEF TypeOK, Arrived
<1> QED
  BY <1>1, <1>2, <1>3, <1>4, <1>5, <1>6, <1>7, <1>8, <1>9, <1>10, <1>11, <1>12, <1>13, <1>14,
     <1>15, <1>16, <1>17, <1>18, <1>19, <1>20 DEF Next, Worker, Process

\* The types hold in every reachable state (telegram.go, telegram_webhook.go,
\* progress.go, timer.go).
THEOREM TypeCorrect == Spec => []TypeOK
<1> QED
  BY TypeInit, TypeStep, PTL DEF Spec

\* The configuration is read once.
LEMMA ConfigFixed == [Next]_vars => UNCHANGED config
  BY DEF Next, vars, config, Send, ServeHTTP, Worker, Process, Boot, NextUpdate, GetUpdates, Take,
     StartUpdate, ProcessVoice, Reply, ReplyEnded, CloseTracker, TrackerClosed, SendAnswer, Return,
     Complete, RemovePending, SendDelayed, EmitDelayed, TimerExpires, Scheduler, DueTimers, Ring,
     MarkTimerDelivered, Crash

\* A move of the worker keeps its update and its batch.
LEMMA GotoFacts ==
  ASSUME TypeOK, NEW l, Goto(l)
  PROVE  worker'.at = l /\ worker'.u = worker.u /\ worker'.batch = worker.batch
  BY DEF TypeOK, Goto

(***************************************************************************)
(* The webhook's queue.                                                    *)
(***************************************************************************)
\* A completion stands for an answer, and what the worker is about to complete
\* has been answered.
QueueInv ==
  mode = "webhook" =>
    /\ acked \subseteq pending \cup handled
    /\ completed \subseteq handled
    /\ worker.at \in {"sent", "complete", "remove"} => worker.u \in handled

\* Every step keeps what the queue promises: ServeHTTP acknowledges what is
\* stored, Next and Complete remove what was answered.
LEMMA QueueStep == TypeOK /\ QueueInv /\ [Next]_vars => QueueInv'
<1> SUFFICES ASSUME TypeOK, QueueInv, [Next]_vars, mode' = "webhook" PROVE QueueInv'
  BY DEF QueueInv
<1> USE DEF disk, history, config
<1>0. /\ mode = "webhook" /\ acked \subseteq pending \cup handled /\ completed \subseteq handled
      /\ worker.at \in {"sent", "complete", "remove"} => worker.u \in handled
  BY ConfigFixed DEF QueueInv
<1>q. ASSUME UNCHANGED <<acked, pending, completed>>, handled \subseteq handled',
             worker'.at \in {"sent", "complete", "remove"} => worker'.u \in handled'
      PROVE  QueueInv'
  BY <1>0, <1>q DEF QueueInv
<1>1. CASE UNCHANGED vars
  BY <1>0, <1>1 DEF vars, QueueInv
<1>2. ASSUME NEW kind \in Messages, Send(kind) PROVE QueueInv'
  BY <1>0, <1>2 DEF Send, QueueInv
<1>3. ASSUME NEW u \in Updates, ServeHTTP(u) PROVE QueueInv'
  <2>1. UNCHANGED <<worker, handled>> /\ completed' \subseteq completed
    BY <1>3 DEF ServeHTTP
  <2>2. pending \subseteq Enqueue(u).pending /\ (Enqueue(u).ok => u \in Enqueue(u).pending \cup completed)
    BY DEF Enqueue, Known
  <2>3. pending \subseteq pending'
    BY <1>3, <2>2 DEF ServeHTTP, FailedWrite
  <2>4. acked' \subseteq pending' \cup handled
    BY <1>0, <1>3, <2>2, <2>3 DEF ServeHTTP
  <2> QED
    BY <1>0, <2>1, <2>4 DEF QueueInv
<1>4. CASE Boot
  BY <1>q, <1>4, GotoFacts DEF Boot
<1>5. CASE NextUpdate
  <2>1. UNCHANGED <<acked, completed, handled>> /\ pending \subseteq pending' \cup completed
    BY <1>5 DEF NextUpdate, Cleared
  <2>2. worker' = worker \/ worker'.at = "start"
    BY <1>5 DEF NextUpdate, TypeOK
  <2> QED
    BY <1>0, <2>1, <2>2 DEF QueueInv
<1>6. CASE GetUpdates
  BY <1>0, <1>6 DEF GetUpdates
<1>7. CASE Take
  <2>1. worker'.at \in {"fetch", "start", "stopped"}
    BY <1>7, GotoFacts DEF Take
  <2> QED
    BY <1>q, <1>7, <2>1 DEF Take
<1>8. CASE StartUpdate
  <2>1. \/ worker'.at \in {"send", "voice", "reply"} /\ handled' = handled
        \/ worker'.u = worker.u /\ handled' = handled \cup {worker.u}
    BY <1>8, GotoFacts DEF StartUpdate
  <2>2. UNCHANGED <<acked, pending, completed>>
    BY <1>8 DEF StartUpdate
  <2> QED
    BY <1>q, <2>1, <2>2
<1>9. CASE ProcessVoice
  <2>1. worker'.at \in {"fetch", "take", "send", "reply"} /\ handled' = handled
    BY <1>9, GotoFacts DEF ProcessVoice, GiveUp, AfterFailure
  <2> QED
    BY <1>q, <1>9, <2>1 DEF ProcessVoice
<1>10. CASE Reply
  <2>1. worker'.at \in {"ended", "send", "close"}
    BY <1>10, GotoFacts DEF Reply, AfterReply
  <2> QED
    BY <1>q, <1>10, <2>1 DEF Reply
<1>11. CASE ReplyEnded \/ CloseTracker \/ TrackerClosed
  <2>1. worker'.at \in {"send", "close", "closing"}
    BY <1>11, GotoFacts DEF ReplyEnded, CloseTracker, TrackerClosed, AfterReply
  <2> QED
    BY <1>q, <1>11, <2>1 DEF ReplyEnded, CloseTracker, TrackerClosed
<1>12. CASE SendAnswer
  <2>1. \/ worker'.at \in {"fetch", "take"} /\ handled' = handled
        \/ worker'.u = worker.u /\ handled' = handled \cup {worker.u}
    BY <1>12, GotoFacts DEF SendAnswer, GiveUp, AfterFailure
  <2> QED
    BY <1>q, <1>12, <2>1 DEF SendAnswer
<1>13. CASE Return
  BY <1>0, <1>q, <1>13, GotoFacts DEF Return
<1>14. CASE Complete
  <2>1. UNCHANGED <<acked, pending, handled>> /\ completed' \subseteq completed \cup {worker.u}
    BY <1>14 DEF Complete
  <2>2. worker.u \in handled /\ worker'.u = worker.u
    BY <1>0, <1>14, GotoFacts DEF Complete
  <2> QED
    BY <1>0, <2>1, <2>2 DEF QueueInv
<1>15. CASE RemovePending
  <2>1. UNCHANGED <<acked, completed, handled>> /\ pending \subseteq pending' \cup {worker.u}
    BY <1>15 DEF RemovePending
  <2>2. worker.u \in handled /\ worker'.at = "fetch"
    BY <1>0, <1>15, GotoFacts DEF RemovePending
  <2> QED
    BY <1>0, <2>1, <2>2 DEF QueueInv
<1>16. CASE SendDelayed \/ EmitDelayed
  BY <1>0, <1>q, <1>16 DEF SendDelayed, EmitDelayed
<1>17. ASSUME NEW t \in DOMAIN timers, TimerExpires(t) PROVE QueueInv'
  BY <1>0, <1>q, <1>17 DEF TimerExpires
<1>18. CASE Scheduler
  BY <1>0, <1>q, <1>18 DEF Scheduler, DueTimers, Ring, MarkTimerDelivered
<1>19. CASE Crash
  BY <1>q, <1>19 DEF Crash, Booting
<1> QED
  BY <1>1, <1>2, <1>3, <1>4, <1>5, <1>6, <1>7, <1>8, <1>9, <1>10, <1>11, <1>12, <1>13, <1>14,
     <1>15, <1>16, <1>17, <1>18, <1>19 DEF Next, Worker, Process

\* An acknowledged update is pending or was answered, in every execution with
\* any number of faults (the webhook and its worker, telegram_webhook.go).
THEOREM AcknowledgedSafe == Spec => []AcknowledgedIsHandled
<1>1. Init => QueueInv
  BY DEF Init, Booting, QueueInv
<1>2. QueueInv => AcknowledgedIsHandled
  BY DEF QueueInv, AcknowledgedIsHandled
<1> QED
  BY <1>1, <1>2, TypeCorrect, QueueStep, PTL DEF Spec

(***************************************************************************)
(* Attempts.                                                               *)
(***************************************************************************)
Busy(u) == worker.at \in Unfinished /\ worker.u = u
\* Webhook: an update that was served is at work, completed, or gone for good;
\* the one at work is pending and not completed.
WebhookInv ==
  mode = "webhook" =>
    /\ worker.at \notin {"take", "stopped"}
    /\ worker.at \in Unfinished \cup {"start"} => worker.u \in pending \ completed
    /\ worker.at = "remove" => worker.u \in completed
    /\ \A u \in Updates :
         served[u] > 0 => Busy(u) \/ u \in completed \/ (u \in acked /\ u \notin pending)
\* Polling: only updates below the stored offset were served, and the batch goes
\* on above it, in order.
PollingInv ==
  mode = "polling" =>
    /\ worker.at \notin {"complete", "remove"}
    /\ \A u \in Updates : served[u] > 0 => u < offset
    /\ worker.at = "start" => worker.u < offset /\ served[worker.u] <= 0
    /\ \A i \in DOMAIN worker.batch : worker.batch[i] >= offset
    /\ \A i, j \in DOMAIN worker.batch : i < j => worker.batch[i] < worker.batch[j]
ReplayInv == NoNeedlessReplay /\ WebhookInv /\ PollingInv

\* A poll fetches the updates from the offset on, in the order they were sent.
LEMMA BatchOrder ==
  ASSUME TypeOK, GetUpdates
  PROVE  /\ worker'.at = "take" /\ worker'.batch \in Seq(Nat)
         /\ \A i \in DOMAIN worker'.batch : worker'.batch[i] >= offset
         /\ \A i, j \in DOMAIN worker'.batch : i < j => worker'.batch[i] < worker'.batch[j]
<1> DEFINE seen == {u \in Arrived : u >= offset}
           first == IF offset = 0 THEN 1 ELSE offset
<1>1. Len(sent) \in Nat /\ offset \in 0 .. Len(sent) + 1 /\ first \in 1 .. Len(sent) + 1 /\ first >= offset
  BY DEF TypeOK
<1>2. seen = first .. Len(sent)
  BY <1>1 DEF Arrived
<1>3. Cardinality(seen) = Len(sent) - first + 1
  <2> HIDE DEF seen, first
  <2>1. Cardinality(first .. Len(sent)) = IF first > Len(sent) THEN 0 ELSE Len(sent) - first + 1
    <3>1. first \in Int /\ Len(sent) \in Int
      BY <1>1
    <3> QED
      BY <3>1, FS_Interval
  <2> QED
    BY <1>1, <1>2, <2>1
<1>4. worker' = [worker EXCEPT !.at = "take",
                   !.batch = [i \in 1 .. Cardinality(seen) |-> i + Len(sent) - Cardinality(seen)]]
  BY DEF GetUpdates
<1>5. worker'.at = "take" /\ worker'.batch = [i \in 1 .. Cardinality(seen) |-> i + Len(sent) - Cardinality(seen)]
  BY <1>4 DEF TypeOK
<1> HIDE DEF seen, first
<1>6. worker'.batch = [i \in 1 .. Len(sent) - first + 1 |-> i + first - 1]
  BY <1>1, <1>3, <1>5
<1>7. Len(sent) - first + 1 \in Nat /\ \A i \in 1 .. Len(sent) - first + 1 : i + first - 1 \in Nat /\ i + first - 1 >= offset
  BY <1>1
<1>8. worker'.batch \in Seq(Nat)
  BY <1>6, <1>7
<1>9. \A i \in DOMAIN worker'.batch : worker'.batch[i] >= offset
  BY <1>6, <1>7
<1>10. \A i, j \in DOMAIN worker'.batch : i < j => worker'.batch[i] < worker'.batch[j]
  BY <1>1, <1>6
<1> QED
  BY <1>5, <1>8, <1>9, <1>10

\* Every step keeps the bound on attempts: a webhook update is served again only
\* after its attempt was given back, a polled one never.
LEMMA ReplayStep == TypeOK /\ ReplayInv /\ [Next]_vars => ReplayInv'
<1> SUFFICES ASSUME TypeOK, ReplayInv, [Next]_vars PROVE ReplayInv'
  OBVIOUS
<1> USE DEF disk, history, config
<1>m. mode' = mode /\ mode \in {"webhook", "polling"}
  BY ConfigFixed, TelegramAssumption DEF TypeOK
<1>s. \A u \in Updates : served[u] \in Int /\ served[u] <= 1
  BY DEF TypeOK, ReplayInv, NoNeedlessReplay
<1>a. Arrived \subseteq Updates /\ Arrived \subseteq Nat
  BY ArrivedFacts
\* Steps that serve nothing and leave the worker where it is.
<1>q. ASSUME UNCHANGED <<acked, disk, worker, served>> PROVE ReplayInv'
  BY <1>q, <1>m DEF ReplayInv, NoNeedlessReplay, WebhookInv, PollingInv, Busy
\* Steps of an attempt that goes on.
<1>g. ASSUME UNCHANGED <<acked, disk, served>>, worker.at \in Unfinished,
             NEW l \in Unfinished, Goto(l), l # "complete" \/ mode = "webhook"
      PROVE  ReplayInv'
  <2>1. worker'.at = l /\ worker'.u = worker.u /\ worker'.batch = worker.batch
    BY <1>g, GotoFacts
  <2>2. l \notin {"take", "stopped", "start", "remove"}
    BY <1>g DEF Unfinished
  <2> QED
    BY <1>g, <1>m, <2>1, <2>2 DEF ReplayInv, NoNeedlessReplay, WebhookInv, PollingInv, Busy
\* An attempt that ends without an answer.
<1>u. ASSUME UNCHANGED <<acked, disk>>, worker.at \in Unfinished, GiveUp(worker.u) PROVE ReplayInv'
  <2>1. worker.u \in Updates
    BY <1>u, <1>a DEF TypeOK
  <2>2. CASE mode = "webhook"
    <3>1. worker'.at = "fetch" /\ served' = [served EXCEPT ![worker.u] = @ - 1]
      BY <1>u, <2>2, GotoFacts DEF GiveUp, AfterFailure
    <3>2. \A u \in Updates : served'[u] = IF u = worker.u THEN served[u] - 1 ELSE served[u]
      BY <3>1 DEF TypeOK
    <3> QED
      BY <1>u, <1>m, <1>s, <2>2, <3>1, <3>2
      DEF ReplayInv, NoNeedlessReplay, WebhookInv, PollingInv, Busy, Unfinished
  <2>3. CASE mode = "polling"
    <3>1. worker'.at = "take" /\ worker'.batch = worker.batch /\ served' = served
      BY <1>u, <2>3, GotoFacts DEF GiveUp, AfterFailure
    <3> QED
      BY <1>u, <1>m, <2>3, <3>1 DEF ReplayInv, NoNeedlessReplay, WebhookInv, PollingInv
  <2> QED
    BY <1>m, <2>2, <2>3
\* An attempt that ends with an answer.
<1>e. ASSUME UNCHANGED <<acked, disk, served>>, worker.at \in Unfinished, Goto(AfterAnswer) PROVE ReplayInv'
  <2>1. CASE mode = "webhook"
    BY <1>e, <1>g, <2>1 DEF AfterAnswer, Unfinished
  <2>2. CASE mode = "polling"
    <3>1. worker'.at = "take" /\ worker'.batch = worker.batch
      BY <1>e, <2>2, GotoFacts DEF AfterAnswer
    <3> QED
      BY <1>e, <1>m, <2>2, <3>1 DEF ReplayInv, NoNeedlessReplay, WebhookInv, PollingInv
  <2> QED
    BY <1>m, <2>1, <2>2
<1>1. CASE UNCHANGED vars
  BY <1>q, <1>1 DEF vars
<1>2. ASSUME NEW kind \in Messages, Send(kind) PROVE ReplayInv'
  BY <1>q, <1>2 DEF Send
<1>3. ASSUME NEW v \in Updates, ServeHTTP(v) PROVE ReplayInv'
  <2>1. /\ mode = "webhook" /\ v \notin acked /\ worker.at # "remove"
        /\ UNCHANGED <<offset, worker, served>> /\ acked \subseteq acked'
    BY <1>3 DEF ServeHTTP
  <2>2. /\ pending \subseteq pending' /\ pending' \subseteq pending \cup {v}
        /\ v \in completed => pending' = pending
    BY <1>3 DEF ServeHTTP, FailedWrite, Enqueue, Known
  <2>3. completed' \subseteq completed /\ \A c \in completed \ completed' : c \in acked /\ c \notin pending
    BY <1>3 DEF ServeHTTP, Prunable
  <2>4. \A u \in Updates :
          served[u] > 0 => Busy(u) \/ u \in completed' \/ (u \in acked' /\ u \notin pending')
    BY <2>1, <2>2, <2>3 DEF ReplayInv, WebhookInv
  <2>5. worker.at \in Unfinished \cup {"start"} => worker.u \in pending' \ completed'
    BY <2>1, <2>2, <2>3 DEF ReplayInv, WebhookInv
  <2> QED
    BY <1>m, <2>1, <2>4, <2>5 DEF ReplayInv, NoNeedlessReplay, WebhookInv, PollingInv, Busy
<1>4. CASE Boot
  <2>1. UNCHANGED <<acked, disk, served>> /\ worker'.batch = worker.batch /\ worker.at = "boot"
    BY <1>4, GotoFacts DEF Boot
  <2>2. worker'.at = "fetch" \/ (mode = "polling" /\ worker'.at = "stopped")
    BY <1>4, GotoFacts DEF Boot
  <2> QED
    BY <1>m, <2>1, <2>2 DEF ReplayInv, NoNeedlessReplay, WebhookInv, PollingInv, Busy, Unfinished
<1>5. CASE NextUpdate
  <2>1. /\ mode = "webhook" /\ worker.at = "fetch" /\ UNCHANGED <<acked, offset, completed, served>>
        /\ pending' = pending \ Cleared(Open)
        /\ worker' = IF Open = {} THEN worker ELSE [worker EXCEPT !.at = "start", !.u = Lowest(Open)]
    BY <1>5 DEF NextUpdate
  <2>2. Cleared(Open) \subseteq completed
    BY DEF Cleared
  <2>3. Open # {} => Lowest(Open) \in pending' \ completed
    <3>1. Open \subseteq Nat
      BY <1>a DEF Open, TypeOK
    <3> QED
      BY <2>1, <2>2, <3>1, LowestIsIn DEF Open
  <2>4. \/ worker' = worker
        \/ worker'.at = "start" /\ worker'.u \in pending' \ completed
    BY <2>1, <2>3 DEF TypeOK
  <2> QED
    BY <1>m, <2>1, <2>4 DEF ReplayInv, NoNeedlessReplay, WebhookInv, PollingInv, Busy, Unfinished
<1>6. CASE GetUpdates
  <2>1. mode = "polling" /\ UNCHANGED <<disk, served>>
    BY <1>6 DEF GetUpdates
  <2> QED
    BY <1>6, <1>m, <2>1, BatchOrder DEF ReplayInv, NoNeedlessReplay, WebhookInv, PollingInv
<1>7. CASE Take
  <2>1. mode = "polling"
    BY <1>7, <1>m DEF Take, ReplayInv, WebhookInv
  <2>2. UNCHANGED served
    BY <1>7 DEF Take
  <2>3. CASE worker.batch = <<>> \/ Goto("stopped")
    <3>1. worker'.at \in {"fetch", "stopped"} /\ worker'.batch = worker.batch
      BY <1>7, <2>3, GotoFacts DEF Take
    <3>2. UNCHANGED offset
      BY <1>7, <2>3, GotoFacts DEF Take
    <3> QED
      BY <1>m, <2>1, <2>2, <3>1, <3>2 DEF ReplayInv, NoNeedlessReplay, WebhookInv, PollingInv
  <2>4. CASE worker.batch # <<>> /\ ~Goto("stopped")
    <3> DEFINE u == Head(worker.batch)
    <3>1. /\ offset' = u + 1
          /\ worker' = [at |-> "start", u |-> u, batch |-> Tail(worker.batch)]
      BY <1>7, <2>4 DEF Take, Checkpoint
    <3>2. /\ worker.batch \in Seq(Nat) /\ Len(worker.batch) > 0
          /\ u = worker.batch[1] /\ u \in Arrived /\ u >= offset
      BY <2>1, <2>4 DEF TypeOK, ReplayInv, PollingInv
    <3>3. \A i \in DOMAIN Tail(worker.batch) :
            i + 1 \in DOMAIN worker.batch /\ Tail(worker.batch)[i] = worker.batch[i + 1]
      BY <3>2
    <3>4. \A i \in DOMAIN Tail(worker.batch) : Tail(worker.batch)[i] >= u + 1
      <4> SUFFICES ASSUME NEW i \in DOMAIN Tail(worker.batch) PROVE Tail(worker.batch)[i] >= u + 1
        OBVIOUS
      <4>1. i \in Nat \ {0} /\ 1 \in DOMAIN worker.batch /\ worker.batch[i + 1] \in Nat /\ u \in Nat
        BY <3>2, <3>3
      <4>2. worker.batch[1] < worker.batch[i + 1]
        BY <2>1, <3>3, <4>1 DEF ReplayInv, PollingInv
      <4> QED
        BY <3>2, <3>3, <4>1, <4>2
    <3>5. \A i, j \in DOMAIN Tail(worker.batch) : i < j => Tail(worker.batch)[i] < Tail(worker.batch)[j]
      <4> SUFFICES ASSUME NEW i \in DOMAIN Tail(worker.batch), NEW j \in DOMAIN Tail(worker.batch), i < j
                   PROVE  Tail(worker.batch)[i] < Tail(worker.batch)[j]
        OBVIOUS
      <4>1. i + 1 < j + 1
        BY <3>2
      <4> QED
        BY <2>1, <3>3, <4>1 DEF ReplayInv, PollingInv
    <3>6. served[u] <= 0 /\ \A w \in Updates : served[w] > 0 => w < u + 1
      BY <1>a, <1>s, <2>1, <3>2 DEF ReplayInv, PollingInv, TypeOK, Updates
    <3>7. worker'.at = "start" /\ worker'.u = u /\ worker'.batch = Tail(worker.batch)
      BY <3>1
    <3>8. u < u + 1
      BY <3>2
    <3> QED
      BY <1>m, <2>1, <2>2, <3>1, <3>4, <3>5, <3>6, <3>7, <3>8
      DEF ReplayInv, NoNeedlessReplay, WebhookInv, PollingInv
  <2> QED
    BY <2>3, <2>4
<1>8. CASE StartUpdate
  <2>1. /\ worker.at = "start" /\ worker.u \in Updates /\ UNCHANGED <<acked, disk>>
        /\ served' = [served EXCEPT ![worker.u] = @ + 1]
    BY <1>8, <1>a DEF StartUpdate, TypeOK
  <2>2. \A u \in Updates : served'[u] = IF u = worker.u THEN served[u] + 1 ELSE served[u]
    BY <2>1 DEF TypeOK
  <2>3. served[worker.u] <= 0
    BY <1>m, <1>s, <2>1 DEF ReplayInv, WebhookInv, PollingInv, Busy, Unfinished
  <2>4. /\ worker'.at \in {AfterAnswer, "send", "voice", "reply"}
        /\ worker'.u = worker.u /\ worker'.batch = worker.batch
    BY <1>8, GotoFacts DEF StartUpdate
  <2>5. \A u \in Updates : served'[u] <= 1
    BY <1>s, <2>1, <2>2, <2>3
  <2>6. CASE mode = "webhook"
    <3>1. worker'.at \in Unfinished /\ worker'.at \notin {"take", "stopped", "remove"}
      BY <2>4, <2>6 DEF AfterAnswer, Unfinished
    <3> QED
      BY <1>m, <2>1, <2>2, <2>4, <2>5, <2>6, <3>1
      DEF ReplayInv, NoNeedlessReplay, WebhookInv, PollingInv, Busy, Unfinished
  <2>7. CASE mode = "polling"
    <3>1. worker'.at \notin {"complete", "remove", "start"}
      BY <2>4, <2>7 DEF AfterAnswer
    <3> QED
      BY <1>m, <2>1, <2>2, <2>4, <2>5, <2>7, <3>1
      DEF ReplayInv, NoNeedlessReplay, WebhookInv, PollingInv
  <2> QED
    BY <1>m, <2>6, <2>7
<1>9. CASE ProcessVoice
  <2>1. worker.at \in Unfinished /\ UNCHANGED <<acked, disk>>
    BY <1>9 DEF ProcessVoice, Unfinished
  <2>2. GiveUp(worker.u) \/ (UNCHANGED served /\ \E l \in {"send", "reply"} : Goto(l))
    BY <1>9 DEF ProcessVoice
  <2> QED
    BY <1>g, <1>u, <2>1, <2>2 DEF Unfinished
<1>10. CASE Reply \/ ReplyEnded \/ CloseTracker \/ TrackerClosed
  <2>1. worker.at \in Unfinished /\ UNCHANGED <<acked, disk, served>>
    BY <1>10 DEF Reply, ReplyEnded, CloseTracker, TrackerClosed, Unfinished
  <2>2. \E l \in {"ended", "send", "close", "closing"} : Goto(l)
    BY <1>10 DEF Reply, ReplyEnded, CloseTracker, TrackerClosed, AfterReply
  <2> QED
    BY <1>g, <2>1, <2>2 DEF Unfinished
<1>11. CASE SendAnswer
  <2>1. worker.at \in Unfinished /\ UNCHANGED <<acked, disk>>
    BY <1>11 DEF SendAnswer, Unfinished
  <2>2. GiveUp(worker.u) \/ (UNCHANGED served /\ Goto("sent"))
    BY <1>11 DEF SendAnswer
  <2> QED
    BY <1>g, <1>u, <2>1, <2>2 DEF Unfinished
<1>12. CASE Return
  <2>1. worker.at \in Unfinished /\ UNCHANGED <<acked, disk, served>> /\ Goto(AfterAnswer)
    BY <1>12 DEF Return, Unfinished
  <2> QED
    BY <1>e, <2>1
<1>13. CASE Complete
  <2>1. /\ mode = "webhook" /\ worker.at = "complete" /\ worker.u \in Updates
        /\ UNCHANGED <<acked, offset, pending>>
    BY <1>13, <1>m, <1>a DEF Complete, ReplayInv, PollingInv, TypeOK, Unfinished
  <2>2. CASE completed' = completed \cup {worker.u} /\ Goto("remove") /\ UNCHANGED served
    BY <1>m, <2>1, <2>2, GotoFacts
    DEF ReplayInv, NoNeedlessReplay, WebhookInv, PollingInv, Busy, Unfinished
  <2>3. CASE completed' = completed /\ Goto("fetch") /\ served' = [served EXCEPT ![worker.u] = @ - 1]
    <3>1. \A u \in Updates : served'[u] = IF u = worker.u THEN served[u] - 1 ELSE served[u]
      BY <2>3 DEF TypeOK
    <3>2. worker'.at = "fetch"
      BY <2>3, GotoFacts
    <3> QED
      BY <1>m, <1>s, <2>1, <2>3, <3>1, <3>2
      DEF ReplayInv, NoNeedlessReplay, WebhookInv, PollingInv, Busy, Unfinished
  <2> QED
    BY <1>13, <2>2, <2>3 DEF Complete
<1>14. CASE RemovePending
  <2>1. /\ mode = "webhook" /\ worker.at = "remove" /\ UNCHANGED <<acked, offset, completed, served>>
        /\ pending' \subseteq pending /\ worker'.at = "fetch"
    BY <1>14, <1>m, GotoFacts DEF RemovePending, ReplayInv, PollingInv
  <2> QED
    BY <1>m, <2>1 DEF ReplayInv, NoNeedlessReplay, WebhookInv, PollingInv, Busy, Unfinished
<1>15. CASE SendDelayed \/ EmitDelayed
  BY <1>q, <1>15 DEF SendDelayed, EmitDelayed
<1>16. ASSUME NEW t \in DOMAIN timers, TimerExpires(t) PROVE ReplayInv'
  BY <1>q, <1>16 DEF TimerExpires
<1>17. CASE Scheduler
  BY <1>q, <1>17 DEF Scheduler, DueTimers, Ring, MarkTimerDelivered
<1>18. CASE Crash
  <2>1. UNCHANGED <<acked, disk>> /\ worker'.at = "boot" /\ worker'.batch = <<>>
    BY <1>18 DEF Crash, Booting
  <2>2. CASE mode = "webhook" /\ worker.at \in Unfinished
    <3>1. worker.u \in Updates /\ served' = [served EXCEPT ![worker.u] = @ - 1]
      BY <1>18, <1>a, <2>2 DEF Crash, TypeOK
    <3>2. \A u \in Updates : served'[u] = IF u = worker.u THEN served[u] - 1 ELSE served[u]
      BY <3>1 DEF TypeOK
    <3> QED
      BY <1>m, <1>s, <2>1, <2>2, <3>1, <3>2
      DEF ReplayInv, NoNeedlessReplay, WebhookInv, PollingInv, Busy, Unfinished
  <2>3. CASE ~(mode = "webhook" /\ worker.at \in Unfinished)
    <3>1. UNCHANGED served
      BY <1>18, <2>3 DEF Crash
    <3> QED
      BY <1>m, <2>1, <2>3, <3>1 DEF ReplayInv, NoNeedlessReplay, WebhookInv, PollingInv, Busy, Unfinished
  <2> QED
    BY <2>2, <2>3
<1> QED
  BY <1>1, <1>2, <1>3, <1>4, <1>5, <1>6, <1>7, <1>8, <1>9, <1>10, <1>11, <1>12, <1>13, <1>14,
     <1>15, <1>16, <1>17, <1>18 DEF Next, Worker, Process

\* No update is processed again unless an attempt at it failed or was cut short
\* (the queue's completions and the stored offset).
THEOREM ReplaySafe == Spec => []NoNeedlessReplay
<1>1. Init => ReplayInv
  BY DEF Init, Booting, ReplayInv, NoNeedlessReplay, WebhookInv, PollingInv, Unfinished
<1>2. ReplayInv => NoNeedlessReplay
  BY DEF ReplayInv
<1> QED
  BY <1>1, <1>2, TypeCorrect, ReplayStep, PTL DEF Spec

(***************************************************************************)
(* Progress messages.                                                      *)
(***************************************************************************)
Quiescent == {"boot", "fetch", "take", "start", "complete", "remove", "stopped"}
\* No tracker outlives its message, and a text message's tracker is closed and
\* drained before its answer is sent.
TrackerInv ==
  /\ TextAnswerIsLast
  /\ worker.at \in Quiescent => tracker = NoTracker
  /\ worker.at = "voice" => Spoken(worker.u)
  /\ worker.at = "closing" => tracker.closed
  /\ worker.at \in {"send", "sent"} /\ ~Spoken(worker.u) => tracker.closed /\ ~tracker.emitting

\* Every step keeps the trackers in order: Close waits for the emission before a
\* text answer is sent.
LEMMA TrackerStep == TypeOK /\ TrackerInv /\ [Next]_vars => TrackerInv'
<1> SUFFICES ASSUME TypeOK, TrackerInv, [Next]_vars PROVE TrackerInv'
  OBVIOUS
<1> USE DEF history
\* Steps that add no message: what was spoken stays so.
<1>q. ASSUME UNCHANGED <<sent, worker, tracker, late>> PROVE TrackerInv'
  BY <1>q DEF TrackerInv, TextAnswerIsLast, Spoken
\* Moves of the worker to a place where nothing is being answered.
<1>g. ASSUME NEW l \in Quiescent, worker'.at = l, UNCHANGED <<sent, late>>, tracker' = NoTracker
      PROVE  TrackerInv'
  BY <1>g DEF TrackerInv, TextAnswerIsLast, Spoken, Quiescent
<1>u. ASSUME UNCHANGED sent, GiveUp(worker.u) PROVE TrackerInv'
  BY <1>g, <1>u, GotoFacts DEF GiveUp, AfterFailure, Quiescent
<1>1. CASE UNCHANGED vars
  BY <1>q, <1>1 DEF vars
<1>2. ASSUME NEW kind \in Messages, Send(kind) PROVE TrackerInv'
  <2>1. \A u \in Arrived : sent'[u] = sent[u]
    BY <1>2 DEF Send, Arrived, TypeOK
  <2>2. UNCHANGED <<worker, tracker, late>>
    BY <1>2 DEF Send
  <2>3. late \subseteq Arrived /\ (worker.at \in {"voice", "send", "sent"} => worker.u \in Arrived)
    BY DEF TypeOK, Unfinished
  <2> QED
    BY <2>1, <2>2, <2>3 DEF TrackerInv, TextAnswerIsLast, Spoken
<1>3. ASSUME NEW u \in Updates, ServeHTTP(u) PROVE TrackerInv'
  BY <1>q, <1>3 DEF ServeHTTP
<1>4. CASE Boot
  <2>1. worker'.at \in Quiescent /\ UNCHANGED <<sent, late>> /\ tracker' = NoTracker
    BY <1>4, GotoFacts DEF Boot, TrackerInv, Quiescent
  <2> QED
    BY <1>g, <2>1
<1>5. CASE NextUpdate
  <2>1. worker'.at \in Quiescent /\ UNCHANGED <<sent, late>> /\ tracker' = NoTracker
    BY <1>5 DEF NextUpdate, TrackerInv, Quiescent, TypeOK
  <2> QED
    BY <1>g, <2>1
<1>6. CASE GetUpdates
  <2>1. worker'.at \in Quiescent /\ UNCHANGED <<sent, late>> /\ tracker' = NoTracker
    BY <1>6, BatchOrder DEF GetUpdates, TrackerInv, Quiescent
  <2> QED
    BY <1>g, <2>1
<1>7. CASE Take
  <2>1. worker'.at \in Quiescent /\ UNCHANGED <<sent, late>> /\ tracker' = NoTracker
    BY <1>7, GotoFacts DEF Take, TrackerInv, Quiescent
  <2> QED
    BY <1>g, <2>1
<1>8. CASE StartUpdate
  <2>1. worker.at = "start" /\ tracker = NoTracker /\ UNCHANGED <<sent, late>>
    BY <1>8 DEF StartUpdate, TrackerInv, Quiescent
  <2>2. \/ worker'.at \in Quiescent /\ UNCHANGED tracker
        \/ worker'.at = "send" /\ UNCHANGED tracker
        \/ worker'.at = "voice" /\ worker'.u = worker.u /\ Spoken(worker.u)
        \/ worker'.at = "reply"
    BY <1>8, GotoFacts DEF StartUpdate, AfterAnswer, Quiescent
  <2> QED
    BY <1>g, <2>1, <2>2 DEF TrackerInv, TextAnswerIsLast, Spoken, Quiescent, NoTracker
<1>9. CASE ProcessVoice
  <2>1. worker.at = "voice" /\ Spoken(worker.u) /\ UNCHANGED sent
    BY <1>9 DEF ProcessVoice, TrackerInv
  <2>2. GiveUp(worker.u) \/ (UNCHANGED late /\ worker'.u = worker.u /\ worker'.at \in {"send", "reply"})
    BY <1>9, GotoFacts DEF ProcessVoice
  <2> QED
    BY <1>u, <2>1, <2>2 DEF TrackerInv, TextAnswerIsLast, Spoken, Quiescent
<1>10. CASE Reply \/ ReplyEnded \/ CloseTracker
  <2>1. UNCHANGED <<sent, late>> /\ worker'.u = worker.u
    BY <1>10, GotoFacts DEF Reply, ReplyEnded, CloseTracker
  <2>2. \/ worker'.at \in {"ended", "close"}
        \/ worker'.at = "send" /\ Spoken(worker.u)
        \/ worker'.at = "closing" /\ tracker'.closed
    BY <1>10, GotoFacts DEF Reply, ReplyEnded, CloseTracker, AfterReply, TypeOK
  <2> QED
    BY <2>1, <2>2 DEF TrackerInv, TextAnswerIsLast, Spoken, Quiescent
<1>11. CASE TrackerClosed
  <2>1. /\ UNCHANGED <<sent, late, tracker>> /\ worker'.u = worker.u /\ worker'.at = "send"
        /\ tracker.closed /\ ~tracker.emitting
    BY <1>11, GotoFacts DEF TrackerClosed, TrackerInv, Drained
  <2> QED
    BY <2>1 DEF TrackerInv, TextAnswerIsLast, Spoken, Quiescent
<1>12. CASE SendAnswer
  <2>1. UNCHANGED sent /\ worker.at = "send"
    BY <1>12 DEF SendAnswer
  <2>2. GiveUp(worker.u) \/ (UNCHANGED <<tracker, late>> /\ worker'.u = worker.u /\ worker'.at = "sent")
    BY <1>12, GotoFacts DEF SendAnswer
  <2> QED
    BY <1>u, <2>1, <2>2 DEF TrackerInv, TextAnswerIsLast, Spoken, Quiescent
<1>13. CASE Return
  <2>1. worker'.at \in Quiescent /\ UNCHANGED <<sent, late>> /\ tracker' = NoTracker
    BY <1>13, GotoFacts DEF Return, AfterAnswer, Quiescent
  <2> QED
    BY <1>g, <2>1
<1>14. CASE Complete \/ RemovePending
  <2>1. worker'.at \in Quiescent /\ UNCHANGED <<sent, late>> /\ tracker' = NoTracker
    BY <1>14, GotoFacts DEF Complete, RemovePending, TrackerInv, Quiescent
  <2> QED
    BY <1>g, <2>1
<1>15. CASE SendDelayed
  <2>1. UNCHANGED <<sent, worker>> /\ ~tracker.closed /\ tracker'.closed = tracker.closed
    BY <1>15 DEF SendDelayed, TypeOK
  <2>2. worker.at \notin Quiescent /\ worker.at # "closing"
        /\ (worker.at \in {"send", "sent"} => Spoken(worker.u))
    BY <2>1 DEF TrackerInv, NoTracker
  <2>3. \A u \in late' : Spoken(u)
    BY <1>15, <2>2 DEF SendDelayed, ProgressArrives, TrackerInv, TextAnswerIsLast
  <2> QED
    BY <2>1, <2>2, <2>3 DEF TrackerInv, TextAnswerIsLast, Spoken
<1>16. CASE EmitDelayed
  <2>1. /\ UNCHANGED <<sent, worker>> /\ tracker.emitting /\ tracker'.closed = tracker.closed
        /\ tracker'.emitting = FALSE
    BY <1>16 DEF EmitDelayed, TypeOK
  <2>2. worker.at \notin Quiescent /\ (worker.at \in {"send", "sent"} => Spoken(worker.u))
    BY <2>1 DEF TrackerInv, NoTracker
  <2>3. \A u \in late' : Spoken(u)
    BY <1>16, <2>2 DEF EmitDelayed, ProgressArrives, TrackerInv, TextAnswerIsLast
  <2> QED
    BY <2>1, <2>2, <2>3 DEF TrackerInv, TextAnswerIsLast, Spoken
<1>17. ASSUME NEW t \in DOMAIN timers, TimerExpires(t) PROVE TrackerInv'
  BY <1>q, <1>17 DEF TimerExpires
<1>18. CASE Scheduler
  BY <1>q, <1>18 DEF Scheduler, DueTimers, Ring, MarkTimerDelivered
<1>19. CASE Crash
  BY <1>g, <1>19 DEF Crash, Booting, Quiescent
<1> QED
  BY <1>1, <1>2, <1>3, <1>4, <1>5, <1>6, <1>7, <1>8, <1>9, <1>10, <1>11, <1>12, <1>13, <1>14,
     <1>15, <1>16, <1>17, <1>18, <1>19 DEF Next, Worker, Process

\* No progress message follows the answer to a text message (progress.go and the
\* order of Close and send in processUpdate).
THEOREM TextAnswerSafe == Spec => []TextAnswerIsLast
<1>1. Init => TrackerInv
  BY DEF Init, Booting, TrackerInv, TextAnswerIsLast
<1>2. TrackerInv => TextAnswerIsLast
  BY DEF TrackerInv
<1> QED
  BY <1>1, <1>2, TypeCorrect, TrackerStep, PTL DEF Spec

(***************************************************************************)
(* Countdown timers.                                                       *)
(***************************************************************************)
Recording(t) == sched.at = "mark" /\ t = Ringing
\* A timer that may still ring has no unrecorded ring, but for the one the
\* scheduler is about to record.
TimerBooks(t) ==
  /\ timers[t].early => timers[t].canceled /\ timers[t].rings = 0
  /\ timers[t].rings > 0 => timers[t].expired
  /\ timers[t].rings <= 1 + timers[t].faults
  /\ t \in sched.due => timers[t].expired /\ ~timers[t].early
  /\ (t \in sched.due \/ Active(t)) /\ ~Recording(t) => timers[t].rings <= timers[t].faults
TimerInv ==
  /\ worker.at = "boot" => sched.at = "off"
  /\ \A t \in DOMAIN timers : TimerBooks(t)

\* Every step keeps the books of the timers: a ring is recorded, or counted as a
\* fault, before the timer can be listed again.
LEMMA TimerStep == TypeOK /\ TimerInv /\ [Next]_vars => TimerInv'
<1> SUFFICES ASSUME TypeOK, TimerInv, [Next]_vars PROVE TimerInv'
  OBVIOUS
<1>t. \A t \in DOMAIN timers : timers[t] \in TimerType /\ TimerBooks(t)
  BY DEF TypeOK, TimerInv
\* Steps of the worker that leave timers and scheduler alone; it never goes back
\* to its boot but by a crash.
<1>q. ASSUME UNCHANGED <<timers, sched>>, worker' = worker \/ worker'.at # "boot" PROVE TimerInv'
  BY <1>q DEF TimerInv, TimerBooks, Active, Recording, Ringing
<1>1. CASE UNCHANGED vars
  BY <1>q, <1>1 DEF vars
<1>2. ASSUME NEW kind \in Messages, Send(kind) PROVE TimerInv'
  BY <1>q, <1>2 DEF Send
<1>3. ASSUME NEW u \in Updates, ServeHTTP(u) PROVE TimerInv'
  BY <1>q, <1>3 DEF ServeHTTP
<1>4. CASE Boot
  <2>1. worker'.at \in {"fetch", "stopped"} /\ UNCHANGED timers
    BY <1>4, GotoFacts DEF Boot
  <2>2. sched.at = "off" /\ sched.due = {}
    BY <1>4 DEF Boot, TimerInv, TypeOK
  <2>3. sched'.at \in {"off", "idle"} /\ sched'.due = {}
    BY <1>4, <2>2 DEF Boot, Stopped
  <2> QED
    BY <1>t, <2>1, <2>2, <2>3 DEF TimerInv, TimerBooks, Active, Recording
<1>5. CASE NextUpdate
  BY <1>q, <1>5 DEF NextUpdate, TypeOK
<1>6. CASE GetUpdates
  BY <1>q, <1>6, BatchOrder DEF GetUpdates
<1>7. CASE Take
  BY <1>q, <1>7, GotoFacts DEF Take
<1>8. CASE StartUpdate
  BY <1>q, <1>8, GotoFacts DEF StartUpdate, AfterAnswer
<1>9. CASE ProcessVoice
  BY <1>q, <1>9, GotoFacts DEF ProcessVoice, GiveUp, AfterFailure
<1>10. CASE Reply
  <2>1. worker'.at # "boot" /\ UNCHANGED sched
    BY <1>10, GotoFacts DEF Reply, AfterReply
  <2>2. CASE UNCHANGED timers
    BY <1>q, <2>1, <2>2
  <2>3. CASE timers' = Append(timers, NewTimer)
    <3>1. DOMAIN timers' = DOMAIN timers \cup {Len(timers) + 1} /\ timers'[Len(timers) + 1] = NewTimer
          /\ \A t \in DOMAIN timers : timers'[t] = timers[t]
      BY <2>3 DEF TypeOK
    <3>2. sched.due \subseteq DOMAIN timers /\ Len(timers) + 1 \notin DOMAIN timers
      BY DEF TypeOK
    <3>3. ASSUME NEW t \in DOMAIN timers PROVE TimerBooks(t)'
      BY <1>t, <2>1, <3>1, <3>3 DEF TimerBooks, Active, Recording, Ringing
    <3>4. ASSUME NEW t, t = Len(timers) + 1 PROVE TimerBooks(t)'
      BY <2>1, <3>1, <3>2, <3>4 DEF TimerBooks, NewTimer
    <3> QED
      BY <2>1, <3>1, <3>3, <3>4 DEF TimerInv
  <2>4. ASSUME NEW c \in DOMAIN timers, Active(c),
               timers' = [timers EXCEPT ![c].canceled = TRUE, ![c].early = ~timers[c].expired]
        PROVE  TimerInv'
    <3>1. DOMAIN timers' = DOMAIN timers /\ \A t \in DOMAIN timers : t # c => timers'[t] = timers[t]
      BY <2>4 DEF TypeOK
    <3>2. /\ timers'[c].canceled = TRUE /\ timers'[c].early = ~timers[c].expired
          /\ timers'[c].expired = timers[c].expired /\ timers'[c].delivered = timers[c].delivered
          /\ timers'[c].rings = timers[c].rings /\ timers'[c].faults = timers[c].faults
      BY <1>t, <2>4 DEF TypeOK, TimerType
    <3>3. ASSUME NEW t \in DOMAIN timers PROVE TimerBooks(t)'
      <4>1. CASE t = c
        BY <1>t, <2>1, <3>2, <4>1 DEF TimerBooks, TimerType, Active, Recording, Ringing
      <4>2. CASE t # c
        BY <1>t, <2>1, <3>1, <3>3, <4>2 DEF TimerBooks, Active, Recording, Ringing
      <4> QED
        BY <4>1, <4>2
    <3> QED
      BY <2>1, <3>1, <3>3 DEF TimerInv
  <2> QED
    BY <1>10, <2>2, <2>3, <2>4 DEF Reply, CreateTimer, CancelTimer
<1>11. CASE ReplyEnded \/ CloseTracker \/ TrackerClosed \/ Return
  BY <1>q, <1>11, GotoFacts DEF ReplyEnded, CloseTracker, TrackerClosed, Return, AfterReply, AfterAnswer
<1>12. CASE SendAnswer
  BY <1>q, <1>12, GotoFacts DEF SendAnswer, GiveUp, AfterFailure
<1>13. CASE Complete \/ RemovePending
  BY <1>q, <1>13, GotoFacts DEF Complete, RemovePending
<1>14. CASE SendDelayed \/ EmitDelayed
  BY <1>q, <1>14 DEF SendDelayed, EmitDelayed
<1>15. ASSUME NEW c \in DOMAIN timers, TimerExpires(c) PROVE TimerInv'
  <2>1. /\ UNCHANGED <<worker, sched>> /\ DOMAIN timers' = DOMAIN timers
        /\ \A t \in DOMAIN timers : t # c => timers'[t] = timers[t]
    BY <1>15 DEF TimerExpires, TypeOK
  <2>2. timers'[c] = [timers[c] EXCEPT !.expired = TRUE]
    BY <1>15 DEF TimerExpires, TypeOK
  <2>3. ASSUME NEW t \in DOMAIN timers PROVE TimerBooks(t)'
    <3>1. CASE t = c
      BY <1>t, <2>1, <2>2, <3>1 DEF TimerBooks, TimerType, Active, Recording, Ringing
    <3>2. CASE t # c
      BY <1>t, <2>1, <2>3, <3>2 DEF TimerBooks, Active, Recording, Ringing
    <3> QED
      BY <3>1, <3>2
  <2> QED
    BY <2>1, <2>3 DEF TimerInv
<1>16. CASE DueTimers
  <2>1. /\ UNCHANGED <<worker, timers>> /\ sched.at = "idle" /\ sched'.at = "ring"
        /\ sched'.due = {t \in DOMAIN timers : IsDue(t)}
    BY <1>16 DEF DueTimers
  <2>2. ASSUME NEW t \in DOMAIN timers PROVE TimerBooks(t)'
    BY <1>t, <2>1 DEF TimerBooks, TimerType, IsDue, Active, Recording
  <2> QED
    BY <2>1, <2>2 DEF TimerInv
\* A timer that leaves the listing, with its books in order.
<1>s. ASSUME sched.at \in {"ring", "mark"}, sched' = Skip, UNCHANGED worker, DOMAIN timers' = DOMAIN timers,
             \A t \in DOMAIN timers : t # Ringing => timers'[t] = timers[t],
             timers'[Ringing].early => timers'[Ringing].canceled /\ timers'[Ringing].rings = 0,
             timers'[Ringing].rings > 0 => timers'[Ringing].expired,
             timers'[Ringing].rings <= 1 + timers'[Ringing].faults,
             ~timers'[Ringing].canceled /\ ~timers'[Ringing].delivered =>
               timers'[Ringing].rings <= timers'[Ringing].faults
      PROVE  TimerInv'
  <2> DEFINE r == Ringing
  <2>1. sched'.at \in {"idle", "ring"} /\ sched'.due = sched.due \ {r}
    BY <1>s, RingingIsDue DEF Skip, Stopped
  <2> HIDE DEF r
  <2>2. worker.at # "boot"
    BY <1>s DEF TimerInv
  <2>3. ASSUME NEW t \in DOMAIN timers PROVE TimerBooks(t)'
    <3>1. CASE t = r
      BY <1>s, <2>1, <3>1 DEF TimerBooks, Active, Recording, r
    <3>2. CASE t # r
      BY <1>s, <1>t, <2>1, <2>3, <3>2 DEF TimerBooks, Active, Recording, r
    <3> QED
      BY <3>1, <3>2
  <2> QED
    BY <1>s, <2>2, <2>3 DEF TimerInv
<1>17. CASE Ring
  <2> DEFINE r == Ringing
  <2>1. r \in sched.due /\ r \in DOMAIN timers /\ UNCHANGED worker /\ sched.at = "ring"
    BY <1>17, RingingIsDue DEF Ring
  <2>2. /\ timers[r] \in TimerType /\ TimerBooks(r) /\ timers[r].rings <= timers[r].faults
    BY <1>t, <2>1 DEF TimerBooks, Recording
  <2>3. CASE timers' = [timers EXCEPT ![Ringing].rings = @ + 1] /\ sched' = [sched EXCEPT !.at = "mark"]
    <3>1. sched'.at = "mark" /\ sched'.due = sched.due /\ Ringing' = r
      BY <2>3 DEF TypeOK, Ringing
    <3> HIDE DEF r
    <3>2. DOMAIN timers' = DOMAIN timers /\ \A t \in DOMAIN timers : t # r => timers'[t] = timers[t]
      BY <2>3 DEF TypeOK, r
    <3>3. timers'[r] = [timers[r] EXCEPT !.rings = @ + 1]
      BY <2>1, <2>3 DEF TypeOK, r
    <3>4. ASSUME NEW t \in DOMAIN timers PROVE TimerBooks(t)'
      <4>1. CASE t = r
        BY <2>1, <2>2, <3>1, <3>3, <4>1 DEF TimerBooks, TimerType, Active, Recording
      <4>2. CASE t # r
        BY <1>t, <2>1, <3>1, <3>2, <3>4, <4>2 DEF TimerBooks, Active, Recording
      <4> QED
        BY <4>1, <4>2
    <3> QED
      BY <2>1, <3>2, <3>4 DEF TimerInv
  <2>4. CASE sched' = Skip /\ UNCHANGED timers
    <3> HIDE DEF r
    <3> QED
      BY <1>s, <2>1, <2>2, <2>4 DEF TimerBooks, r
  <2> QED
    BY <1>17, <2>3, <2>4 DEF Ring
<1>18. CASE MarkTimerDelivered
  <2> DEFINE r == Ringing
  <2>1. r \in sched.due /\ r \in DOMAIN timers /\ UNCHANGED worker /\ sched.at = "mark" /\ sched' = Skip
    BY <1>18, RingingIsDue DEF MarkTimerDelivered
  <2>2. timers[r] \in TimerType /\ TimerBooks(r)
    BY <1>t, <2>1
  <2> HIDE DEF r
  <2>3. CASE timers[r].canceled /\ UNCHANGED timers
    BY <1>s, <2>1, <2>2, <2>3 DEF TimerBooks, Active, r
  <2>4. CASE timers' = [timers EXCEPT ![r].delivered = TRUE]
    <3>1. DOMAIN timers' = DOMAIN timers /\ \A t \in DOMAIN timers : t # r => timers'[t] = timers[t]
      BY <2>4 DEF TypeOK
    <3>2. timers'[r] = [timers[r] EXCEPT !.delivered = TRUE]
      BY <2>1, <2>4 DEF TypeOK
    <3> QED
      BY <1>s, <2>1, <2>2, <3>1, <3>2 DEF TimerBooks, TimerType, Active, r
  <2>5. CASE timers' = [timers EXCEPT ![r].faults = @ + 1]
    <3>1. DOMAIN timers' = DOMAIN timers /\ \A t \in DOMAIN timers : t # r => timers'[t] = timers[t]
      BY <2>5 DEF TypeOK
    <3>2. timers'[r] = [timers[r] EXCEPT !.faults = @ + 1]
      BY <2>1, <2>5 DEF TypeOK
    <3> QED
      BY <1>s, <2>1, <2>2, <3>1, <3>2 DEF TimerBooks, TimerType, Active, r
  <2> QED
    BY <1>18, <2>3, <2>4, <2>5 DEF MarkTimerDelivered, r
<1>19. CASE Crash
  <2> DEFINE r == Ringing
  <2>1. sched'.at = "off" /\ sched'.due = {}
    BY <1>19 DEF Crash, Unstarted
  <2>2. CASE sched.at # "mark"
    <3>1. UNCHANGED timers
      BY <1>19, <2>2 DEF Crash
    <3>2. ASSUME NEW t \in DOMAIN timers PROVE TimerBooks(t)'
      BY <1>t, <2>1, <2>2, <3>1 DEF TimerBooks, Active, Recording
    <3> QED
      BY <2>1, <3>1, <3>2 DEF TimerInv
  <2>3. CASE sched.at = "mark"
    <3>1. r \in DOMAIN timers /\ timers' = [timers EXCEPT ![r].faults = @ + 1]
      BY <1>19, <2>3, RingingIsDue DEF Crash
    <3> HIDE DEF r
    <3>2. DOMAIN timers' = DOMAIN timers /\ \A t \in DOMAIN timers : t # r => timers'[t] = timers[t]
      BY <3>1 DEF TypeOK
    <3>3. timers'[r] = [timers[r] EXCEPT !.faults = @ + 1]
      BY <3>1 DEF TypeOK
    <3>4. ASSUME NEW t \in DOMAIN timers PROVE TimerBooks(t)'
      <4>1. CASE t = r
        BY <1>t, <2>1, <3>3, <4>1 DEF TimerBooks, TimerType, Active, Recording
      <4>2. CASE t # r
        BY <1>t, <2>1, <3>2, <3>4, <4>2 DEF TimerBooks, Active, Recording, r
      <4> QED
        BY <4>1, <4>2
    <3> QED
      BY <2>1, <3>2, <3>4 DEF TimerInv
  <2> QED
    BY <2>2, <2>3
<1> QED
  BY <1>1, <1>2, <1>3, <1>4, <1>5, <1>6, <1>7, <1>8, <1>9, <1>10, <1>11, <1>12, <1>13, <1>14,
     <1>15, <1>16, <1>17, <1>18, <1>19 DEF Next, Worker, Process, Scheduler

\* A timer cancelled in time never rings, and no timer rings twice without a
\* fault in between (timer.go, deliverDueTimers).
THEOREM TimersSafe == Spec => []TimersRingOnce
<1>1. Init => TimerInv
  BY DEF Init, Unstarted, TimerInv
<1>2. TimerInv => TimersRingOnce
  BY DEF TimerInv, TimerBooks, TimersRingOnce
<1> QED
  BY <1>1, <1>2, TypeCorrect, TimerStep, PTL DEF Spec
============================================================================
