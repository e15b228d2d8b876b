------------------------- MODULE SecretaryTelegram -------------------------
(***************************************************************************)
(* The secretary's Telegram side: the webhook with its on-disk queue       *)
(* (telegram_webhook.go), the worker and the polling loop, which share     *)
(* processUpdate (telegram.go), the progress trackers whose timers run     *)
(* beside a reply (progress.go) and the countdown timers with their        *)
(* scheduler (timer.go).                                                   *)
(*                                                                         *)
(* Update u is the u-th message the operator sent.  Telegram is external:  *)
(* it repeats a webhook call until it sees a 200, and drops the updates    *)
(* below the offset of a poll.  It gives up after a day, the queue keeps   *)
(* completions for two, and a process that dies is restarted at once, so a *)
(* completion is pruned only after Telegram stopped and its pending file   *)
(* is gone.                                                                *)
(***************************************************************************)
EXTENDS Integers, Sequences, FiniteSets

CONSTANTS
  Modes,              \* transports to check, of {"polling", "webhook"}
  Transcription,      \* settings of TranscriptionEnabled to check
  Messages,           \* kinds of message the operator may send, of Kinds
  MaxUpdates,         \* bound: messages sent
  MaxPending,         \* telegramWebhookMaxPending
  MaxActive,          \* active timers one operator may have
  MaxFaults           \* bound: failed sends, failed disk writes and crashes

(* "foreign": not from the operator.  "voiceBad": a note whose metadata is *)
(* refused.  A voice note carries the request named after it.              *)
Kinds == {"foreign", "empty", "chat", "timer", "cancel",
          "voiceChat", "voiceTimer", "voiceBad"}

ASSUME TelegramAssumption ==
  /\ Modes \subseteq {"polling", "webhook"} /\ Modes # {}
  /\ Transcription \subseteq BOOLEAN /\ Transcription # {}
  /\ Messages \subseteq Kinds
  /\ MaxUpdates \in Nat /\ MaxFaults \in Nat
  /\ MaxPending \in Nat \ {0} /\ MaxActive \in Nat

VARIABLES
  mode, transcription,  \* configuration, fixed at start
  sent,                 \* the operator's messages, in order
  acked,                \* updates Telegram will not deliver again
  offset,               \* offset.json
  pending, completed,   \* the queue's two directories
  timers,               \* timers.json
  worker,               \* the webhook worker or the polling loop
  tracker,              \* the progress tracker of the current message
  sched,                \* the timer scheduler's pass
  served,               \* history: attempts per update, less those retried after a failure
  handled,              \* history: updates processUpdate returned nil for
  late,                 \* history: updates with a progress message after the answer
  faults

config == <<mode, transcription>>
disk == <<offset, pending, completed>>
history == <<served, handled, late>>
vars == <<config, sent, acked, disk, timers, worker, tracker, sched, history, faults>>

Updates == 1 .. MaxUpdates
Arrived == 1 .. Len(sent)
Spoken(u) == sent[u] \in {"voiceChat", "voiceTimer", "voiceBad"}

NoTracker == [kind |-> "none", closed |-> TRUE, sent |-> FALSE, emitting |-> FALSE]
NewTracker(kind) == [kind |-> kind, closed |-> FALSE, sent |-> FALSE, emitting |-> FALSE]
Stopped == [at |-> "idle", due |-> {}]
Unstarted == [at |-> "off", due |-> {}]
Booting == [at |-> "boot", u |-> 0, batch |-> <<>>]

Init ==
  /\ mode \in Modes /\ transcription \in Transcription
  /\ sent = <<>> /\ acked = {} /\ offset = 0
  /\ pending = {} /\ completed = {}
  /\ timers = <<>>
  /\ worker = Booting /\ tracker = NoTracker
  /\ sched = Unstarted
  /\ served = [u \in Updates |-> 0] /\ handled = {} /\ late = {}
  /\ faults = 0

Goto(at) == worker' = [worker EXCEPT !.at = at]
Fault == faults < MaxFaults /\ faults' = faults + 1
NoFault == UNCHANGED faults

(***************************************************************************)
(* External: the operator and the Telegram server.                         *)
(***************************************************************************)
Send(kind) ==
  /\ Len(sent) < MaxUpdates
  /\ sent' = Append(sent, kind)
  /\ UNCHANGED <<config, acked, disk, timers, worker, tracker, sched, history, faults>>

(***************************************************************************)
(* The webhook.                                                            *)
(***************************************************************************)
Known(u) == u \in pending \/ u \in completed
EnqueueAnswersFull(u) ==
  [pending |-> IF Known(u) \/ Cardinality(pending) >= MaxPending
                 THEN pending ELSE pending \cup {u}, ok |-> TRUE]
(* Enqueue: what the pending directory holds, and whether the handler      *)
(* answers 200.                                                            *)
Enqueue(u) ==
  CASE Known(u)                              -> [pending |-> pending, ok |-> TRUE]
    [] ~Known(u) /\ Cardinality(pending) >= MaxPending -> [pending |-> pending, ok |-> FALSE]
    [] OTHER                                 -> [pending |-> pending \cup {u}, ok |-> TRUE]

(* prune: completions old enough that Telegram has stopped repeating them. *)
Prunable == {c \in completed \cap acked : c \notin pending}

(* writeJSON: an error after the rename leaves the new content.            *)
FailedWrite(old, new) == {old, new}

(* ServeHTTP: a delivery of u, whose answer may be lost on the way back;   *)
(* a write may fail with the file already renamed in place.  The queue's   *)
(* mutex keeps it out of the two writes of Complete.                       *)
ServeHTTP(u) ==
  /\ mode = "webhook" /\ u \in Arrived \ acked
  /\ worker.at # "remove"
  /\ LET done == Enqueue(u) IN
       \E old \in SUBSET Prunable :
         /\ completed' = completed \ old
         /\ \/ /\ pending' = done.pending
               /\ acked' = IF done.ok THEN acked \cup {u} ELSE acked
               /\ NoFault
            \/ /\ Fault /\ pending' \in FailedWrite(pending, done.pending) /\ UNCHANGED acked
  /\ UNCHANGED <<config, sent, offset, timers, worker, tracker, sched, history>>

(***************************************************************************)
(* The worker and the polling loop.                                        *)
(***************************************************************************)
BootUnscheduled ==
  /\ worker.at = "boot" /\ Goto("fetch")
  /\ UNCHANGED <<config, sent, acked, disk, timers, tracker, sched, history, faults>>
(* Run checks the bot and its webhook before it polls, and starts the      *)
(* timer scheduler; the webhook worker has no such step.                   *)
Boot ==
  /\ worker.at = "boot"
  /\ \/ /\ Goto("fetch") /\ NoFault
        /\ sched' = IF mode = "polling" THEN Stopped ELSE sched
     \/ mode = "polling" /\ Fault /\ Goto("stopped") /\ UNCHANGED sched
  /\ UNCHANGED <<config, sent, acked, disk, timers, tracker, history>>

(* Next of the queue: the lowest pending update with no completion; a      *)
(* pending file that has one is removed on the way.                        *)
Lowest(S) == CHOOSE x \in S : \A y \in S : x <= y
OpenAll == pending
Open == pending \ completed
ClearedNone(found) == {}
Cleared(found) == IF found = {} THEN pending \cap completed
                ELSE {p \in pending \cap completed : p < Lowest(found)}
NextUpdate ==
  /\ mode = "webhook" /\ worker.at = "fetch"
  /\ LET found == Open IN
       /\ found # {} \/ Cleared(found) # {}
       /\ pending' = pending \ Cleared(found)
       /\ worker' = IF found = {} THEN worker
                    ELSE [worker EXCEPT !.at = "start", !.u = Lowest(found)]
  /\ UNCHANGED <<config, sent, acked, offset, completed, timers, tracker, sched, history, faults>>

(* getUpdates: everything at or above the offset; Telegram drops the rest. *)
GetUpdates ==
  /\ mode = "polling" /\ worker.at = "fetch"
  /\ LET seen == {u \in Arrived : u >= offset} IN
       /\ seen # {}
       /\ worker' = [worker EXCEPT !.at = "take",
                       !.batch = [i \in 1 .. Cardinality(seen) |-> i + Len(sent) - Cardinality(seen)]]
       /\ acked' = Arrived \ seen
  /\ UNCHANGED <<config, sent, disk, timers, tracker, sched, history, faults>>

(* The offset is stored before the update is processed; a failed write     *)
(* ends the loop, and nothing starts it again.                             *)
Checkpoint(u) == u + 1
Take ==
  /\ worker.at = "take"
  /\ IF worker.batch = <<>>
       THEN Goto("fetch") /\ UNCHANGED offset /\ NoFault
       ELSE \/ /\ offset' = Checkpoint(Head(worker.batch)) /\ NoFault
               /\ worker' = [at |-> "start", u |-> Head(worker.batch), batch |-> Tail(worker.batch)]
            \/ Fault /\ Goto("stopped") /\ UNCHANGED offset
  /\ UNCHANGED <<config, sent, acked, pending, completed, timers, tracker, sched, history>>

(***************************************************************************)
(* processUpdate.                                                          *)
(***************************************************************************)
AfterAnswer == IF mode = "webhook" THEN "complete" ELSE "take"
AfterFailure == IF mode = "webhook" THEN "fetch" ELSE "take"

(* processUpdate returns an error: the webhook worker waits three seconds  *)
(* and asks for the next update again, polling goes on with the batch.     *)
GiveUp(u) ==
  /\ Goto(AfterFailure)
  /\ tracker' = NoTracker
  /\ served' = IF mode = "webhook" THEN [served EXCEPT ![u] = @ - 1] ELSE served
  /\ UNCHANGED <<handled, late>>

(* Foreign messages are dropped, empty ones answered at once, and a voice  *)
(* note that is disabled or out of bounds is an error.                     *)
StartUpdate ==
  /\ worker.at = "start"
  /\ LET u == worker.u IN
       /\ served' = [served EXCEPT ![u] = @ + 1]
       /\ CASE sent[u] = "foreign" ->
                 Goto(AfterAnswer) /\ handled' = handled \cup {u} /\ UNCHANGED tracker
            [] sent[u] = "empty" -> Goto("send") /\ UNCHANGED <<tracker, handled>>
            [] Spoken(u) -> Goto("voice") /\ tracker' = NewTracker("stage") /\ UNCHANGED handled
            [] OTHER -> Goto("reply") /\ tracker' = NewTracker("interaction") /\ UNCHANGED handled
  /\ UNCHANGED <<config, sent, acked, disk, timers, sched, late, faults>>

(* Up to the transcript: disabled and oversized notes are refused, the     *)
(* download may fail, and a note that cannot be understood is answered     *)
(* with an apology while the tracker is still open.                        *)
ProcessVoice ==
  /\ worker.at = "voice"
  /\ \/ /\ ~transcription \/ sent[worker.u] = "voiceBad"
        /\ GiveUp(worker.u) /\ NoFault
     \/ /\ transcription /\ sent[worker.u] # "voiceBad"
        /\ \/ Fault /\ GiveUp(worker.u)
           \/ Fault /\ Goto("send") /\ UNCHANGED <<tracker, history>>
           \/ /\ Goto("reply") /\ tracker' = NewTracker("interaction")
              /\ NoFault /\ UNCHANGED history
  /\ UNCHANGED <<config, sent, acked, disk, timers, sched>>

Active(t) == ~timers[t].canceled /\ ~timers[t].delivered
NewTimer == [expired |-> FALSE, delivered |-> FALSE, canceled |-> FALSE,
             early |-> FALSE, rings |-> 0, faults |-> 0]
CreateTimer ==
  timers' = IF Cardinality({t \in DOMAIN timers : Active(t)}) >= MaxActive
              THEN timers ELSE Append(timers, NewTimer)
CancelTimer ==
  IF \E t \in DOMAIN timers : Active(t)
    THEN \E t \in DOMAIN timers :
           /\ Active(t)
           /\ timers' = [timers EXCEPT ![t].canceled = TRUE, ![t].early = ~timers[t].expired]
    ELSE UNCHANGED timers

(* Service.reply.  Timer commands return before the interaction lifecycle  *)
(* starts; any other reply ends it with a terminal event, which closes the *)
(* tracker and waits for a progress message that is being sent, unless the *)
(* history could not be loaded.                                            *)
AfterReply == IF Spoken(worker.u) THEN "send" ELSE "close"
Reply ==
  /\ worker.at = "reply"
  /\ \/ /\ sent[worker.u] \in {"chat", "voiceChat"}
        /\ Goto("ended") /\ tracker' = [tracker EXCEPT !.closed = TRUE]
        /\ NoFault /\ UNCHANGED timers
     \/ /\ sent[worker.u] \in {"chat", "voiceChat"}
        /\ Fault /\ Goto(AfterReply) /\ UNCHANGED <<timers, tracker>>
     \/ /\ sent[worker.u] \in {"timer", "voiceTimer"}
        /\ CreateTimer /\ Goto(AfterReply) /\ NoFault /\ UNCHANGED tracker
     \/ /\ sent[worker.u] = "cancel"
        /\ CancelTimer /\ Goto(AfterReply) /\ NoFault /\ UNCHANGED tracker
  /\ UNCHANGED <<config, sent, acked, disk, sched, history>>

ReplyEnded ==
  /\ worker.at = "ended" /\ ~tracker.emitting
  /\ Goto(AfterReply)
  /\ UNCHANGED <<config, sent, acked, disk, timers, tracker, sched, history, faults>>

(* Close of a text message's tracker: stop the timer, then wait for a      *)
(* progress message on its way.                                            *)
CloseTracker ==
  /\ worker.at = "close"
  /\ Goto("closing")
  /\ tracker' = [tracker EXCEPT !.closed = TRUE]
  /\ UNCHANGED <<config, sent, acked, disk, timers, sched, history, faults>>
DrainedAtOnce == TRUE
Drained == ~tracker.emitting
TrackerClosed ==
  /\ worker.at = "closing" /\ Drained
  /\ Goto("send")
  /\ UNCHANGED <<config, sent, acked, disk, timers, tracker, sched, history, faults>>

(* The answer reaches the chat; the deferred Close of a voice note's       *)
(* tracker follows it.                                                     *)
SendAnswer ==
  /\ worker.at = "send"
  /\ \/ /\ Goto("sent") /\ handled' = handled \cup {worker.u}
        /\ NoFault /\ UNCHANGED <<tracker, served, late>>
     \/ Fault /\ GiveUp(worker.u)
  /\ UNCHANGED <<config, sent, acked, disk, timers, sched>>
Return ==
  /\ worker.at = "sent" /\ ~tracker.emitting
  /\ Goto(AfterAnswer) /\ tracker' = NoTracker
  /\ UNCHANGED <<config, sent, acked, disk, timers, sched, history, faults>>

(* Complete: the completion is durable before the pending file goes.       *)
Complete ==
  /\ worker.at = "complete"
  /\ \/ /\ completed' = completed \cup {worker.u} /\ Goto("remove")
        /\ NoFault /\ UNCHANGED history
     \/ /\ Fault /\ Goto("fetch")
        /\ served' = [served EXCEPT ![worker.u] = @ - 1]
        /\ UNCHANGED <<completed, handled, late>>
  /\ UNCHANGED <<config, sent, acked, offset, pending, timers, tracker, sched>>
RemovePending ==
  /\ worker.at = "remove"
  /\ \/ pending' = pending \ {worker.u} /\ NoFault
     \/ Fault /\ UNCHANGED pending
  /\ Goto("fetch")
  /\ UNCHANGED <<config, sent, acked, offset, completed, timers, tracker, sched, history>>

(***************************************************************************)
(* The tracker's own timer.                                                *)
(***************************************************************************)
(* sendDelayed: a stage tracker sends under its mutex, an interaction      *)
(* tracker marks the message as sent, unlocks and sends.                   *)
ProgressArrives ==
  late' = IF worker.at = "sent" THEN late \cup {worker.u} ELSE late
SendDelayed ==
  /\ ~tracker.closed /\ ~tracker.sent
  /\ IF tracker.kind = "stage"
       THEN ProgressArrives /\ tracker' = [tracker EXCEPT !.sent = TRUE]
       ELSE tracker' = [tracker EXCEPT !.sent = TRUE, !.emitting = TRUE] /\ UNCHANGED late
  /\ UNCHANGED <<config, sent, acked, disk, timers, worker, sched, served, handled, faults>>
EmitDelayed ==
  /\ tracker.emitting
  /\ ProgressArrives /\ tracker' = [tracker EXCEPT !.emitting = FALSE]
  /\ UNCHANGED <<config, sent, acked, disk, timers, worker, sched, served, handled, faults>>

(***************************************************************************)
(* Countdown timers.                                                       *)
(***************************************************************************)
TimerExpires(t) ==
  /\ ~timers[t].expired
  /\ timers' = [timers EXCEPT ![t].expired = TRUE]
  /\ UNCHANGED <<config, sent, acked, disk, worker, tracker, sched, history, faults>>

IsDueCanceledToo(t) == ~timers[t].delivered /\ timers[t].expired
IsDue(t) == Active(t) /\ timers[t].expired
DueTimers ==
  /\ sched.at = "idle"
  /\ \E t \in DOMAIN timers : IsDue(t)
  /\ sched' = [at |-> "ring", due |-> {t \in DOMAIN timers : IsDue(t)}]
  /\ UNCHANGED <<config, sent, acked, disk, timers, worker, tracker, history, faults>>

(* The listing is worked off in the order of timers.json.                  *)
Ringing == Lowest(sched.due)
Skip == IF sched.due = {Ringing} THEN Stopped
        ELSE [at |-> "ring", due |-> sched.due \ {Ringing}]

(* deliverDueTimers works from its listing: a timer cancelled since is     *)
(* still announced.                                                        *)
Ring ==
  /\ sched.at = "ring"
  /\ \/ /\ timers' = [timers EXCEPT ![Ringing].rings = @ + 1]
        /\ sched' = [sched EXCEPT !.at = "mark"] /\ NoFault
     \/ Fault /\ sched' = Skip /\ UNCHANGED timers
  /\ UNCHANGED <<config, sent, acked, disk, worker, tracker, history>>
MarkTimerDelivered ==
  /\ sched.at = "mark"
  /\ LET t == Ringing IN
       \/ /\ timers' = IF timers[t].canceled THEN timers
                       ELSE [timers EXCEPT ![t].delivered = TRUE]
          /\ NoFault
       \/ Fault /\ timers' = [timers EXCEPT ![t].faults = @ + 1]
  /\ sched' = Skip
  /\ UNCHANGED <<config, sent, acked, disk, worker, tracker, history>>

(* The process dies and is started again: the files stay.                  *)
Unfinished == {"voice", "reply", "ended", "close", "closing", "send", "sent", "complete"}
Crash ==
  /\ worker.at # "boot" /\ Fault
  /\ worker' = Booting /\ tracker' = NoTracker
  /\ sched' = Unstarted
  /\ served' = IF mode = "webhook" /\ worker.at \in Unfinished
                 THEN [served EXCEPT ![worker.u] = @ - 1] ELSE served
  /\ timers' = IF sched.at = "mark" THEN [timers EXCEPT ![Ringing].faults = @ + 1]
               ELSE timers
  /\ UNCHANGED <<config, sent, acked, disk, handled, late>>

Process == StartUpdate \/ ProcessVoice \/ Reply \/ ReplyEnded \/ CloseTracker
           \/ TrackerClosed \/ SendAnswer \/ Return \/ Complete \/ RemovePending
Worker == Boot \/ NextUpdate \/ GetUpdates \/ Take \/ Process
Scheduler == DueTimers \/ Ring \/ MarkTimerDelivered

Next == \/ \E kind \in Messages : Send(kind)
        \/ \E u \in Updates : ServeHTTP(u)
        \/ Worker
        \/ SendDelayed \/ EmitDelayed
        \/ \E t \in DOMAIN timers : TimerExpires(t)
        \/ Scheduler
        \/ Crash

Spec == Init /\ [][Next]_vars

(* The worker, the scheduler and an emission under way are goroutines that *)
(* never stop by themselves, a countdown ends, and Telegram repeats a      *)
(* webhook call until it is accepted.  Faults and progress messages may    *)
(* never happen.                                                           *)
FairSpec == /\ Spec /\ WF_vars(Worker) /\ WF_vars(EmitDelayed) /\ WF_vars(Scheduler)
            /\ \A u \in Updates : WF_vars(ServeHTTP(u))
            /\ WF_vars(\E t \in DOMAIN timers : TimerExpires(t))

(***************************************************************************)
(* Properties.                                                             *)
(***************************************************************************)
Places == {"boot", "fetch", "take", "start", "complete", "remove", "stopped"} \cup Unfinished

TimerType == [expired : BOOLEAN, delivered : BOOLEAN, canceled : BOOLEAN,
              early : BOOLEAN, rings : Nat, faults : Nat]

(* The types; updates at work have arrived, a pass of the scheduler has a  *)
(* timer to ring, and only an interaction tracker sends outside its mutex. *)
TypeOK ==
  /\ mode \in Modes /\ transcription \in Transcription
  /\ sent \in Seq(Messages) /\ Len(sent) <= MaxUpdates
  /\ acked \subseteq Arrived /\ pending \subseteq Arrived /\ completed \subseteq Arrived
  /\ Cardinality(pending) <= MaxPending
  /\ offset \in 0 .. Len(sent) + 1
  /\ worker \in [at : Places, u : Nat, batch : Seq(Nat)]
  /\ worker.at \in Unfinished \cup {"start", "remove"} => worker.u \in Arrived
  /\ \A i \in DOMAIN worker.batch : worker.batch[i] \in Arrived
  /\ timers \in Seq(TimerType)
  /\ sched \in [at : {"off", "idle", "ring", "mark"}, due : SUBSET DOMAIN timers]
  /\ (sched.at \in {"ring", "mark"}) = (sched.due # {})
  /\ tracker \in [kind : {"none", "stage", "interaction"}, closed : BOOLEAN, sent : BOOLEAN, emitting : BOOLEAN]
  /\ tracker.emitting => tracker.sent /\ tracker.kind = "interaction"
  /\ tracker.kind = "none" => tracker.closed
  /\ served \in [Updates -> Int] /\ handled \subseteq Arrived /\ late \subseteq Arrived
  /\ faults \in 0 .. MaxFaults

(* An update the webhook answered 200 for is still pending unless          *)
(* processUpdate returned nil for it, whatever crashed, filled up or could *)
(* not be written since (ServeHTTP acknowledges only what Enqueue stored,  *)
(* and the worker completes only what it answered).                        *)
AcknowledgedIsHandled ==
  mode = "webhook" => \A u \in acked : u \in pending \cup handled

(* A repeated delivery is acknowledged without a second inference: an      *)
(* update is processed again only after an attempt that failed or was cut  *)
(* short, and in polling mode, where the offset is stored first, never.    *)
NoNeedlessReplay == \A u \in Updates : served[u] <= 1

(* The answer to a text message is the last thing its processing sends: no *)
(* "still working" message of its tracker's timer arrives after it (Close  *)
(* waits for an emission under way).  A voice note gives no such promise.  *)
TextAnswerIsLast == \A u \in late : Spoken(u)

(* A timer cancelled before it ran out never rings, and a timer rings once *)
(* more only if the previous ring could not be recorded as delivered.      *)
TimersRingOnce ==
  \A t \in DOMAIN timers :
    /\ timers[t].early => timers[t].rings = 0
    /\ timers[t].rings <= 1 + timers[t].faults

(* Refused for good: the worker gets an error each time it tries.          *)
Refused(u) == sent[u] = "voiceBad" \/ (Spoken(u) /\ ~transcription)

(* Every update Telegram holds is answered in the end, through a full      *)
(* queue, lost acknowledgements, failed sends and restarts, unless some    *)
(* voice note can never be processed.                                      *)
SentIsAnswered ==
  \A u \in Updates :
    mode = "webhook" /\ u \in Arrived ~> u \in handled \/ \E v \in Arrived : Refused(v)

(* The voice switch of the configuration leaves text messages alone.       *)
TextSurvivesVoiceSwitch ==
  \A u \in Updates :
    u \in Arrived /\ sent[u] = "chat" ~> u \in handled

Settled(t) == timers[t].rings > 0 \/ timers[t].canceled
(* While polling goes on, every timer rings unless it is cancelled.        *)
PolledTimerRings ==
  \A t \in Updates :
    mode = "polling" /\ t \in DOMAIN timers ~>
      (t \in DOMAIN timers /\ Settled(t)) \/ worker.at = "stopped"

(* A timer sends its message when it expires.                              *)
TimerRings ==
  \A t \in Updates :
    t \in DOMAIN timers ~> t \in DOMAIN timers /\ Settled(t)
============================================================================
