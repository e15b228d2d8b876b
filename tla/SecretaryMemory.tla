-------------------------- MODULE SecretaryMemory --------------------------
(***************************************************************************)
(* What the secretary remembers and uses: Service.reply with its routing   *)
(* (service.go, intent.go), the short history of each conversation, cached *)
(* and on disk, the durable memory (memory.go) and the learning store with *)
(* its traces, feedback and reviewed knowledge (learning_store.go,         *)
(* learning_feedback.go, knowledge.go).                                    *)
(*                                                                         *)
(* There is one operator, as Open WebUI requires; Telegram and Open WebUI  *)
(* conversations share the service's mutex, so replies never overlap, but  *)
(* the process may die between two writes of one.  A question is the set   *)
(* of features the routing tells apart and a topic standing for its search *)
(* terms.  A file is the set of its records, which carry the number of     *)
(* their writing: the order of a file is the order of those numbers.       *)
(***************************************************************************)
EXTENDS Integers, FiniteSets

CONSTANTS
  Conversations,      \* channel and conversation of the operator
  Questions,          \* questions the operator may ask, of QuestionType
  CommandText,        \* the text of a read command, as a question
  Topics,             \* search terms
  Registered,         \* read capabilities, of {"Granola", "Jira", "web"}
  MaxPairs,           \* exchanges of history kept
  MaxChars,           \* characters of history kept
  HistoryWindow,      \* age at which a turn of the history expires
  MemoryWindow,       \* days a recall without a date looks back
  MemoryLimit,        \* memoryResultLimit
  KnowledgeLimit,     \* approvedKnowledgeLimit
  TraceWindow,        \* retention of traces and feedback
  CandidateWindow,    \* retention of unreviewed candidates
  MaxClock, MaxExchanges, MaxItems, MaxFaults   \* bounds

(* recall: no mention of an earlier conversation, one with a date, a bare  *)
(* one ("que hablamos"), or one of what was said.  work: an action, a      *)
(* decision or a summary is asked for.  only / excluded: sources the       *)
(* question insists on or rules out.  prior: "that meeting".               *)
QuestionType ==
  [topic : Topics, recall : {"no", "dated", "bare", "told"}, granola : BOOLEAN,
   meeting : BOOLEAN, work : BOOLEAN, task : BOOLEAN, plan : BOOLEAN, jira : BOOLEAN,
   url : BOOLEAN, only : {"", "Granola", "Jira"}, excluded : SUBSET {"Granola", "Jira"},
   prior : BOOLEAN, action : BOOLEAN, size : Nat]

ASSUME MemoryAssumption ==
  /\ \A q \in Questions \cup {CommandText} : q \in QuestionType /\ (q.granola => q.meeting)
  /\ Registered \subseteq {"Granola", "Jira", "web"}
  /\ \A n \in {MaxPairs, MaxChars, HistoryWindow, MemoryWindow, MemoryLimit, KnowledgeLimit,
               TraceWindow, CandidateWindow, MaxClock, MaxExchanges, MaxItems, MaxFaults} :
       n \in Nat

VARIABLES
  clock,
  file,       \* history files, one per conversation
  cache,      \* s.history; NotLoaded until a conversation is used
  memory,     \* the daily JSONL files
  traces, feedback, knowledge,    \* the learning store; feedback by the trace it is about
  job,        \* the reply in progress
  prompt,     \* what the model was given in this reply
  asked, items,                   \* exchanges and knowledge items so far
  forgotten,  \* history: exchanges and items before the last successful /forget
  reviews,    \* history: the reviews stored, of items whose records are kept
  torn,       \* history: the history files went, and not the cache, in a /forget
  faults

learning == <<traces, feedback, knowledge>>
ghosts == <<forgotten, reviews, torn>>
vars == <<clock, file, cache, memory, learning, job, prompt, asked, items, ghosts, faults>>

NotLoaded == [loaded |-> FALSE, turns |-> {}]
Holding(turns) == [loaded |-> TRUE, turns |-> turns]
Idle == [at |-> "idle"]
NoPrompt == [id |-> 0, history |-> {}, memories |-> {}, knowledge |-> {}, expired |-> FALSE]

Init ==
  /\ clock = 0
  /\ file = [c \in Conversations |-> {}] /\ cache = [c \in Conversations |-> NotLoaded]
  /\ memory = {} /\ traces = {} /\ feedback = {} /\ knowledge = {}
  /\ job = Idle /\ prompt = NoPrompt /\ asked = 0 /\ items = 0
  /\ forgotten = [exchange |-> 0, item |-> 0] /\ reviews = {} /\ torn = FALSE
  /\ faults = 0

Fault == faults < MaxFaults /\ faults' = faults + 1
Ids(records) == {r.id : r \in records}
Latest(records) == CHOOSE r \in records : \A s \in records : s.id <= r.id

(***************************************************************************)
(* Routing.                                                                *)
(***************************************************************************)
LocalIntent(q) ==
  CASE q.recall = "dated" \/ (q.recall = "bare" /\ ~q.meeting) -> "memory"
    [] OTHER ->
         CASE q.granola \/ (q.meeting /\ q.work) -> "tool"
           [] OTHER -> IF q.recall = "told" THEN "memory"
                       ELSE IF q.meeting \/ q.task THEN "ambiguous" ELSE "general"

JiraTaskIntent(q) == q.jira \/ q.task \/ q.plan
AboutMeeting(q) == LocalIntent(q) = "tool" /\ q.meeting
ExplicitMeetingAnchor(q) == ~q.prior /\ (q.granola \/ (q.meeting /\ q.work))

Matches(name, q) ==
  CASE name = "Granola" -> AboutMeeting(q)
    [] name = "Jira"    -> JiraTaskIntent(q)
    [] name = "web"     -> q.url /\ LocalIntent(q) # "memory"

(* The newest question of the history that names a meeting.                *)
Anchors(turns) == {t \in turns : ExplicitMeetingAnchor(t.q)}
LooksBack(q) == JiraTaskIntent(q) /\ "Jira" \notin q.excluded /\ ~q.jira
                /\ (q.prior \/ ~AboutMeeting(q))

MatchedIgnoringWishes(q, earlier) ==
  {n \in Registered : \E r \in {q} \cup earlier : Matches(n, r)}
Matched(q, earlier) ==
  {n \in Registered \ q.excluded : \E r \in {q} \cup earlier : Matches(n, r)}

(* capabilitiesFor: a shared link first, then the only source asked for;   *)
(* a task question about a meeting needs both sources, any other exactly   *)
(* one.                                                                    *)
CapabilitiesFor(q, turns) ==
  LET tasks   == JiraTaskIntent(q) /\ "Jira" \notin q.excluded
      earlier == IF LooksBack(q) /\ Anchors(turns) # {}
                   THEN {Latest(Anchors(turns)).q} ELSE {}
      found   == Matched(q, earlier)
      others  == Registered \ {"web"}
  IN  CASE q.url /\ LocalIntent(q) # "memory" /\ "web" \in Registered -> {"web"}
        [] ~(q.url /\ LocalIntent(q) # "memory" /\ "web" \in Registered) /\ q.only # "" ->
             {n \in {q.only} \cap Registered : Matches(n, q)}
        [] OTHER ->
             IF tasks /\ (AboutMeeting(q) \/ earlier # {})
               THEN IF Cardinality(found) > 1 THEN found ELSE {}
               ELSE IF found # {}
                      THEN IF Cardinality(found) = 1 THEN found ELSE {}
                      ELSE IF Cardinality(others) = 1 /\ LocalIntent(q) = "tool"
                             THEN others ELSE {}

(* The model's classification, for a question the words leave ambiguous;   *)
(* whatever it says beside the four words asks for clarification, like an  *)
(* error of the call.                                                      *)
ParseIntentResponse(said) ==
  CASE said \in {"tool", "granola"}   -> "tool"
    [] said \in {"memory", "general"} -> said
    [] OTHER                          -> "clarify"
Verdicts == {ParseIntentResponse(said) : said \in {"tool", "granola", "memory", "general", "clarify", "other", "error"}}
Route(q, turns, verdict) ==
  LET sources == CapabilitiesFor(q, turns)
      others  == Registered \ {"web"}
      local   == LocalIntent(q)
  IN  CASE sources # {} -> [intent |-> "tool", sources |-> sources]
        [] sources = {} /\ local # "ambiguous" -> [intent |-> local, sources |-> {}]
        [] OTHER -> IF verdict # "tool" THEN [intent |-> verdict, sources |-> {}]
                    ELSE IF Cardinality(others) = 1
                           THEN [intent |-> "tool", sources |-> others]
                           ELSE [intent |-> "clarify", sources |-> {}]

(***************************************************************************)
(* What a reply may use.                                                   *)
(***************************************************************************)
Expired(t) == t.at < clock - HistoryWindow
Young(turns) == {t \in turns : ~Expired(t)}
Since(t, turns) == {u \in turns : t.id <= u.id}
Characters(turns) == UNION {{<<t.id, n>> : n \in 1 .. t.q.size} : t \in turns}
Fits(turns) == Cardinality(turns) <= MaxPairs /\ Cardinality(Characters(turns)) <= MaxChars
(* boundedAt: the newest exchanges that are young enough and fit.          *)
BoundedAt(turns) == {t \in Young(turns) : Fits(Since(t, Young(turns)))}

Loaded(c) == IF cache[c].loaded THEN cache[c].turns ELSE BoundedAt(file[c])

(* The n newest of a set of records.                                       *)
Newest(n, records) == {r \in records : Cardinality({s \in records : r.id < s.id}) < n}

RelevantMemories(q, recall) ==
  LET found == {m \in memory : m.at >= clock - MemoryWindow /\ (m.q.topic = q.topic \/ recall)}
  IN  Ids(Newest(MemoryLimit, found))

Records(k) == {r \in knowledge : r.item = k}
Items == {r.item : r \in knowledge}
(* ListKnowledge: the last record of an item decides.                      *)
ListAnyRecord(status) == {k \in Items : \E r \in Records(k) : r.status = status}
ListKnowledge(status) == {k \in Items : Latest(Records(k)).status = status}

RelevantKnowledge(q) ==
  LET found == {r \in {Latest(Records(k)) : k \in ListKnowledge("approved")} : r.topic = q.topic}
  IN  {r.item : r \in Newest(KnowledgeLimit, found)}

(***************************************************************************)
(* Service.reply.                                                          *)
(***************************************************************************)
(* How the sources answer decides the ending: with no success, a failure   *)
(* blocks the reply and an empty result completes it.                      *)
SourcesBlock(reads) == (\A n \in DOMAIN reads : reads[n] # "ok")
                       /\ \E n \in DOMAIN reads : reads[n] = "error"
Succeeded(reads) == \E n \in DOMAIN reads : reads[n] = "ok"

Exchange(c, q) == [id |-> asked + 1, conv |-> c, q |-> q, at |-> clock]
Answering(c, q, at, sources, event, error) ==
  [at |-> at, x |-> Exchange(c, q), sources |-> sources, event |-> event, error |-> error,
   traced |-> TRUE]

(* answerWithContext: the turns of the call to the model.                  *)
Prompt(turns, memories, known) ==
  [id |-> asked + 1, history |-> Ids(turns), memories |-> memories, knowledge |-> known,
   expired |-> \E t \in turns : Expired(t)]

(* The reply's work up to the first write: load the history, route, read   *)
(* the sources, retrieve memory and knowledge, call the model.             *)
Ask(c, q) ==
  /\ job = Idle /\ asked < MaxExchanges
  /\ asked' = asked + 1
  /\ cache' = [cache EXCEPT ![c] = Holding(Loaded(c))]
  /\ \E verdict \in Verdicts :
       LET route    == Route(q, Loaded(c), verdict)
           memories == IF route.intent = "tool" THEN {}
                       ELSE RelevantMemories(q, route.intent = "memory")
           known    == RelevantKnowledge(q)
           Begun(at, event, error) ==
             job' = Answering(c, q, at, route.sources, event, error)
           Model(turns, mem, answered) ==
             /\ prompt' = Prompt(turns, mem, known)
             /\ Begun(IF answered THEN "memory" ELSE "end", "none", ~answered)
       IN  CASE q.action /\ route.sources = {} ->
                  Begun("end", "blocked", FALSE) /\ UNCHANGED prompt
             [] ~(q.action /\ route.sources = {}) /\ route.intent = "tool" ->
                  \E reads \in [route.sources -> {"ok", "empty", "error"}] :
                    IF route.sources = {} THEN Begun("memory", "blocked", FALSE) /\ UNCHANGED prompt
                    ELSE IF Succeeded(reads)
                           THEN \E answered \in BOOLEAN :
                                  Model({}, {}, answered)
                           ELSE /\ Begun("memory", IF SourcesBlock(reads) THEN "blocked" ELSE "none", FALSE)
                                /\ UNCHANGED prompt
             [] ~(q.action /\ route.sources = {}) /\ route.intent = "memory" ->
                  IF memories \cup known = {}
                    THEN Begun("memory", "none", FALSE) /\ UNCHANGED prompt
                    ELSE \E answered \in BOOLEAN : Model({}, memories, answered)
             [] ~(q.action /\ route.sources = {}) /\ route.intent = "clarify" ->
                  Begun("memory", "none", FALSE) /\ UNCHANGED prompt
             [] OTHER ->
                  \E answered \in BOOLEAN : Model(Loaded(c), memories, answered)
  /\ UNCHANGED <<clock, file, memory, learning, items, ghosts, faults>>

(* The history file, the memory files or the learning store cannot be      *)
(* read: the reply ends there with an error, before any model call.        *)
AskFails(c, q) ==
  /\ job = Idle /\ asked < MaxExchanges /\ Fault
  /\ asked' = asked + 1
  /\ \/ ~cache[c].loaded /\ UNCHANGED cache
     \/ cache' = [cache EXCEPT ![c] = Holding(Loaded(c))]
  /\ job' = Answering(c, q, "end", {}, "none", TRUE)
  /\ UNCHANGED <<clock, file, memory, learning, prompt, items, ghosts>>

(* /jira, /reuniones and /resumen: remembered, but with neither a trace    *)
(* nor interaction events, unless the history cannot be loaded or the      *)
(* source or the model called for it fails.                                *)
Reading(c, failed) ==
  [at |-> IF failed THEN "end" ELSE "memory", x |-> Exchange(c, CommandText), sources |-> {},
   event |-> "none", error |-> failed, traced |-> FALSE]

ReadCommand(c) ==
  /\ job = Idle /\ asked < MaxExchanges
  /\ asked' = asked + 1
  /\ \/ /\ Fault /\ ~cache[c].loaded
        /\ job' = Reading(c, TRUE) /\ UNCHANGED cache
     \/ /\ \E failed \in BOOLEAN : job' = Reading(c, failed)
        /\ cache' = [cache EXCEPT ![c] = Holding(Loaded(c))] /\ UNCHANGED faults
  /\ UNCHANGED <<clock, file, memory, learning, prompt, items, ghosts>>

(* remember: the durable memory first, then the history file, and only     *)
(* then the cache.  An append that fails may have left its record (Sync).  *)
AppendMemory ==
  /\ job.at = "memory"
  /\ \/ /\ memory' = memory \cup {job.x}
        /\ job' = [job EXCEPT !.at = "history"] /\ UNCHANGED faults
     \/ /\ Fault /\ job' = [job EXCEPT !.at = "end", !.error = TRUE]
        /\ memory' \in {memory, memory \cup {job.x}}
  /\ UNCHANGED <<clock, file, cache, learning, prompt, asked, items, ghosts>>

WriteHistoryCacheFirst ==
  /\ job.at = "history"
  /\ LET c == job.x.conv
         turns == BoundedAt(cache[c].turns \cup {[job.x EXCEPT !.at = clock]}) IN
       /\ cache' = [cache EXCEPT ![c] = Holding(turns)]
       /\ \/ /\ file' = [file EXCEPT ![c] = turns]
             /\ job' = [job EXCEPT !.at = "end"] /\ UNCHANGED faults
          \/ Fault /\ job' = [job EXCEPT !.at = "end", !.error = TRUE] /\ UNCHANGED file
  /\ UNCHANGED <<clock, memory, learning, prompt, asked, items, ghosts>>

WriteHistory ==
  /\ job.at = "history"
  /\ LET c == job.x.conv
         turns == BoundedAt(cache[c].turns \cup {[job.x EXCEPT !.at = clock]}) IN
       \/ /\ file' = [file EXCEPT ![c] = turns] /\ cache' = [cache EXCEPT ![c] = Holding(turns)]
          /\ job' = [job EXCEPT !.at = "end"] /\ UNCHANGED faults
       \/ Fault /\ job' = [job EXCEPT !.at = "end", !.error = TRUE] /\ UNCHANGED <<file, cache>>
  /\ UNCHANGED <<clock, memory, learning, prompt, asked, items, ghosts>>

(* The deferred functions: a terminal event unless one was emitted, then   *)
(* the trace; a trace that cannot be written only counts as a metric.      *)
TerminalAlways == IF job.event = "blocked" THEN "blocked" ELSE "completed"
Terminal == IF job.event = "blocked" \/ job.error THEN "blocked" ELSE "completed"
EndReply ==
  /\ job.at = "end"
  /\ \/ /\ traces' = IF job.traced THEN traces \cup {[id |-> job.x.id, conv |-> job.x.conv, at |-> job.x.at]}
                     ELSE traces
        /\ UNCHANGED faults
     \/ job.traced /\ Fault /\ UNCHANGED traces
  /\ job' = Idle /\ prompt' = NoPrompt
  /\ UNCHANGED <<clock, file, cache, memory, feedback, knowledge, asked, items, ghosts>>

(***************************************************************************)
(* Commands, each under the mutex.                                         *)
(***************************************************************************)
(* /new *)
NewConversation(c) ==
  /\ job = Idle
  /\ file' = [file EXCEPT ![c] = {}] /\ cache' = [cache EXCEPT ![c] = NotLoaded]
  /\ UNCHANGED <<clock, memory, learning, job, prompt, asked, items, ghosts, faults>>

ClearCacheOf(c) == [cache EXCEPT ![c] = NotLoaded]
ClearCache(c) == [d \in Conversations |-> NotLoaded]

(* Records are kept in a file per day, and a removal that fails leaves the *)
(* files it did not come to.  What feedback is about may be of any day.    *)
OfDays(records, days) == {r \in records : r.at \in days}

(* JSONLLearningStore.Forget, failing in the class it has come to.  The    *)
(* records of an item are in one file (SaveKnowledge: CreatedAt).          *)
ForgetLearningFails(days) ==
  \/ traces' = OfDays(traces, days) /\ UNCHANGED <<feedback, knowledge, reviews>>
  \/ traces' = {} /\ feedback' \in SUBSET feedback /\ UNCHANGED <<knowledge, reviews>>
  \/ /\ traces' = {} /\ feedback' = {} /\ knowledge' = OfDays(knowledge, days)
     /\ reviews' = {v \in reviews : \E r \in knowledge' : r.item = v.item}

(* /forget, sent from conversation c: the archive, the history files, the  *)
(* cache and the learning store, in this order; any removal may fail, and  *)
(* then the operator is told so.  A process that dies within it is one     *)
(* removal that fails and a restart.                                       *)
Forget(c) ==
  /\ job = Idle
  /\ \/ /\ Fault /\ \E days \in SUBSET (0 .. MaxClock) : memory' = OfDays(memory, days)
        /\ UNCHANGED <<file, cache, learning, ghosts>>
     \/ /\ memory' = {} /\ Fault /\ torn' = TRUE
        /\ \E gone \in SUBSET Conversations :
             file' = [d \in Conversations |-> IF d \in gone THEN {} ELSE file[d]]
        /\ UNCHANGED <<cache, learning, forgotten, reviews>>
     \/ /\ memory' = {} /\ file' = [d \in Conversations |-> {}] /\ cache' = ClearCache(c)
        /\ torn' = FALSE
        /\ \/ /\ traces' = {} /\ feedback' = {} /\ knowledge' = {}
              /\ forgotten' = [exchange |-> asked, item |-> items] /\ UNCHANGED <<reviews, faults>>
           \/ /\ Fault /\ \E days \in SUBSET (0 .. MaxClock) : ForgetLearningFails(days)
              /\ UNCHANGED forgotten
  /\ UNCHANGED <<clock, job, prompt, asked, items>>

(* LastTrace of the conversation the feedback comes from.                  *)
TracesOf(c) == {t \in traces : t.conv = c}

(* append: the place of the next record of the learning store.             *)
NextRecord == IF knowledge = {} THEN 1 ELSE Latest(knowledge).id + 1

(* /feedback: the mark is stored first, then the candidate of a            *)
(* correction, which may fail by itself.  A write that fails stores        *)
(* nothing, or a record that counts like any other (Sync).                 *)
SubmitFeedback(c, topic) ==
  /\ job = Idle /\ TracesOf(c) # {}
  /\ feedback' = feedback \cup {Latest(TracesOf(c)).id}
  /\ \/ UNCHANGED <<knowledge, items, faults>>
     \/ /\ items < MaxItems /\ items' = items + 1
        /\ knowledge' = knowledge \cup {[id |-> NextRecord, item |-> items + 1,
                                         status |-> "candidate", topic |-> topic, at |-> clock]}
        /\ UNCHANGED faults
  /\ UNCHANGED <<clock, file, cache, memory, traces, job, prompt, asked, ghosts>>

(* /aprueba and /descarta: a new record of a pending candidate; one whose  *)
(* write fails after storing it decides too.                               *)
ReviewKnowledge(k, status) ==
  /\ job = Idle /\ k \in ListKnowledge("candidate")
  /\ knowledge' = knowledge \cup {[Latest(Records(k)) EXCEPT !.id = NextRecord, !.status = status]}
  /\ reviews' = reviews \cup {[item |-> k, status |-> status]}
  /\ UNCHANGED <<clock, file, cache, memory, traces, feedback, job, prompt, asked, items,
                 forgotten, torn, faults>>

(* learningCommand; /aprendizaje only lists the candidates.                *)
LearningCommand(c) ==
  \/ \E t \in Topics : SubmitFeedback(c, t)
  \/ \E k \in 1 .. MaxItems, status \in {"approved", "rejected"} : ReviewKnowledge(k, status)

(***************************************************************************)
(* Maintenance, time and restarts.                                         *)
(***************************************************************************)
Keeps(r) == r.status = "candidate" => r.at >= clock - CandidateWindow

(* pruneLearningFiles over the traces.                                     *)
YoungTraces == {t \in traces : t.at >= clock - TraceWindow}

(* Prune takes only the learning store's own mutex: it may run in the      *)
(* middle of a reply.  A file that cannot be rewritten ends it there.      *)
Prune ==
  /\ LET kept == YoungTraces
     IN  /\ traces' = kept
         /\ \/ /\ feedback' = feedback \cap Ids(kept)
               /\ knowledge' = {r \in knowledge : Keeps(r)} /\ UNCHANGED faults
            \/ /\ Fault /\ feedback' \in {feedback, feedback \cap Ids(kept)}
               /\ UNCHANGED knowledge
  /\ UNCHANGED <<clock, file, cache, memory, job, prompt, asked, items, ghosts>>

Tick ==
  /\ clock < MaxClock /\ clock' = clock + 1
  /\ UNCHANGED <<file, cache, memory, learning, job, prompt, asked, items, ghosts, faults>>

Restart ==
  /\ Fault
  /\ cache' = [c \in Conversations |-> NotLoaded] /\ job' = Idle /\ prompt' = NoPrompt
  /\ torn' = FALSE
  /\ UNCHANGED <<clock, file, memory, learning, asked, items, forgotten, reviews>>

Next ==
  \/ \E c \in Conversations, q \in Questions : Ask(c, q) \/ AskFails(c, q)
  \/ \E c \in Conversations : ReadCommand(c)
  \/ AppendMemory \/ WriteHistory \/ EndReply
  \/ \E c \in Conversations : NewConversation(c) \/ Forget(c)
  \/ \E c \in Conversations : LearningCommand(c)
  \/ Prune \/ Tick \/ Restart

Spec == Init /\ [][Next]_vars

(***************************************************************************)
(* Properties.                                                             *)
(***************************************************************************)
ExchangeType == [id : Nat, conv : Conversations, q : QuestionType, at : Nat]
JobType == [at : {"memory", "history", "end"}, x : ExchangeType, sources : SUBSET Registered,
            event : {"none", "blocked"}, error : BOOLEAN, traced : BOOLEAN]

TypeOK ==
  /\ clock \in 0 .. MaxClock /\ asked \in 0 .. MaxExchanges /\ items \in 0 .. MaxItems
  /\ file \in [Conversations -> SUBSET ExchangeType]
  /\ cache \in [Conversations -> [loaded : BOOLEAN, turns : SUBSET ExchangeType]]
  /\ \A c \in Conversations : \A t \in file[c] \cup cache[c].turns : t.conv = c
  /\ memory \subseteq ExchangeType
  /\ traces \subseteq [id : Nat, conv : Conversations, at : Nat] /\ feedback \subseteq Nat
  /\ knowledge \subseteq [id : Nat, item : Nat, status : {"candidate", "approved", "rejected"},
                          topic : Topics, at : Nat]
  /\ job \in {Idle} \cup JobType
  /\ (job = Idle => prompt = NoPrompt)
  /\ prompt \in [id : Nat, history : SUBSET Nat, memories : SUBSET Nat, knowledge : SUBSET Nat,
                 expired : BOOLEAN]
  /\ forgotten \in [exchange : 0 .. asked, item : 0 .. items] /\ torn \in BOOLEAN
  /\ reviews \subseteq [item : Nat, status : {"approved", "rejected"}]
  /\ faults \in 0 .. MaxFaults

(* Once the operator was told that /forget succeeded, no model call, in    *)
(* any channel, is given an exchange or a fact from before it: not from    *)
(* the cache of another conversation, the archive or the learning store    *)
(* (Service.forget).                                                       *)
ForgottenIsNeverUsed ==
  [][prompt' # prompt =>
       /\ \A x \in prompt'.history \cup prompt'.memories : x > forgotten.exchange
       /\ \A k \in prompt'.knowledge : k > forgotten.item]_vars

(* A correction reaches the model only if the operator approved it and     *)
(* never if it was discarded, and what was approved stays in use until a   *)
(* /forget removes its file, whether or not it then fails, and however old *)
(* its candidate is (ListKnowledge takes the last record, Prune drops      *)
(* candidates only).                                                       *)
ReviewDecides ==
  /\ \A k \in prompt.knowledge :
       [item |-> k, status |-> "approved"] \in reviews /\ [item |-> k, status |-> "rejected"] \notin reviews
  /\ \A r \in reviews :
       r.status = "approved" /\ r.item > forgotten.item => r.item \in ListKnowledge("approved")

(* The operator sees a reply complete only if it returned no error and its *)
(* exchange is in the archive (reply's deferred terminal event comes after *)
(* remember).                                                              *)
EndingIsTruthful ==
  [][EndReply /\ job.traced /\ Terminal = "completed" =>
       ~job.error /\ job.x.id \in Ids(memory)]_vars

(* The cached history of a conversation is what a restart would load,      *)
(* apart from turns that have expired since, whatever write failed         *)
(* (remember updates the cache last).  Not so after a /forget that failed  *)
(* on a history file (torn): it has removed files and returned before it   *)
(* cleared the cache, until the next one gets past them or a restart.      *)
CacheIsDurable ==
  \A c \in Conversations :
    cache[c].loaded /\ ~torn =>
      cache[c].turns \subseteq file[c] /\ \A t \in file[c] \ cache[c].turns : Expired(t)

(* No source is read that the question rules out, and only the one it      *)
(* insists on if it does, whatever the history suggests, as long as more   *)
(* than one source is connected (capabilitiesFor).  A question that both   *)
(* insists on a source and rules it out gets it.                           *)
SourceWishesAreKept ==
  job # Idle /\ Cardinality(Registered \ {"web"}) > 1 =>
    /\ job.sources \cap job.x.q.excluded \subseteq {job.x.q.only}
    /\ job.x.q.only # "" => job.sources \subseteq {job.x.q.only, "web"}

(* The history given to the model holds no turn older than two hours.      *)
HistoryIsRecent == ~prompt.expired
=============================================================================
