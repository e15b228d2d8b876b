------------------------------ MODULE Gateway ------------------------------
(***************************************************************************)
(* The codex local gateway (internal/codexlocalgateway): it serves         *)
(* /v1/responses and /v1/chat/completions on top of a model that only      *)
(* knows chat completions.  It keeps the conversation of every response it *)
(* gave for a while (store.go), compacts a conversation that has grown     *)
(* past the model's window (server.go) and finds tool calls in the model's *)
(* text (responses.go).                                                    *)
(*                                                                         *)
(* Requests are served concurrently.  A request is numbered by its         *)
(* arrival, and the response it gets has its number as identifier.  A text *)
(* is reduced to what the gateway looks for in it; a message keeps its     *)
(* role, its calls, its size and, for a tool output, the call it answers   *)
(* and whether it says exit_code 0.                                        *)
(***************************************************************************)
EXTENDS Integers, Sequences, FiniteSets, SequencesExt

CONSTANTS
  Commands,        \* shell commands
  WriteOf,         \* the file base name and content a command writes, or NoWrite
  NoWrite,
  Asks,            \* what clients send: [chat, tools, stream, required, text, cmd]
  Answers,         \* what the model answers: [form, name, cmd, patch, calls]
  Size,            \* characters of a message of each role
  MaxPromptChars,
  MaxEntries,
  MaxRequests, MaxOpen  \* bounds: requests, and requests at a time

SystemRoles == {"instructions", "tools", "strict"}
Roles == SystemRoles \cup {"summary", "user", "assistant", "tool"}

ASSUME GatewayAssumption ==
  /\ MaxPromptChars \in Nat \ {0} /\ MaxEntries \in Nat \ {0}
  /\ MaxRequests \in Nat /\ MaxOpen \in Nat
  /\ Size \in [Roles -> Nat]

\* What stands for arguments that are not read is no command.
Unread == "arguments without a plain cmd"

ASSUME AskAssumption ==
  Asks \subseteq [chat : BOOLEAN, tools : SUBSET STRING, stream : BOOLEAN, required : BOOLEAN,
                 text : STRING, cmd : Commands \ {Unread}]

\* An answer of the form "calls" has some.
ASSUME AnswerAssumption ==
  /\ Answers \subseteq [form : STRING, name : STRING, cmd : Commands \ {Unread}, patch : BOOLEAN,
                       calls : Seq([cmd : Commands \ {Unread}, plain : BOOLEAN])]
  /\ \A a \in Answers : a.form = "calls" => a.calls # <<>>

VARIABLES
  store,    \* responseStore.items: the messages kept for an identifier
  stored,   \* every identifier stored so far, in order
  expired,  \* how many of them are older than ttl
  req       \* one record for each request so far

vars == <<store, stored, expired, req>>

Requests == 1..MaxRequests
None == 0

(***************************************************************************)
(* store.go                                                                *)
(***************************************************************************)
\* Entries expire in the order they were stored, ttl after it.
Expired(id) == \E i \in 1..expired : stored[i] = id

Fresh == {id \in DOMAIN store : ~ Expired(id)}

\* get forgets an expired entry it was asked for.
Get(id, found) ==
  /\ found = (id \in Fresh)
  /\ store' = IF found THEN store ELSE [o \in DOMAIN store \ {id} |-> store[o]]

StoredBefore(a, b) == \E i, j \in DOMAIN stored : i < j /\ stored[i] = a /\ stored[j] = b

\* Mutant: the entry that expires last is evicted.
VictimNewest(kept) == CHOOSE id \in kept : \A o \in kept \ {id} : StoredBefore(o, id)

\* The entry that expires first.
Victim(kept) == CHOOSE id \in kept : \A o \in kept \ {id} : StoredBefore(id, o)

Set(id, messages) ==
  LET kept == IF Cardinality(DOMAIN store) >= MaxEntries THEN Fresh ELSE DOMAIN store
      left == IF Cardinality(kept) >= MaxEntries THEN kept \ {Victim(kept)} ELSE kept
  IN  /\ store' = [o \in left \cup {id} |-> IF o = id THEN messages ELSE store[o]]
      /\ stored' = Append(stored, id)

(***************************************************************************)
(* The conversation: messages, calls and their size.                       *)
(***************************************************************************)
Message(role, calls, id, ok) ==
  [role |-> role, calls |-> calls, id |-> id, ok |-> ok, chars |-> Size[role]]
NoCall == <<0, 0, "">>
Plain(role) == Message(role, <<>>, NoCall, FALSE)
Says(calls) == Message("assistant", calls, NoCall, FALSE)
Output(id, ok) == Message("tool", <<>>, id, ok)

ChatPromptChars(msgs) == FoldLeft(LAMBDA n, m : n + m.chars, 0, msgs)

\* compactionSummary: objective, workspace and signals of what is dropped.
Summary == Plain("summary")

\* compactMessages: the summary, the first system message, the last two;
\* then the oldest after the summary goes until the rest fits.
CompactMessages(msgs) ==
  LET first == IF Head(msgs).role \in SystemRoles THEN <<Head(msgs)>> ELSE <<>>
      all == <<Summary>> \o first \o SubSeq(msgs, Len(msgs) - 1, Len(msgs))
      dropped(k) == <<Head(all)>> \o SubSeq(all, k + 2, Len(all))
      fits(k) == ChatPromptChars(dropped(k)) <= MaxPromptChars \/ k = Len(all) - 1
  IN  dropped(CHOOSE k \in 0..(Len(all) - 1) : fits(k) /\ \A j \in 0..(k - 1) : ~ fits(j))

TooLarge(msgs) == ChatPromptChars(msgs) > MaxPromptChars

CompactChatPrompt(msgs) ==
  IF TooLarge(msgs) /\ Len(msgs) >= 3 THEN CompactMessages(msgs) ELSE msgs

(***************************************************************************)
(* What a request asks for.                                                *)
(***************************************************************************)
ToolNameAllowed(name, tools) == tools = {} \/ name \in tools

HasFunctionCallOutput(q) == q.results # <<>>

\* tool_choice "required", or a named tool
Required(q) == q.ask.required

\* synthesizeImmediateExecCommand: the user dictated a command to run at once.
ImmediateExecCommand(q) ==
  ~ HasFunctionCallOutput(q) /\ q.ask.text = "immediate" /\ ToolNameAllowed("exec_command", q.ask.tools)

\* Text that tells to run a command at once also reads as agentic.
ShouldUseStrictExecution(q) ==
  ~ HasFunctionCallOutput(q) /\ q.ask.tools # {} /\ q.ask.text \in {"agentic", "immediate"}

\* requiresToolCall(effectiveToolChoice(req))
RequiresToolCall(q) ==
  /\ ~ HasFunctionCallOutput(q)
  /\ Required(q) \/ ImmediateExecCommand(q) \/ ShouldUseStrictExecution(q)

InputToChatMessages(q) ==
  IF HasFunctionCallOutput(q)
    THEN [i \in DOMAIN q.results |-> Output(q.results[i].id, q.results[i].ok)]
    ELSE <<Plain("user")>>

ResponsesToChat(q, prior) ==
  LET opening == IF q.prev = None THEN <<Plain("instructions")>> ELSE prior
      tools == IF q.ask.tools = {} THEN <<>>
               ELSE IF ShouldUseStrictExecution(q) THEN <<Plain("tools"), Plain("strict")>>
               ELSE <<Plain("tools")>>
  IN  opening \o tools \o InputToChatMessages(q)

(***************************************************************************)
(* Tool calls (responses.go).                                              *)
(***************************************************************************)
Item(type, id, name, cmd) == [type |-> type, id |-> id, name |-> name, cmd |-> cmd]
Exec(id, cmd) == Item("function_call", id, "exec_command", cmd)
Text == Item("message", NoCall, "", "")
AlreadyDone(cmd) == Item("repeated", NoCall, "", cmd)

\* The identifier of a call the model gave none for; the model gives every
\* native call of its own a new one.
DefaultId(name) == <<0, 0, name>>
NativeId(r, i) == <<r, i, "">>

Parsed(item) == [kind |-> "call", item |-> item]
NotACall == [kind |-> "none", item |-> Text]
ParseError == [kind |-> "error", item |-> Text]

\* A call as one JSON object, alone, embedded in prose or in a fence, or after
\* a prefix.
SpellsCall(a) == a.form \in {"json", "prefixed"}

ParseFallbackToolCall(a, tools) ==
  LET allowed(name) == ToolNameAllowed(name, tools)
      custom == a.name = "apply_patch" /\ tools # {}
  IN  IF a.form = "fence" THEN
        IF allowed("exec_command") THEN Parsed(Exec(DefaultId("exec_command"), a.cmd))
        ELSE IF allowed("tool_search_code")
          THEN Parsed(Item("function_call", DefaultId("tool_search_code_exec"),
                           "tool_search_code", a.cmd))
        ELSE NotACall
      ELSE IF a.form = "invalid" THEN ParseError
      ELSE IF ~ SpellsCall(a) THEN NotACall
      ELSE IF a.name = "write_file" /\ allowed("exec_command")
        THEN Parsed(Exec(DefaultId("write_file"), a.cmd))
      ELSE IF ~ allowed(a.name) THEN ParseError
      ELSE IF a.form = "json" /\ custom /\ ~ a.patch /\ allowed("exec_command")
        THEN Parsed(Exec(DefaultId(a.name), a.cmd))
      ELSE Parsed(Item(IF custom THEN "custom_tool_call" ELSE "function_call",
                       DefaultId(a.name), a.name, a.cmd))

IsExec(item) == item.type = "function_call" /\ item.name = "exec_command"

\* previous == target, or fileWriteEffect(previous).equivalent(targetWrite)
Equivalent(c, d) == c = d \/ (WriteOf[c] # NoWrite /\ WriteOf[c] = WriteOf[d])

\* The command a tool output at position j answers for: the last call before
\* it that has its identifier.
CallsBefore(msgs, j, id) ==
  {p \in UNION {{i} \X DOMAIN msgs[i].calls : i \in 1..(j - 1)} :
     LET call == msgs[p[1]].calls[p[2]]
     IN  call.id = id /\ call.name = "exec_command" /\ call.cmd # Unread}

\* Mutant: the first call that has the identifier is taken.
SeenFirst(msgs, j, id) ==
  LET at == CHOOSE p \in CallsBefore(msgs, j, id) :
              \A o \in CallsBefore(msgs, j, id) : p[1] < o[1] \/ (p[1] = o[1] /\ p[2] <= o[2])
  IN  msgs[at[1]].calls[at[2]].cmd

Seen(msgs, j, id) ==
  LET at == CHOOSE p \in CallsBefore(msgs, j, id) :
              \A o \in CallsBefore(msgs, j, id) : p[1] > o[1] \/ (p[1] = o[1] /\ p[2] >= o[2])
  IN  msgs[at[1]].calls[at[2]].cmd

\* toolOutputSucceeded
OutputSucceeded(m) == m.role = "tool" /\ m.ok

RepeatedSuccessfulExecCommand(msgs, item) ==
  /\ IsExec(item)
  /\ \E j \in DOMAIN msgs :
       /\ OutputSucceeded(msgs[j])
       /\ CallsBefore(msgs, j, msgs[j].id) # {}
       /\ Equivalent(Seen(msgs, j, msgs[j].id), item.cmd)

\* Mutant: only the item before the candidate is compared.
DuplicateOfLast(out, item) ==
  IsExec(item) /\ out # <<>> /\ IsExec(Last(out)) /\ Last(out).cmd = item.cmd

DuplicateExecCommandItem(out, item) ==
  IsExec(item) /\ \E i \in DOMAIN out : IsExec(out[i]) /\ Equivalent(out[i].cmd, item.cmd)

(***************************************************************************)
(* chatToResponses and the end of writeResponsesStreamFromUpstream: what   *)
(* the client is given and what the conversation remembers of it.          *)
(***************************************************************************)
Completed(out, says) == [end |-> "completed", out |-> out, says |-> says]
Fails(why) == [end |-> why, out |-> <<>>, says |-> Says(<<>>)]

CallOf(item) ==
  [id |-> item.id, name |-> item.name,
   cmd |-> IF item.type = "function_call" THEN item.cmd ELSE Unread]

Issue(item) == Completed(<<item>>, Says(<<CallOf(item)>>))

\* The calls of a native answer; what is remembered are the model's own
\* arguments, what is issued their normal form.
NativeItem(r, a, i) == Exec(NativeId(r, i), a.calls[i].cmd)
NativeCall(r, a, i) ==
  [id |-> NativeId(r, i), name |-> "exec_command",
   cmd |-> IF a.calls[i].plain THEN a.calls[i].cmd ELSE Unread]

TakeNative(msgs, acc, item) ==
  IF acc # <<>> /\ Last(acc).type = "repeated" THEN acc
  ELSE IF RepeatedSuccessfulExecCommand(msgs, item) THEN Append(acc, AlreadyDone(item.cmd))
  ELSE IF DuplicateExecCommandItem(acc, item) THEN acc
  ELSE Append(acc, item)

NativeResponse(r, msgs, a) ==
  LET taken[n \in 0..Len(a.calls)] ==
        IF n = 0 THEN <<>> ELSE TakeNative(msgs, taken[n - 1], NativeItem(r, a, n))
      out == taken[Len(a.calls)]
      calls == [i \in DOMAIN a.calls |-> NativeCall(r, a, i)]
  IN  Completed(out, Says(IF Last(out).type = "repeated" THEN <<>> ELSE calls))

\* Text: parsed as a call, or replaced by the command the user dictated, or
\* refused when a call was required.
TextResponse(q, a) ==
  LET parsed == ParseFallbackToolCall(a, q.ask.tools)
  IN  CASE parsed.kind = "error" -> Fails("tool_call_parse_error")
        [] parsed.kind = "call" ->
             IF RepeatedSuccessfulExecCommand(q.chat, parsed.item)
               THEN Completed(<<AlreadyDone(parsed.item.cmd)>>, Says(<<>>))
               ELSE Issue(parsed.item)
        [] parsed.kind = "none" /\ ImmediateExecCommand(q) ->
             Issue(Exec(DefaultId("exec_command"), q.ask.cmd))
        [] OTHER ->
             IF ShouldUseStrictExecution(q) THEN Fails("execution_not_started")
             ELSE IF RequiresToolCall(q) THEN Fails("tool_call_parse_error")
             ELSE Completed(<<Text>>, Says(<<>>))

\* No answer, no connection, or a stream that breaks off.
UpstreamFailure(q, a) ==
  IF a.form = "broken" /\ q.ask.stream THEN "cut"
  ELSE IF a.form = "down" /\ q.ask.stream THEN "failed" ELSE "upstream_error"

\* A stream without tools is passed on as text while it comes; a stream with
\* tools is read to its end, and native calls in it are not looked at.
ChatToResponses(r, q, a) ==
  CASE a.form \in {"down", "broken"} \/ (a.form = "malformed" /\ ~ q.ask.stream) ->
         Fails(UpstreamFailure(q, a))
    [] a.form = "calls" /\ ~ q.ask.stream -> NativeResponse(r, q.chat, a)
    [] q.ask.stream /\ q.ask.tools = {} /\ a.form \notin {"down", "broken"} ->
         Completed(<<Text>>, Says(<<>>))
    [] OTHER -> TextResponse(q, IF a.form \in {"calls", "malformed"} THEN [a EXCEPT !.form = "text"] ELSE a)

(***************************************************************************)
(* /v1/chat/completions keeps no conversation: recoverChatCompletion-      *)
(* ToolCalls turns prose into a call, asking the model once more when      *)
(* execution was demanded.                                                 *)
(***************************************************************************)
Passed == Completed(<<Text>>, Says(<<>>))

\* normalizeChatCompletionToolCalls: nothing to normalise in a stream, in an
\* answer without tools or in one that already has native calls.
NormalizeChat(q, a) ==
  LET parsed == ParseFallbackToolCall(a, q.ask.tools)
  IN  IF q.ask.stream \/ q.ask.tools = {} \/ a.form \in {"calls", "malformed"} THEN NotACall
      ELSE IF parsed.kind = "call" /\ parsed.item.type # "function_call" THEN NotACall
      ELSE parsed

StrictForChat(q) == q.ask.tools # {} /\ (Required(q) \/ q.ask.text \in {"agentic", "immediate"})

\* firstAssistantText found some: the events of a stream are no JSON body, and
\* native calls come without text.
HasText(q, a) == ~ q.ask.stream /\ a.form \notin {"calls", "malformed"}

\* synthesizeURLFetchExecCommand
FetchesURL(q, a) ==
  /\ a.form = "url"
  /\ ToolNameAllowed("exec_command", q.ask.tools) /\ ~ ToolNameAllowed("browser.verify", q.ask.tools)

ChatAnswer(q, a) ==
  LET parsed == NormalizeChat(q, a)
  IN  IF a.form \in {"down", "broken"} THEN Fails("upstream_error")
      ELSE IF parsed.kind = "error" THEN Fails("tool_call_parse_error")
      ELSE IF parsed.kind = "call" THEN Completed(<<parsed.item>>, Says(<<>>))
      ELSE IF ~ StrictForChat(q) \/ ~ HasText(q, a) THEN Passed
      ELSE IF FetchesURL(q, a) THEN Completed(<<Exec(DefaultId("exec_command"), a.cmd)>>, Says(<<>>))
      ELSE [Passed EXCEPT !.end = "repair"]

\* The model was asked to rewrite its draft; what it sends now is used only
\* if it normalises to a call.
RepairAnswer(q, a) ==
  LET parsed == NormalizeChat(q, a)
  IN  IF a.form \in {"down", "broken"} \/ parsed.kind = "error" THEN Fails("tool_call_parse_error")
      ELSE IF parsed.kind = "call" THEN Completed(<<parsed.item>>, Says(<<>>))
      ELSE Passed

(***************************************************************************)
(* Actions.                                                                *)
(***************************************************************************)
Init ==
  store = <<>> /\ stored = <<>> /\ expired = 0 /\ req = <<>>

\* The function calls of a response: only its last item can be another one.
Functions(r) ==
  LET out == req[r].out
  IN  IF out = <<>> \/ Last(out).type = "function_call" THEN out ELSE Front(out)

\* A client may continue a response it was told is complete, in the same mode
\* and with the same tools: with a text, or with what came of the calls.
MayContinue == {p \in DOMAIN req : req[p].pc = "end" /\ req[p].end = "completed" /\ ~ req[p].ask.chat}

Replies(prev) ==
  IF prev = None THEN {<<>>}
  ELSE {<<>>} \cup {[i \in DOMAIN Functions(prev) |-> [id |-> Functions(prev)[i].id, ok |-> ok[i]]] :
                      ok \in [DOMAIN Functions(prev) -> BOOLEAN]}

\* History: the commands that succeeded in the conversation, and whether the
\* conversation as kept shows every call that was issued.
DoneBefore(prev, results) ==
  IF prev = None THEN {}
  ELSE req[prev].done \cup
       {Functions(prev)[i].cmd : i \in {j \in DOMAIN results :
                                          results[j].ok /\ IsExec(Functions(prev)[j])}}

Remembered(says, out) ==
  \A i \in DOMAIN out : IsExec(out[i]) =>
    \E k \in DOMAIN says.calls : says.calls[k].id = out[i].id /\ says.calls[k].cmd = out[i].cmd

Opened(ask, prev, results) ==
  [ask |-> ask, prev |-> prev, results |-> results, pc |-> "upstream", chat |-> <<>>,
   out |-> <<>>, says |-> Says(<<>>), end |-> "none", done |-> DoneBefore(prev, results),
   kept |-> prev = None \/ (req[prev].kept /\ Remembered(req[prev].says, req[prev].out))]

Ended(q, why) == [q EXCEPT !.pc = "end", !.end = why]

Arrive(ask, prev, results) ==
  LET q == Opened(ask, prev, results)
  IN  /\ Len(req) < MaxRequests
      /\ Cardinality({r \in DOMAIN req : req[r].pc # "end"}) < MaxOpen
      /\ prev # None => ask.tools = req[prev].ask.tools /\ ask.stream = req[prev].ask.stream
                        /\ ~ ask.chat
      /\ \/ /\ prev # None /\ Get(prev, FALSE)
            /\ req' = Append(req, Ended(q, "previous_not_found"))
         \/ /\ IF prev = None THEN store' = store ELSE Get(prev, TRUE)
            /\ LET msgs == ResponsesToChat(q, IF prev = None THEN <<>> ELSE store[prev])
                   chat == IF ask.chat THEN msgs ELSE CompactChatPrompt(msgs)
                   asked == [q EXCEPT !.chat = chat, !.kept = @ /\ chat = msgs]
               IN  req' = Append(req, IF TooLarge(chat) THEN Ended(asked, "context_window_exceeded")
                                                        ELSE asked)
      /\ UNCHANGED <<stored, expired>>

\* The model's answer has been read: a call or text to give, or an error.
Finish(r, result) ==
  LET pc == CASE result.end = "repair" -> "repair"
              [] result.end = "completed" /\ ~ req[r].ask.chat -> "store"
              [] OTHER -> "end"
  IN  req' = [req EXCEPT ![r].pc = pc, ![r].out = result.out, ![r].says = result.says,
                         ![r].end = IF pc = "repair" THEN "none" ELSE result.end]

Answer(r, a) ==
  /\ req[r].pc = "upstream"
  /\ Finish(r, IF req[r].ask.chat THEN ChatAnswer(req[r], a) ELSE ChatToResponses(r, req[r], a))
  /\ UNCHANGED <<store, stored, expired>>

Repair(r, a) ==
  /\ req[r].pc = "repair"
  /\ Finish(r, RepairAnswer(req[r], a))
  /\ UNCHANGED <<store, stored, expired>>

\* store.set, and then the last events of a stream or the body: nobody can
\* name the response in between.
StoreResponse(r) ==
  /\ req[r].pc = "store"
  /\ Set(r, Append(req[r].chat, req[r].says))
  /\ req' = [req EXCEPT ![r].pc = "end"]
  /\ UNCHANGED expired

\* ttl has passed since the oldest response was stored.
Expire ==
  /\ expired < Len(stored)
  /\ expired' = expired + 1
  /\ UNCHANGED <<store, stored, req>>

Next ==
  \/ \E ask \in Asks, prev \in {None} \cup MayContinue :
       \E results \in Replies(prev) : Arrive(ask, prev, results)
  \/ \E r \in DOMAIN req :
       \/ \E a \in Answers : Answer(r, a) \/ Repair(r, a)
       \/ StoreResponse(r)
  \/ Expire

Spec == Init /\ [][Next]_vars

(***************************************************************************)
(* Properties.                                                             *)
(***************************************************************************)

\* The store never holds more than maxEntries conversations, each under the
\* identifier of a request that completed.
TypeOK ==
  /\ Cardinality(DOMAIN store) <= MaxEntries
  /\ \A id \in DOMAIN store : id \in DOMAIN req /\ req[id].end = "completed"
  /\ expired \in 0..Len(stored)
  /\ \A r \in DOMAIN req : req[r].pc \in {"upstream", "repair", "store", "end"}

\* A response the client was told is complete can be continued until it is
\* ttl old, unless maxEntries later responses have pushed it out.
CompletedCanBeContinued ==
  \A r \in MayContinue :
    \/ Expired(r)
    \/ r \in DOMAIN store
    \/ Cardinality({o \in DOMAIN req : StoredBefore(r, o)}) >= MaxEntries

\* A client is told that a command was already completed only if that command,
\* or one that writes the same content to a file of the same name, did
\* succeed in this conversation.
RefusedOnlyIfDone ==
  \A r \in DOMAIN req : \A i \in DOMAIN req[r].out :
    req[r].out[i].type = "repeated" =>
      \E c \in req[r].done : Equivalent(c, req[r].out[i].cmd)

\* As long as the kept conversation shows every call that was issued, no
\* response gives a command twice, or one that has already succeeded, unless
\* the user dictated it.
NoCommandTwice ==
  \A r \in DOMAIN req :
    LET q == req[r]
        execs == {i \in DOMAIN q.out : IsExec(q.out[i])}
    IN  ~ q.ask.chat /\ q.kept /\ q.ask.text # "immediate" =>
          /\ \A i, j \in execs : i # j => ~ Equivalent(q.out[i].cmd, q.out[j].cmd)
          /\ \A i \in execs : \A c \in q.done : ~ Equivalent(c, q.out[i].cmd)
=============================================================================
