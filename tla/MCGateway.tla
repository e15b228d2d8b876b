----------------------------- MODULE MCGateway -----------------------------
(* Two commands write the same file, one writes none; the model answers in *)
(* every form the parser tells apart.                                      *)
EXTENDS Gateway

MCCommands == {"write", "rewrite", "list"}
MCWriteOf == [c \in MCCommands |-> IF c = "list" THEN NoWrite ELSE "file"]
MCSize == [role \in Roles |-> CASE role = "user" -> 2 [] role = "summary" -> 8 [] OTHER -> 1]

Ask(chat, tools, stream, required, text) ==
  [chat |-> chat, tools |-> tools, stream |-> stream, required |-> required,
   text |-> text, cmd |-> "list"]

Codex == {"exec_command", "apply_patch"}
MCAsks ==
  { Ask(FALSE, Codex, FALSE, FALSE, "agentic"),
    Ask(FALSE, Codex, TRUE, FALSE, "plain"),
    Ask(FALSE, {}, TRUE, FALSE, "plain"),
    Ask(FALSE, Codex, FALSE, FALSE, "immediate"),
    Ask(TRUE, Codex, FALSE, FALSE, "agentic") }

Form(form, name, cmd, patch, calls) ==
  [form |-> form, name |-> name, cmd |-> cmd, patch |-> patch, calls |-> calls]
Say(form) == Form(form, "", "list", FALSE, <<>>)
Call(cmd, plain) == [cmd |-> cmd, plain |-> plain]

MCAnswers ==
  { Say("text"), Say("down"), Say("url"), Say("fence"), Say("invalid"),
    Form("json", "exec_command", "write", FALSE, <<>>),
    Form("calls", "", "list", FALSE, <<Call("write", TRUE), Call("list", TRUE), Call("rewrite", TRUE)>>),
    Form("calls", "", "list", FALSE, <<Call("rewrite", FALSE), Call("rewrite", TRUE)>>) }
=============================================================================
