----------------------- MODULE MCSecretaryMemory -----------------------
(* A Telegram chat and an Open WebUI chat; one question per route.        *)
EXTENDS SecretaryMemory

Plain == [topic |-> "a", recall |-> "no", granola |-> FALSE, meeting |-> FALSE,
          work |-> FALSE, task |-> FALSE, plan |-> FALSE, jira |-> FALSE, url |-> FALSE,
          only |-> "", excluded |-> {}, prior |-> FALSE, action |-> FALSE, size |-> 1]
Meeting == [Plain EXCEPT !.meeting = TRUE, !.work = TRUE]

MCCommand == [Plain EXCEPT !.jira = TRUE]

MCQuestions ==
  { Plain,
    [Plain EXCEPT !.recall = "dated", !.size = 2],
    Meeting,
    [Plain EXCEPT !.task = TRUE],
    [Meeting EXCEPT !.task = TRUE, !.prior = TRUE, !.excluded = {"Granola"}],
    [Plain EXCEPT !.jira = TRUE, !.only = "Jira", !.action = TRUE],
    [Plain EXCEPT !.action = TRUE] }
========================================================================
