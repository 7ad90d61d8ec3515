---------------------------- MODULE Conversation ----------------------------
(***************************************************************************)
(* What the agent core promises about the transcript it keeps: a provider  *)
(* accepts the conversation at every request and after every run.  Each    *)
(* tool call of a complete response is answered once, in the order of the  *)
(* calls, before anybody speaks again and before the agent is idle.  A     *)
(* response that ended in "error" or "aborted" owes no answers.            *)
(***************************************************************************)
EXTENDS Integers, Sequences

VARIABLES log,    \* the messages: role, and calls and stop, or call
          busy    \* a run is in progress

Complete(m) == m.role = "assistant" /\ m.stop \notin {"error", "aborted"}
Answered(c) == \E j \in DOMAIN log : log[j].role = "toolResult" /\ log[j].call = c

\* Call k of message i is unanswered, and every call before it is answered.
Due(i, k) ==
  /\ log[i].role = "assistant" /\ k \in DOMAIN log[i].calls
  /\ ~Answered(log[i].calls[k])
  /\ \A h \in 1 .. k - 1 : Answered(log[i].calls[h])

\* Only tool results stand between message i and the end of the log.
Recent(i) == \A j \in i + 1 .. Len(log) : log[j].role = "toolResult"

Owing == \E i \in DOMAIN log : Complete(log[i]) /\ \E k \in DOMAIN log[i].calls : Due(i, k)

Grows == Len(log') = Len(log) + 1 /\ SubSeq(log', 1, Len(log)) = log
Added == log'[Len(log) + 1]

Begin == ~busy /\ busy' /\ UNCHANGED log

\* A user or an assistant message is added when no answer is owed.
Speak == busy /\ ~Owing /\ Grows /\ Added.role # "toolResult" /\ UNCHANGED busy

Answer ==
  /\ busy /\ Grows /\ UNCHANGED busy
  /\ Added.role = "toolResult"
  /\ \E i \in DOMAIN log : /\ Recent(i)
                           /\ \E k \in DOMAIN log[i].calls :
                                Due(i, k) /\ Added.call = log[i].calls[k]

\* An answer may be replaced where it stands, while nobody has spoken since.
Amend ==
  /\ busy /\ UNCHANGED busy
  /\ Len(log') = Len(log)
  /\ \E i \in DOMAIN log :
        /\ log[i].role = "toolResult" /\ Recent(i)
        /\ log'[i].role = "toolResult" /\ log'[i].call = log[i].call
        /\ \A j \in DOMAIN log \ {i} : log'[j] = log[j]

End == busy /\ ~Owing /\ ~busy' /\ UNCHANGED log

Init == log = <<>> /\ ~busy
Next == Begin \/ Speak \/ Answer \/ Amend \/ End
Spec == Init /\ [][Next]_<<log, busy>>
=============================================================================
