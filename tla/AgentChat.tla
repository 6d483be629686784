------------------------------ MODULE AgentChat ------------------------------
(* Talking to the agent that wrote a draft: the chat in the page, the run of *)
(* the agent it starts for each message, and the channel between the two.    *)
(* The first message forks the session the draft names, later ones resume    *)
(* the fork, which the log remembers; the draft may be written again by      *)
(* another agent at any point, and the reader may cancel at any point.       *)
EXTENDS Naturals, Sequences

CONSTANTS
  MaxDrafts,   \* agents that write the draft, one after the other
  MaxSends,    \* messages
  MaxFaults    \* runs that are refused, die, fail or find no session

Bounds == MaxDrafts \in Nat \ {0} /\ {MaxSends, MaxFaults} \subseteq Nat

VARIABLES
  draft,      \* which agent wrote the draft there is now
  fork,       \* the fork the log remembers, and the session it was made from
  chat,       \* the chat, as the page holds it
  run,        \* the agent's process, and what the shell holds of it
  events,     \* lines and the exit, on their way to the page
  sends, faults,
  forks,      \* by agent, how many sessions were forked from its own (history)
  lost,       \* by agent, forks whose name was on its way when the app was closed (history)
  replies,    \* what the reader was told about the last message (history)
  crossed     \* a run resumed a session of another agent than the draft's (history)

bounds == <<sends, faults>>
history == <<forks, lost, replies, crossed>>
vars == <<draft, fork, chat, run, events, bounds, history>>

Agent == 1..MaxDrafts

\* A session: the agent whose it is, and which fork; 0 is the agent's own.
Session(agent, n) == [agent |-> agent, n |-> n]
NoSession == Session(0, 0)
NoFork == [from |-> NoSession, session |-> NoSession]

Init ==
  /\ draft = 1 /\ fork = NoFork
  /\ chat = [busy |-> FALSE, elsewhere |-> FALSE, ended |-> FALSE, forked |-> FALSE, draft |-> 1]
  /\ run = [state |-> "none", held |-> FALSE, session |-> NoSession, said |-> FALSE, code |-> "none"]
  /\ events = <<>> /\ sends = 0 /\ faults = 0
  /\ forks = [a \in Agent |-> 0] /\ lost = [a \in Agent |-> 0]
  /\ replies = 0 /\ crossed = FALSE

-----------------------------------------------------------------------------
(* The page.                                                                 *)

\* The fork, while the agent it was made from still wrote the draft.
AgentFork == IF fork.from = Session(draft, 0) THEN fork.session ELSE NoSession

Send ==
  /\ ~chat.busy /\ ~chat.elsewhere /\ sends < MaxSends
  /\ sends' = sends + 1
  /\ chat' = [chat EXCEPT !.busy = TRUE, !.ended = FALSE, !.forked = AgentFork # NoSession, !.draft = draft]
  /\ run' = [state |-> "starting", held |-> FALSE, said |-> FALSE, code |-> "none",
             session |-> IF AgentFork = NoSession THEN Session(draft, 0) ELSE AgentFork]
  /\ crossed' = (crossed \/ run'.session.agent # draft)
  /\ replies' = 0
  /\ UNCHANGED <<draft, fork, events, faults, forks, lost>>

Over == chat' = [chat EXCEPT !.busy = FALSE]

\* Another machine's folder, or no agent to run here.
Refused ==
  /\ run.state = "starting" /\ faults < MaxFaults
  /\ faults' = faults + 1
  /\ run' = [run EXCEPT !.state = "none"]
  /\ chat' \in {[chat EXCEPT !.busy = FALSE, !.elsewhere = e] : e \in BOOLEAN}
  /\ replies' = replies + 1
  /\ UNCHANGED <<draft, fork, events, sends, forks, lost, crossed>>

\* Against the draft that was on screen when the message was sent.
\* Mutant: against the draft there is by now.
ForkedFromNow == Session(draft, 0)
ForkedFrom == Session(chat.draft, 0)

Line ==
  LET e == Head(events) IN
  /\ events # <<>> /\ e.kind # "exit"
  /\ events' = Tail(events)
  /\ LET new == e.kind = "session" /\ ~chat.forked /\ e.id # ForkedFrom
     IN  /\ fork' = IF new THEN [from |-> ForkedFrom, session |-> e.id] ELSE fork
         /\ chat' = [chat EXCEPT !.forked = @ \/ new,
                                 !.elsewhere = @ \/ e.kind = "missing",
                                 !.ended = @ \/ e.kind \in {"result", "error"}]
  /\ replies' = replies + (IF e.kind = "session" THEN 0 ELSE 1)
  /\ UNCHANGED <<draft, run, sends, faults, forks, lost, crossed>>

\* What an exit still has to tell: nothing, when a line has told it.
ExitTells(code) == code # "ok" /\ ~chat.ended /\ ~chat.elsewhere

Exit ==
  /\ events # <<>> /\ Head(events).kind = "exit"
  /\ events' = Tail(events)
  /\ Over
  /\ replies' = replies + (IF ExitTells(Head(events).code) THEN 1 ELSE 0)
  /\ UNCHANGED <<draft, fork, run, sends, faults, forks, lost, crossed>>

\* A cancel for a run the shell does not hold, not yet or no more, does nothing.
Cancel ==
  /\ chat.busy
  /\ run' = IF run.held /\ run.state = "running" THEN [run EXCEPT !.state = "ended", !.code = "stopped"] ELSE run
  /\ run' # run
  /\ UNCHANGED <<draft, fork, chat, events, bounds, history>>

-----------------------------------------------------------------------------
(* The shell and the agent's process.                                        *)

Event(kind) == [kind |-> kind, id |-> NoSession, code |-> "none"]

Spawn ==
  /\ run.state = "starting"
  /\ run' = [run EXCEPT !.state = "running", !.held = TRUE]
  /\ UNCHANGED <<draft, fork, chat, events, bounds, history>>

\* The first line names the session: one of its own for a run that forks.
SaySession ==
  LET forking == run.session.n = 0
      new == IF forking THEN Session(run.session.agent, forks[run.session.agent] + 1) ELSE run.session
  IN
  /\ run.state = "running" /\ ~run.said
  /\ run' = [run EXCEPT !.said = TRUE, !.session = new]
  /\ forks' = IF forking THEN [forks EXCEPT ![new.agent] = @ + 1] ELSE forks
  /\ events' = Append(events, [Event("session") EXCEPT !.id = new])
  /\ UNCHANGED <<draft, fork, chat, bounds, lost, replies, crossed>>

\* The last line of a run that went well names the session once more.
Result ==
  /\ run.state = "running" /\ run.said
  /\ run' = [run EXCEPT !.state = "ended", !.code = "ok"]
  /\ events' = events \o <<[Event("session") EXCEPT !.id = run.session], Event("result")>>
  /\ UNCHANGED <<draft, fork, chat, bounds, history>>

\* It ends badly: with a line that says so, without one, or for want of the
\* session it was to resume.
Fails == \E lines \in {<<>>, <<Event("error")>>, <<Event("missing")>>} :
  /\ run.state = "running" /\ faults < MaxFaults
  /\ lines = <<Event("missing")>> => ~run.said
  /\ faults' = faults + 1
  /\ run' = [run EXCEPT !.state = "ended", !.code = "failed"]
  /\ events' = events \o lines
  /\ UNCHANGED <<draft, fork, chat, sends, history>>

\* Both streams have ended: the run is let go of, waited for and reported.
Report ==
  /\ run.state = "ended"
  /\ run' = [run EXCEPT !.state = "none", !.held = FALSE]
  /\ events' = Append(events, [Event("exit") EXCEPT !.code = run.code])
  /\ UNCHANGED <<draft, fork, chat, bounds, history>>

\* The draft is cleared and another agent writes it.
Redraft ==
  /\ draft < MaxDrafts
  /\ draft' = draft + 1
  /\ UNCHANGED <<fork, chat, run, events, bounds, history>>

\* The window goes: every run is stopped, and what was on its way is not heard.
Quit ==
  /\ faults < MaxFaults
  /\ faults' = faults + 1
  /\ chat' = [chat EXCEPT !.busy = FALSE, !.elsewhere = FALSE]
  /\ run' = [run EXCEPT !.state = "none", !.held = FALSE]
  /\ events' = <<>> /\ replies' = 1
  /\ lost' = IF chat.busy /\ run.said /\ ~chat.forked THEN [lost EXCEPT ![run.session.agent] = @ + 1] ELSE lost
  /\ UNCHANGED <<draft, fork, sends, forks, crossed>>

Next ==
  \/ Send \/ Refused \/ Line \/ Exit \/ Cancel
  \/ Spawn \/ SaySession \/ Result \/ Fails \/ Report \/ Redraft \/ Quit

Spec == Init /\ [][Next]_vars

-----------------------------------------------------------------------------
(* What must hold.                                                           *)

Sessions == [agent : 0..MaxDrafts, n : 0..MaxSends]

TypeOK ==
  /\ draft \in Agent /\ fork \in [from : Sessions, session : Sessions]
  /\ chat \in [busy : BOOLEAN, elsewhere : BOOLEAN, ended : BOOLEAN, forked : BOOLEAN, draft : Agent]
  /\ run \in [state : {"none", "starting", "running", "ended"}, held : BOOLEAN, session : Sessions,
              said : BOOLEAN, code : {"none", "ok", "failed", "stopped"}]
  /\ events \in Seq([kind : {"session", "result", "error", "missing", "exit"}, id : Sessions,
                     code : {"none", "ok", "failed", "stopped"}])
  /\ sends \in 0..MaxSends /\ faults \in 0..MaxFaults
  /\ {forks, lost} \subseteq [Agent -> 0..MaxSends] /\ replies \in Nat /\ crossed \in BOOLEAN

\* A message goes to a session of the agent whose draft the reader sees, and a
\* draft's session is forked once, however redrafts and late lines fall, unless
\* the app was closed over the name of the fork (agent-chat.js, "the first forks the draft's session").
OneForkOfItsAgent == ~crossed /\ \A a \in Agent : forks[a] <= 1 + lost[a]

\* When a run is over the reader has been told how it ended, once: by the
\* agent's last line, by what its exit says, or by the note that it ran
\* elsewhere (agent-chat.js send).
ToldOnce == ~chat.busy /\ sends > 0 => replies = 1
===============================================================================
