-------------------------------- MODULE Sweep --------------------------------
(* The sweep over one pull request: agents that look at the queue, claim the *)
(* draft's folder, write it, post it when the reader's rules allow, and      *)
(* prune it, with no lock between them; the reader, whose decisions reach    *)
(* the shared log late; and GitHub, where the pull request moves and closes. *)
(* An agent may die at any point and leave its claim behind.                 *)
EXTENDS Naturals, Sequences, FiniteSets

CONSTANTS
  Agent,        \* sweeps and the reviews they start, on any machine
  Stale,        \* how long a claim may go untouched, in turns of the clock
  MaxStamps,    \* moments a decision, a draft or a change can be stamped with
  MaxFaults     \* agents that die and records that cannot be written

Bounds == {Stale, MaxStamps, MaxFaults} \subseteq Nat /\ Stale > 0

VARIABLES
  rules,     \* the reader's rules file
  github,    \* the pull request: open, its head, a label, when it last moved
  posted,    \* how many reviews were posted, by the sweep and by the reader
  folder,    \* the draft's folder
  log,       \* the decisions in the shared log
  device,    \* decisions taken in the app and not yet in the shared log
  agent,     \* what each agent is doing, and what it read before doing it
  stamp,     \* the clock decisions, drafts and changes are stamped by
  faults,
  repeats    \* reasons for which a review may be posted once more (history)

vars == <<rules, github, posted, folder, log, device, agent, stamp, faults, repeats>>

-----------------------------------------------------------------------------
(* Rules: the first whose every condition holds decides.                     *)

Rule(hot, then) == [hot |-> hot, then |-> then]      \* hot: the label's presence it asks for
File(list) == [whole |-> TRUE, list |-> list]
Broken == [whole |-> FALSE, list |-> <<>>]           \* only half understood, so refused
Files == {File(<<Rule({TRUE}, "skip"), Rule(BOOLEAN, "post")>>), File(<<Rule({TRUE}, "post")>>), Broken}

Holds(rule, facts) == facts.hot \in rule.hot

ActionFor(file, facts) ==
  LET hits == {n \in DOMAIN file.list : Holds(file.list[n], facts)}
  IN  IF hits = {} THEN "draft" ELSE file.list[CHOOSE n \in hits : \A m \in hits : n <= m].then

-----------------------------------------------------------------------------
(* The log: the latest decision about a pull request, by time.               *)

Decision == [act : {"post", "dismiss", "restore"}, time : 0..MaxStamps]

Newest(events) == CHOOSE e \in events : \A d \in events : d.time <= e.time

\* A post or a dismissal that nothing later undid.
Resolved(events) == events # {} /\ Newest(events).act \in {"post", "dismiss"}

\* Mutant: only the last decision is looked at.
LastIsPost(events) == events # {} /\ Newest(events).act = "post"
AlreadyPosted(events) == \E e \in events : e.act = "post"

\* A posted pull request stays handled, a dismissed one until it moves.
Handled(events, moved) ==
  /\ Resolved(events)
  /\ Newest(events).act = "post" \/ moved <= Newest(events).time

-----------------------------------------------------------------------------
(* The folder.                                                               *)

NoFolder == [by |-> "none", done |-> FALSE, head |-> 0, at |-> 0, age |-> 0]

State(f) ==
  CASE f.by = "none"      -> "none"
    [] f.by # "none" /\ f.done -> "finished"
    [] OTHER -> IF f.age < Stale THEN "live" ELSE "stale"

\* A draft stamped after the decision is another question.
\* Mutant: whichever draft it is.
AnyDraft(f, time) == FALSE
DraftedAfter(f, time) == f.at > time

Idle == [pc |-> "idle", head |-> 0, read |-> NoFolder]

Init ==
  /\ rules \in Files
  /\ github = [open |-> TRUE, head |-> 1, hot |-> FALSE, moved |-> 0]
  /\ posted = 0 /\ folder = NoFolder
  /\ log = {} /\ device = {}
  /\ agent = [a \in Agent |-> Idle]
  /\ stamp = 0 /\ faults = 0 /\ repeats = 0

Become(a, to) == agent' = [agent EXCEPT ![a] = to]
Go(a, pc) == Become(a, [agent[a] EXCEPT !.pc = pc])

-----------------------------------------------------------------------------
(* An agent's work.                                                          *)

\* Mutant: a claim is never taken over.
Unclaimed ==
  /\ github.open /\ ActionFor(rules, github) # "skip"
  /\ State(folder) = "none" /\ ~Handled(log, github.moved)

\* The queue: open, not skipped, no draft that is finished or being written,
\* and not answered. Rules that cannot be read skip nothing.
Fresh ==
  /\ github.open
  /\ ActionFor(rules, github) # "skip"
  /\ State(folder) \in {"none", "stale"}
  /\ ~Handled(log, github.moved)

Select(a) ==
  /\ agent[a].pc = "idle" /\ Fresh
  /\ Go(a, "selected")
  /\ UNCHANGED <<rules, github, posted, folder, log, device, stamp, faults, repeats>>

\* The review looks at the folder again before it claims it.
Claim(a) ==
  /\ agent[a].pc = "selected" /\ stamp < MaxStamps
  /\ \/ /\ State(folder) \in {"none", "stale"}
        /\ stamp' = stamp + 1
        /\ folder' = [by |-> a, done |-> FALSE, head |-> github.head, at |-> stamp + 1, age |-> 0]
        /\ Become(a, [Idle EXCEPT !.pc = "writing", !.head = github.head])
     \/ /\ State(folder) \in {"live", "finished"}
        /\ Become(a, Idle)
        /\ UNCHANGED <<stamp, folder>>
  /\ UNCHANGED <<rules, github, posted, log, device, faults, repeats>>

\* The whole file is written over whatever is there by now.
Finish(a) ==
  /\ agent[a].pc = "writing" /\ stamp < MaxStamps
  /\ stamp' = stamp + 1
  /\ folder' = [by |-> a, done |-> TRUE, head |-> agent[a].head, at |-> stamp + 1, age |-> 0]
  /\ Become(a, [Idle EXCEPT !.pc = "drafted"])
  /\ UNCHANGED <<rules, github, posted, log, device, faults, repeats>>

\* post.js reads the finished draft and the rules, asks GitHub about the pull
\* request, and reads the log last; the head the draft reviewed must be the head.
ReadDraft(a) ==
  /\ agent[a].pc = "drafted"
  /\ Become(a, IF State(folder) = "finished" /\ rules.whole
               THEN [Idle EXCEPT !.pc = "asking", !.read = folder] ELSE Idle)
  /\ UNCHANGED <<rules, github, posted, folder, log, device, stamp, faults, repeats>>

MayPost(draft) ==
  /\ github.open
  /\ draft.head = github.head
  /\ ActionFor(rules, github) = "post"
  /\ ~AlreadyPosted(log)

\* Agents that checked the log and whose record is not in it yet.
AfterCheck == {a \in Agent : agent[a].pc \in {"posting", "posted"}}

\* What the log cannot say: that another agent is about to post, or that the
\* reader has, on a device that has not pushed it.
Check(a) ==
  /\ agent[a].pc = "asking"
  /\ Become(a, IF MayPost(agent[a].read) THEN [agent[a] EXCEPT !.pc = "posting", !.head = github.head] ELSE Idle)
  /\ repeats' = repeats + (IF MayPost(agent[a].read) /\ (AfterCheck # {} \/ AlreadyPosted(device)) THEN 1 ELSE 0)
  /\ UNCHANGED <<rules, github, posted, folder, log, device, stamp, faults>>

Post(a) ==
  /\ agent[a].pc = "posting"
  /\ posted' = posted + 1
  /\ Become(a, [Idle EXCEPT !.pc = "posted"])
  /\ UNCHANGED <<rules, github, folder, log, device, stamp, faults, repeats>>

\* What a post leaves in a log: two lines, a moment apart.
PostLines == {[act |-> "post", time |-> stamp + 1], [act |-> "dismiss", time |-> stamp + 2]}

Record(a) ==
  /\ agent[a].pc = "posted" /\ stamp + 1 < MaxStamps
  /\ stamp' = stamp + 2
  /\ log' = log \cup PostLines
  /\ Become(a, Idle)
  /\ UNCHANGED <<rules, github, posted, folder, device, faults, repeats>>

RecordFails(a) ==
  /\ agent[a].pc = "posted" /\ faults < MaxFaults
  /\ faults' = faults + 1 /\ repeats' = repeats + 1
  /\ Become(a, Idle)
  /\ UNCHANGED <<rules, github, posted, folder, log, device, stamp>>

\* prune-drafts.js run: the log is read, then the folder, then it is removed.
Prunable == Resolved(log) /\ folder # NoFolder /\ ~DraftedAfter(folder, Newest(log).time)

LookToPrune(a) ==
  /\ agent[a].pc = "idle" /\ Prunable
  /\ Become(a, [Idle EXCEPT !.pc = "pruning", !.read = folder])
  /\ UNCHANGED <<rules, github, posted, folder, log, device, stamp, faults, repeats>>

\* prune-drafts.js settled: closed or merged upstream, whatever was decided.
LookSettled(a) ==
  /\ agent[a].pc = "idle" /\ folder # NoFolder /\ ~github.open
  /\ Become(a, [Idle EXCEPT !.pc = "pruning", !.read = folder])
  /\ UNCHANGED <<rules, github, posted, folder, log, device, stamp, faults, repeats>>

Remove(a) ==
  /\ agent[a].pc = "pruning"
  /\ folder' = NoFolder
  /\ Become(a, Idle)
  /\ UNCHANGED <<rules, github, posted, log, device, stamp, faults, repeats>>

Die(a) ==
  /\ agent[a].pc # "idle" /\ faults < MaxFaults
  /\ faults' = faults + 1
  /\ repeats' = repeats + (IF agent[a].pc = "posted" THEN 1 ELSE 0)
  /\ Become(a, Idle)
  /\ UNCHANGED <<rules, github, posted, folder, log, device, stamp>>

-----------------------------------------------------------------------------
(* The reader, and GitHub.                                                   *)

Known == log \cup device

\* A decision is taken in the app on a draft it shows, and is stamped there.
Decide(acts) ==
  /\ stamp < MaxStamps
  /\ stamp' = stamp + 1
  /\ device' = device \cup {[act |-> act, time |-> stamp + 1] : act \in acts}
  /\ UNCHANGED <<rules, github, posted, folder, log, agent, faults, repeats>>

Dismiss == State(folder) # "none" /\ ~Resolved(Known) /\ Decide({"dismiss"})
Restore == Resolved(Known) /\ Decide({"restore"})

\* The reader sends the review from the app, which does not look at the rules,
\* nor at an agent between its check and its post; nor does an agent look at it.
ReaderPosts ==
  /\ State(folder) = "finished" /\ ~Resolved(Known) /\ stamp + 1 < MaxStamps
  /\ stamp' = stamp + 2
  /\ device' = device \cup PostLines
  /\ posted' = posted + 1
  /\ repeats' = repeats + (IF AfterCheck # {} \/ AlreadyPosted(Known) THEN 1 ELSE 0)
  /\ UNCHANGED <<rules, github, folder, log, agent, faults>>

Push ==
  /\ device # {}
  /\ log' = log \cup device /\ device' = {}
  /\ UNCHANGED <<rules, github, posted, folder, agent, stamp, faults, repeats>>

Moves ==
  /\ github.open /\ stamp < MaxStamps
  /\ stamp' = stamp + 1
  /\ \/ github' = [github EXCEPT !.head = @ + 1, !.moved = stamp + 1]
     \/ github' = [github EXCEPT !.hot = ~@, !.moved = stamp + 1]
     \/ github' = [github EXCEPT !.open = FALSE, !.moved = stamp + 1]
  /\ UNCHANGED <<rules, posted, folder, log, device, agent, faults, repeats>>

\* Time passes over a claim that is not being written to.
Age ==
  /\ State(folder) = "live"
  /\ folder' = [folder EXCEPT !.age = @ + 1]
  /\ UNCHANGED <<rules, github, posted, log, device, agent, stamp, faults, repeats>>

\* An agent goes on with what it began.
Work(a) ==
  \/ Claim(a) \/ Finish(a) \/ ReadDraft(a) \/ Check(a) \/ Post(a) \/ Record(a) \/ Remove(a)

Next ==
  \/ \E a \in Agent :
       \/ Work(a) \/ Select(a) \/ RecordFails(a) \/ LookToPrune(a) \/ LookSettled(a) \/ Die(a)
  \/ Dismiss \/ Restore \/ ReaderPosts \/ Push \/ Moves \/ Age

Spec == Init /\ [][Next]_vars

\* The sweep is scheduled every hour, an agent that lives gets on with its
\* work, and time passes. Nothing is assumed of the reader or of GitHub.
Fairness == WF_vars(Age) /\ \A a \in Agent : WF_vars(Work(a)) /\ SF_vars(Select(a))

FairSpec == Spec /\ Fairness

-----------------------------------------------------------------------------
(* What must hold.                                                           *)

TypeOK ==
  /\ rules \in Files
  /\ github \in [open : BOOLEAN, head : Nat, hot : BOOLEAN, moved : 0..MaxStamps]
  /\ posted \in Nat
  /\ folder.by \in Agent \cup {"none"} /\ folder.at \in 0..MaxStamps /\ folder.age \in 0..Stale
  /\ log \subseteq Decision /\ device \subseteq Decision
  /\ DOMAIN agent = Agent /\ stamp \in 0..MaxStamps /\ faults \in 0..MaxFaults /\ repeats \in Nat

\* One review is posted, by the sweep or by the reader, unless one was posted
\* while an agent was between its check and its record, an agent checked before
\* the reader's post had reached the log, a record was lost, or the reader asked
\* for the draft again and sent it (post.js alreadyPosted and run).
PostsOnce == posted <= 1 + repeats

\* A pull request that was never skipped by the rules nor closed when the sweep
\* looked is not pruned under a reader who has not answered that draft: pruning
\* for a decision only takes the draft the decision was about, or one written
\* since the look (prune-drafts.js draftedAfter).
PrunesAnswered == \A a \in Agent :
  agent[a].pc = "pruning" /\ folder' = NoFolder /\ folder = agent[a].read /\ github.open
    => \E e \in log : e.act \in {"post", "dismiss"} /\ folder.at <= e.time
PruneSparesUnanswered == [][PrunesAnswered]_vars

\* A claim left by a dead agent does not keep its pull request from the reader:
\* it is finished, or the pull request is closed, answered or skipped.
Claimed == State(folder) \in {"live", "stale"}
Freed ==
  \/ State(folder) \in {"none", "finished"}
  \/ ~github.open \/ Resolved(log) \/ ActionFor(rules, github) = "skip"
  \/ stamp + 1 >= MaxStamps
ClaimsComeToAnEnd == Claimed ~> Freed
===============================================================================
