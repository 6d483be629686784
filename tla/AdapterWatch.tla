----------------------------- MODULE AdapterWatch -----------------------------
(* The watch every adapter runs (web/src/adapters/adapter.js): a timer that  *)
(* starts a round every two seconds whether or not the last one has ended,   *)
(* one listing per watch, the difference from the last listing told to the   *)
(* watcher, and the reader told once when the storage goes quiet and once    *)
(* when it is back. A source has two watches, and leaving it stops both.     *)
EXTENDS Naturals, Sequences

CONSTANTS
  Round,       \* rounds under way at once
  Quiet,       \* listings in a row that have to fail
  MaxChanges,  \* changes anyone makes to the storage
  MaxOutages   \* how often a listing stops or starts being answered

Bounds == Quiet \in Nat \ {0} /\ {MaxChanges, MaxOutages} \subseteq Nat

VARIABLES
  stored,    \* by watch, what a listing would show; 0 is nothing at all
  up,        \* the prefixes that can be listed
  watch,     \* the watches
  timer,
  round,     \* the rounds under way
  troubled,  \* what the reader was last told
  changes, outages,
  slid,      \* watches one of whose listings a change overtook, or whose first found nothing (history)
  toldOf     \* by watch, what the storage held when it was last told to look (history)

storage == <<stored, up>>
bounds == <<changes, outages>>
history == <<slid, toldOf>>
vars == <<storage, watch, timer, round, troubled, bounds, history>>

Watch == {"drafts", "decisions"}

Held == 1                                     \* what may be there before anything changes
Unseen == Held + MaxChanges + 1               \* marks: null
Fail == Held + MaxChanges + 2                 \* an answer that is a failure

Resting == [left |-> <<>>, got |-> Unseen]

Init ==
  /\ stored = [drafts |-> Held, decisions |-> 0] /\ up = Watch
  /\ watch = [w \in Watch |-> [state |-> "new", marks |-> Unseen, failures |-> 0]]
  /\ timer = FALSE /\ round = [r \in Round |-> Resting] /\ troubled = FALSE
  /\ changes = 0 /\ outages = 0
  /\ slid = {} /\ toldOf = stored

On == {w \in Watch : watch[w].state = "on"}

-----------------------------------------------------------------------------
(* Watching and stopping.                                                    *)

\* The source has just been read when it is watched.
Begin(w) ==
  /\ watch[w].state = "new"
  /\ \A u \in Watch : watch[u].state # "stopped"
  /\ watch' = [watch EXCEPT ![w].state = "on"]
  /\ timer' = TRUE
  /\ toldOf' = [toldOf EXCEPT ![w] = stored[w]]
  /\ UNCHANGED <<storage, round, troubled, bounds, slid>>

\* Mutant: the first watch that stops takes the timer with it.
TimerStopped(w) == FALSE

\* The timer stays while any watch does.
TimerAfter(w) == timer /\ On # {w}

Stop(w) ==
  /\ w \in On
  /\ watch' = [watch EXCEPT ![w].state = "stopped"]
  /\ timer' = TimerAfter(w)
  /\ UNCHANGED <<storage, round, troubled, bounds, history>>

-----------------------------------------------------------------------------
(* A round, over the watches there were when it began.                       *)

Queues == {<<>>, <<"drafts">>, <<"decisions">>, <<"drafts", "decisions">>}

Beat(r) == \E queue \in Queues :
  /\ timer /\ round[r].left = <<>>
  /\ {queue[n] : n \in DOMAIN queue} = On
  /\ round' = [round EXCEPT ![r].left = queue]
  /\ UNCHANGED <<storage, watch, timer, troubled, bounds, history>>

Answer(r) ==
  /\ round[r].left # <<>> /\ round[r].got = Unseen
  /\ LET w == Head(round[r].left)
     IN  round' = [round EXCEPT ![r].got = IF w \in up THEN stored[w] ELSE Fail]
  /\ UNCHANGED <<storage, watch, timer, troubled, bounds, history>>

\* Counted up to where it is compared.
Missed(n) == IF n < Quiet THEN n + 1 ELSE n

Noted(seen, got) ==
  IF got = Fail THEN [seen EXCEPT !.failures = Missed(@)]
  ELSE [seen EXCEPT !.failures = 0, !.marks = got]

\* Mutant: what is no longer listed is not reported.
NewsListed(seen, got) == got \notin {Fail, 0, seen.marks}

\* The first look is all news, unless it finds nothing.
News(seen, got) == got # Fail /\ got # (IF seen.marks = Unseen THEN 0 ELSE seen.marks)

FailingIn(watches) == {w \in Watch : watches[w].state = "on" /\ watches[w].failures >= Quiet}

\* After the last listing of a round the reader is told what changed, once.
Tell(watches) == FailingIn(watches) # {}

Handle(r) ==
  LET w == Head(round[r].left)  got == round[r].got  rest == Tail(round[r].left) IN
  /\ round[r].left # <<>> /\ got # Unseen
  /\ watch' = [watch EXCEPT ![w] = Noted(@, got)]
  /\ toldOf' = IF News(watch[w], got) THEN [toldOf EXCEPT ![w] = stored[w]] ELSE toldOf
  /\ slid' = IF watch[w].marks = Unseen /\ got = 0 /\ toldOf[w] # 0 THEN slid \cup {w} ELSE slid
  /\ round' = [round EXCEPT ![r] = [left |-> rest, got |-> Unseen]]
  /\ troubled' = IF rest = <<>> THEN Tell(watch') ELSE troubled
  /\ UNCHANGED <<storage, timer, bounds>>

-----------------------------------------------------------------------------
(* The storage.                                                              *)

\* A listing on its way back, from before a change.
Overtaken(w) == \E r \in Round :
  round[r].left # <<>> /\ Head(round[r].left) = w /\ round[r].got \notin {Unseen, Fail}

\* A write leaves a mark of its own; a removal leaves nothing, as before.
Change(w) ==
  /\ changes < MaxChanges
  /\ changes' = changes + 1
  /\ \E to \in {0, Held + changes + 1} : stored[w] # to /\ stored' = [stored EXCEPT ![w] = to]
  /\ slid' = IF Overtaken(w) THEN slid \cup {w} ELSE slid
  /\ UNCHANGED <<up, watch, timer, round, troubled, outages, toldOf>>

StopOrStart(w) ==
  /\ outages < MaxOutages
  /\ outages' = outages + 1
  /\ up' = IF w \in up THEN up \ {w} ELSE up \cup {w}
  /\ UNCHANGED <<stored, watch, timer, round, troubled, changes, history>>

Next ==
  \/ \E w \in Watch : Begin(w) \/ Stop(w) \/ Change(w) \/ StopOrStart(w)
  \/ \E r \in Round : Beat(r) \/ Answer(r) \/ Handle(r)

Spec == Init /\ [][Next]_vars

\* The timer fires, and every listing is answered or refused in the end.
Work(r) == Beat(r) \/ Answer(r) \/ Handle(r)

FairSpec == Spec /\ \A r \in Round : WF_vars(Work(r))

-----------------------------------------------------------------------------
(* What must hold.                                                           *)

Mark == 0..(Held + MaxChanges)

TypeOK ==
  /\ stored \in [Watch -> Mark] /\ up \subseteq Watch
  /\ watch \in [Watch -> [state : {"new", "on", "stopped"}, marks : Mark \cup {Unseen}, failures : 0..Quiet]]
  /\ {timer, troubled} \subseteq BOOLEAN
  /\ round \in [Round -> [left : Queues, got : Mark \cup {Unseen, Fail}]]
  /\ changes \in 0..MaxChanges /\ outages \in 0..MaxOutages
  /\ slid \subseteq Watch /\ toldOf \in [Watch -> Mark]

\* When the last listing of a watch is what the storage holds, its watcher was
\* told to look since the storage came to hold it: rounds that overlap lose no
\* news, unless a change overtook a listing or there was nothing at the first
\* look (adapter.js poll).
NewsIsTold == \A w \in On \ slid : watch[w].marks = stored[w] => toldOf[w] = stored[w]

\* A watch whose listings go on failing is told, whatever else is stopped and
\* however the rounds fall (adapter.js QUIET, "noticed here or nowhere").
Silent(w) == w \in On /\ w \notin up
SilenceIsTold == \A w \in Watch : Silent(w) ~> troubled \/ ~Silent(w)
===============================================================================
