------------------------------- MODULE MCParts -------------------------------
(* The parts of the app and of the collector that share no state, checked    *)
(* side by side: the initial state picks one of them, and the slots v1 to    *)
(* v21 hold that part's variables, in the order its module declares them.    *)
EXTENDS Naturals, Sequences, FiniteSets, TLC

CONSTANTS
  Parts,        \* the parts checked
  Actor,        \* whoever acts at once: sweeps, adapter calls, openings, rounds
  Storage,      \* the storages that can be attached
  PullDrafts, Events, Presses,     \* Posting
  Stamps,                          \* Sweep
  Commits,                         \* GitClone
  Asks, Decisions,                 \* SourceSwitch
  Changes,                         \* AdapterWatch
  Lines,                           \* TextDiff
  Sends,                           \* AgentChat
  Opens,                           \* Selecting
  Writings,                        \* Writing
  Corrections,                     \* Settings
  Choices,                         \* Review
  Requests,                        \* Backends
  StaleAfter, QuietAfter, Faults, Outages  \* several of them

VARIABLES part, v1, v2, v3, v4, v5, v6, v7, v8, v9, v10, v11,
  v12, v13, v14, v15, v16, v17, v18, v19, v20, v21

slots == <<v1, v2, v3, v4, v5, v6, v7, v8, v9, v10, v11, v12, v13, v14, v15, v16, v17, v18, v19, v20, v21>>
vars == <<part, slots>>

Empty == 0     \* what a slot the part does not need holds

Symmetry == Permutations(Actor) \cup Permutations(Storage)

-----------------------------------------------------------------------------
Posting == INSTANCE Posting WITH
  MaxDrafts <- [pull |-> PullDrafts, issue |-> 1], MaxEvents <- Events, MaxPresses <- Presses,
  MaxFaults <- Faults, Stagings <- {{"labels", "comment", "close"}}, MaxMoves <- 1,
  kind <- v1, staged <- v2, draft <- v3, drafts <- v4, log <- v5, sheet <- v6, sends <- v7,
  read <- v8, hub <- v9, moves <- v10, faults <- v11, presses <- v12, shown <- v13,
  answered <- v14, excused <- v15

Sweep == INSTANCE Sweep WITH
  Agent <- Actor, Stale <- StaleAfter, MaxStamps <- Stamps, MaxFaults <- Faults,
  rules <- v1, github <- v2, posted <- v3, folder <- v4, log <- v5, device <- v6, agent <- v7,
  stamp <- v8, faults <- v9, repeats <- v10

GitClone == INSTANCE GitClone WITH
  Task <- Actor, MaxCommits <- Commits, MaxFaults <- Faults,
  browser <- v1, remote <- v2, head <- v3, origin <- v4, index <- v5, work <- v6, torn <- v7,
  task <- v8, commits <- v9, faults <- v10, ended <- v11, beaten <- v12, crossed <- v13,
  cut <- v14

SourceSwitch == INSTANCE SourceSwitch WITH
  Source <- Storage, Opening <- Actor, MaxAsks <- Asks, MaxDecisions <- Decisions, MaxOutages <- Outages,
  attached <- v1, gone <- v2, source <- v3, adapter <- v4, drafts <- v5, problem <- v6,
  watching <- v7, timer <- v8, held <- v9, up <- v10, openings <- v11, selected <- v12,
  calls <- v13, waiting <- v14, logs <- v15, files <- v16, asks <- v17, decisions <- v18,
  outages <- v19, overlapped <- v20, hurried <- v21

AdapterWatch == INSTANCE AdapterWatch WITH
  Round <- Actor, Quiet <- QuietAfter, MaxChanges <- Changes, MaxOutages <- Outages,
  stored <- v1, up <- v2, watch <- v3, timer <- v4, round <- v5, troubled <- v6, changes <- v7,
  outages <- v8, slid <- v9, toldOf <- v10

TextDiff == INSTANCE TextDiff WITH
  Line <- {"", "a"}, MaxLines <- Lines, Context <- 1,
  live <- v1, proposed <- v2, hunks <- v3, rejected <- v4, refused <- v5, shifted <- v6

AgentChat == INSTANCE AgentChat WITH
  MaxDrafts <- 2, MaxSends <- Sends, MaxFaults <- 2,
  draft <- v1, fork <- v2, chat <- v3, run <- v4, events <- v5, sends <- v6, faults <- v7,
  forks <- v8, lost <- v9, replies <- v10, crossed <- v11

Selecting == INSTANCE Selecting WITH
  Pull <- {"plain", "rewritten"}, Issue <- {"issue"}, Rewritten <- {"rewritten"}, MaxOpens <- Opens, MaxRefusals <- 1,
  selected <- v1, pane <- v2, trouble <- v3, calls <- v4, opens <- v5, refusals <- v6,
  posted <- v7, crossed <- v8

Writing == INSTANCE Writing WITH
  Item <- Storage, Approved <- Storage, MaxDrafts <- 2, MaxNews <- 1,
  MaxEdits <- Writings, MaxWords <- 1, MaxOpens <- Writings,
  selected <- v1, filtered <- v2, draft <- v3, unfinished <- v4, news <- v5, posted <- v6,
  calls <- v7, opens <- v8, box <- v9, leaving <- v10, card <- v11, edits <- v12, kept <- v13,
  sent <- v14, typed <- v15, cut <- v16, crossed <- v17, carried <- v18, under <- v19

Settings == INSTANCE Settings WITH
  Source <- Storage, Call <- Actor, MaxAsks <- Corrections, MaxFaults <- Faults,
  attached <- v1, gone <- v2, place <- v3, secret <- v4, open <- v5, reader <- v6, health <- v7,
  call <- v8, sweeps <- v9, landed <- v10, asks <- v11, faults <- v12, unproven <- v13,
  failed <- v14, outrun <- v15, mixed <- v16

Review == INSTANCE Review WITH
  Pull <- {"pull", "my pull"}, Mine <- {"my pull"}, Issue <- {"issue"}, Finding <- {"finding"}, Own <- {"comment"},
  Label <- {"triage", "bug"}, MaxDrafts <- 2, MaxSteps <- Choices, MaxWords <- 2,
  queue <- v1, draft <- v2, pulls <- v3, findings <- v4, own <- v5, reading <- v6, sent <- v7,
  steps <- v8, written <- v9, agreed <- v10, chosen <- v11, reverted <- v12

Backends == INSTANCE Backends WITH
  Path <- {1, 2}, Seeded <- {1, 2}, Large <- {1}, Task <- Actor, PageSize <- 1, TreeLimit <- 1,
  MaxWrites <- Requests, MaxRemovals <- 1, MaxCalls <- Requests, MaxFaults <- Faults,
  kind <- v1, store <- v2, call <- v3, told <- v4, writes <- v5, removals <- v6, calls <- v7, faults <- v8

Clones == INSTANCE Clones WITH
  Source <- {"source"}, Reader <- Actor, MaxAsks <- Requests, MaxOutages <- Outages, MaxFaults <- Faults,
  browser <- v1, source <- v2, disk <- v3, online <- v4, reader <- v5, told <- v6, asks <- v7,
  outages <- v8, faults <- v9, cut <- v10, taken <- v11, left <- v12

Accounts == INSTANCE Accounts WITH
  Destination <- Storage, Account <- {"one", "two"}, Call <- Actor, MaxAsks <- Opens, MaxFaults <- Faults,
  listed <- v1, gone <- v2, token <- v3, preference <- v4, destinationId <- v5, destination <- v6,
  login <- v7, problem <- v8, call <- v9, asks <- v10, faults <- v11, overlapped <- v12,
  failed <- v13, mixed <- v14, orphaned <- v15

Panel == INSTANCE Panel WITH
  Source <- {"source"}, Destination <- Storage, Call <- Actor, MaxAsks <- Opens, MaxWords <- 1,
  visible <- v1, listed <- v2, gone <- v3, stored <- v4, setup <- v5, settingsSelection <- v6,
  call <- v7, asks <- v8, words <- v9, owed <- v10, chosen <- v11, crossed <- v12, swept <- v13

Shell == INSTANCE OfflineShell WITH
  Page <- Actor, MaxChanges <- Changes, MaxLoads <- Requests, MaxOutages <- Outages,
  site <- v1, up <- v2, held <- v3, worker <- v4, caches <- v5, page <- v6, puts <- v7, loads <- v8,
  outages <- v9, last <- v10, overtaken <- v11, stored <- v12, aside <- v13

Recordings == INSTANCE Recordings WITH
  Recording <- Actor, MaxReads <- Opens,
  open <- v1, filtered <- v2, held <- v3, page <- v4, reads <- v5, begun <- v6, alive <- v7,
  cut <- v8, taken <- v9

Reading == INSTANCE Reading WITH
  Pull <- {"pull"}, MaxDrafts <- PullDrafts, MaxTurns <- Outages,
  app <- v1, drafts <- v2, marks <- v3, flagged <- v4, written <- v5, turns <- v6, closed <- v7,
  moved <- v8

ASSUME Bounded ==
  /\ Posting!Bounds /\ Sweep!Bounds /\ GitClone!Bounds /\ SourceSwitch!Bounds
  /\ AdapterWatch!Bounds /\ TextDiff!Bounds /\ AgentChat!Bounds /\ Selecting!Bounds
  /\ Writing!Bounds /\ Settings!Bounds /\ Review!Bounds /\ Backends!Bounds
  /\ Clones!Bounds /\ Accounts!Bounds /\ Panel!Bounds /\ Shell!Bounds
  /\ Recordings!Bounds /\ Reading!Bounds

-----------------------------------------------------------------------------
(* One part, and the slots it leaves alone.                                  *)

After19 == <<v20, v21>>
After16 == <<v17, v18, v19, After19>>
After15 == <<v16, After16>>
After14 == <<v15, After15>>
After13 == <<v14, After14>>
After12 == <<v13, After13>>
After11 == <<v12, After12>>
After10 == <<v11, After11>>
After9 == <<v10, After10>>
After8 == <<v9, After9>>
After6 == <<v7, v8, After8>>

Empty19 == v20 = Empty /\ v21 = Empty
Empty16 == v17 = Empty /\ v18 = Empty /\ v19 = Empty /\ Empty19
Empty15 == v16 = Empty /\ Empty16
Empty14 == v15 = Empty /\ Empty15
Empty13 == v14 = Empty /\ Empty14
Empty12 == v13 = Empty /\ Empty13
Empty11 == v12 = Empty /\ Empty12
Empty10 == v11 = Empty /\ Empty11
Empty9 == v10 = Empty /\ Empty10
Empty8 == v9 = Empty /\ Empty9
Empty6 == v7 = Empty /\ v8 = Empty /\ Empty8

Init ==
  /\ part \in Parts
  /\ \/ part = "posting" /\ Posting!Init /\ Empty15
     \/ part = "sweep" /\ Sweep!Init /\ Empty10
     \/ part = "clone" /\ GitClone!Init /\ Empty14
     \/ part = "switch" /\ SourceSwitch!Init
     \/ part = "watch" /\ AdapterWatch!Init /\ Empty10
     \/ part = "rewrite" /\ TextDiff!Init /\ Empty6
     \/ part = "chat" /\ AgentChat!Init /\ Empty11
     \/ part = "pane" /\ Selecting!Init /\ Empty8
     \/ part = "writing" /\ Writing!Init /\ Empty19
     \/ part = "settings" /\ Settings!Init /\ Empty16
     \/ part = "review" /\ Review!Init /\ Empty12
     \/ part = "storage" /\ Backends!Init /\ Empty8
     \/ part = "folder" /\ Clones!Init /\ Empty12
     \/ part = "account" /\ Accounts!Init /\ Empty15
     \/ part = "panel" /\ Panel!Init /\ Empty13
     \/ part = "shell" /\ Shell!Init /\ Empty13
     \/ part = "recordings" /\ Recordings!Init /\ Empty9
     \/ part = "screen" /\ Reading!Init /\ Empty8

PostingStep == part = "posting" /\ Posting!Next /\ UNCHANGED <<part, After15>>
SweepStep == part = "sweep" /\ Sweep!Next /\ UNCHANGED <<part, After10>>
GitCloneStep == part = "clone" /\ GitClone!Next /\ UNCHANGED <<part, After14>>
SourceSwitchStep == part = "switch" /\ SourceSwitch!Next /\ UNCHANGED part
AdapterWatchStep == part = "watch" /\ AdapterWatch!Next /\ UNCHANGED <<part, After10>>
TextDiffStep == part = "rewrite" /\ TextDiff!Next /\ UNCHANGED <<part, After6>>
AgentChatStep == part = "chat" /\ AgentChat!Next /\ UNCHANGED <<part, After11>>
SelectingStep == part = "pane" /\ Selecting!Next /\ UNCHANGED <<part, After8>>
WritingStep == part = "writing" /\ Writing!Next /\ UNCHANGED <<part, After19>>
SettingsStep == part = "settings" /\ Settings!Next /\ UNCHANGED <<part, After16>>
ReviewStep == part = "review" /\ Review!Next /\ UNCHANGED <<part, After12>>
BackendsStep == part = "storage" /\ Backends!Next /\ UNCHANGED <<part, After8>>
ClonesStep == part = "folder" /\ Clones!Next /\ UNCHANGED <<part, After12>>
AccountsStep == part = "account" /\ Accounts!Next /\ UNCHANGED <<part, After15>>
PanelStep == part = "panel" /\ Panel!Next /\ UNCHANGED <<part, After13>>
ShellStep == part = "shell" /\ Shell!Next /\ UNCHANGED <<part, After13>>
RecordingsStep == part = "recordings" /\ Recordings!Next /\ UNCHANGED <<part, After9>>
ReadingStep == part = "screen" /\ Reading!Next /\ UNCHANGED <<part, After8>>

Next ==
  \/ PostingStep
  \/ SweepStep
  \/ GitCloneStep
  \/ SourceSwitchStep
  \/ AdapterWatchStep
  \/ TextDiffStep
  \/ AgentChatStep
  \/ SelectingStep
  \/ WritingStep
  \/ SettingsStep
  \/ ReviewStep
  \/ BackendsStep
  \/ ClonesStep
  \/ AccountsStep
  \/ PanelStep
  \/ ShellStep
  \/ RecordingsStep
  \/ ReadingStep

Spec == Init /\ [][Next]_vars

-----------------------------------------------------------------------------
(* Fairness, part by part as its module states it.                           *)

PostingWork == part = "posting" /\ Posting!Work /\ UNCHANGED <<part, After15>>
SweepAge == part = "sweep" /\ Sweep!Age /\ UNCHANGED <<part, After10>>
SweepWork(a) == part = "sweep" /\ Sweep!Work(a) /\ UNCHANGED <<part, After10>>
SweepSelect(a) == part = "sweep" /\ Sweep!Select(a) /\ UNCHANGED <<part, After10>>
WatchWork(r) == part = "watch" /\ AdapterWatch!Work(r) /\ UNCHANGED <<part, After10>>

FairSpec ==
  /\ Spec
  /\ WF_vars(PostingWork) /\ WF_vars(SweepAge)
  /\ \A a \in Actor : WF_vars(SweepWork(a)) /\ SF_vars(SweepSelect(a)) /\ WF_vars(WatchWork(a))

-----------------------------------------------------------------------------
(* What each part promises, where its module states it.                      *)

\* The state of every part is well formed. A decision about a hunk names one
\* that is drawn, also after the same text was put above both bodies
\* (text-diff.js, "the id is a hash of what the hunk says").
PartsTypeOK ==
  /\ part = "posting" => Posting!TypeOK
  /\ part = "sweep" => Sweep!TypeOK
  /\ part = "clone" => GitClone!TypeOK
  /\ part = "switch" => SourceSwitch!TypeOK
  /\ part = "watch" => AdapterWatch!TypeOK
  /\ part = "rewrite" => TextDiff!TypeOK
  /\ part = "chat" => AgentChat!TypeOK
  /\ part = "pane" => Selecting!TypeOK
  /\ part = "writing" => Writing!TypeOK
  /\ part = "settings" => Settings!TypeOK
  /\ part = "review" => Review!TypeOK
  /\ part = "storage" => Backends!TypeOK
  /\ part = "folder" => Clones!TypeOK
  /\ part = "account" => Accounts!TypeOK
  /\ part = "panel" => Panel!TypeOK
  /\ part = "shell" => Shell!TypeOK
  /\ part = "recordings" => Recordings!TypeOK
  /\ part = "screen" => Reading!TypeOK

\* Nothing goes to GitHub twice without a reason, a triage's comment included,
\* no issue is closed before the comment that says why, and a triage recorded as posted is all on the
\* issue (Posting; confirm.js post, postTriage).
SendsHold ==
  part = "posting" =>
    /\ Posting!SendsExplained
    /\ Posting!ClosedWithReason /\ Posting!RecordedMeansLanded

\* A draft the reader never decided about is on the queue, and what the reader
\* opens of it is on the screen (Posting, Reading; Queries._dismissal,
\* summary.js blankState, rail.js).
UnseenReachesReader ==
  /\ part = "posting" => Posting!UnseenReachesReader
  /\ part = "screen" => Reading!NeverBlank /\ Reading!FilterIsListed

\* One review is posted of a pull request, by the sweep or by the reader (Sweep;
\* post.js alreadyPosted).
PostsOnce == part = "sweep" => Sweep!PostsOnce

\* A write or removal answered well is on the host, and one whose push was
\* beaten once gets through (GitClone; git.js _send).
SendsLand == part = "clone" => GitClone!AnsweredMeansLanded /\ GitClone!BeatenOnceLands

\* Nothing is replaced or removed that nobody looked at: no rewrite replaces a
\* body that had moved when it was looked at again (Posting; confirm.js
\* postTriage), pruning spares a draft nobody answered (Sweep; prune-drafts.js),
\* and a push only removes the draft that was cleared (GitClone; git.js remove).
NothingUnseenLost ==
  [][/\ part = "posting" => Posting!OverwritesWhatWasRead
     /\ part = "sweep" => Sweep!PrunesAnswered
     /\ part = "clone" => GitClone!ReplacesWhatWasSeen]_vars

\* A review that goes out says what the reader agreed to (Review; review.js
\* reviewPayload).
SendsAsAgreed == [][part = "review" => Review!SendsWhatWasAgreed]_vars

\* After an opening everything read is of one source, which is asked again,
\* and a source's log and storage hold its own decisions (SourceSwitch; app.js
\* _openSource, multi-event-store.js).
SourcesApart == part = "switch" => SourceSwitch!OneSource /\ SourceSwitch!NothingMixes

\* What a round found new was told (AdapterWatch; adapter.js poll).
NewsIsTold == part = "watch" => AdapterWatch!NewsIsTold

\* What is sent of a rewrite is what the pane shows (TextDiff; applyHunks).
SentAsShown == part = "rewrite" => TextDiff!SentAsShown

\* A draft's session is forked once, and only its own, and a message's end is
\* told once (AgentChat; agent-chat.js send).
AgentHeardOnce == part = "chat" => AgentChat!OneForkOfItsAgent /\ AgentChat!ToldOnce

\* The pane shows nothing of another item, and the recordings it shows are
\* held, read and given back (Selecting, Recordings; app.js select, qa.js).
PaneIsOfSelected ==
  /\ part = "pane" => Selecting!PaneIsOfSelected
  /\ part = "recordings" => Recordings!GivenBack /\ Recordings!NoneShownGone /\ Recordings!NoneStaysEmpty

\* The words a reader typed stay with what they were typed over, and those in a
\* form of the settings until they are saved or given up (Writing, Panel;
\* view.js, summary.js, description-pane.js, findings.js, header.js).
WordsStay ==
  /\ part = "writing" => Writing!WordsStay
  /\ part = "panel" => Panel!TypedStays /\ Panel!PanelIsOfChosen

\* A source's storage and credential were shown to work together, a source
\* forgotten leaves none, and a row of the settings says how its source is
\* (Settings; app.js editSource, removeSource, probeSources).
SettingsTrue == part = "settings" => Settings!SourceHoldsTogether /\ Settings!HealthIsCurrent

\* What is answered through a clone is the repository's, and a clone goes with
\* its source (Clones; git.js _open, forget).
ClonesHold == part = "folder" => Clones!AnswersAreWhole /\ Clones!NothingLeftBehind

\* A review goes out as the account the panel shows, through the destination
\* that is open, and a token goes with its destination (Accounts; app.js
\* _openDestination, removeDestination).
AccountsHold ==
  part = "account" => Accounts!PostsAsShown /\ Accounts!OpenIsKept /\ Accounts!TokensForgotten

\* The interface that is shown is the one deployed, and one that was kept whole
\* starts without a network (OfflineShell; sw.js, offline.js, reload.go).
ShellHolds ==
  part = "shell" => Shell!OnlineIsFresh /\ Shell!StartsOffline /\ Shell!CopyIsLatest /\ Shell!EditsAreSeen

\* What a storage answers was so (Backends; s3.js, github.js, filesystem.js,
\* tauri.js, demo.js).
AnswersHold == [][part = "storage" => Backends!AnswersHold]_vars

\* A press comes to an end (Posting; confirm.js post).
Sending == part = "posting" /\ Posting!Sending
PressResolves == Sending ~> ~Sending

\* A dead agent's claim comes to an end (Sweep; draft-state.js).
Claimed == part = "sweep" /\ Sweep!Claimed
ClaimsComeToAnEnd == Claimed ~> part # "sweep" \/ Sweep!Freed

\* A storage that went quiet is told (AdapterWatch; adapter.js _tell).
Silent(w) == part = "watch" /\ AdapterWatch!Silent(w)
Troubled == part = "watch" /\ v6
SilenceIsTold == \A w \in {"drafts", "decisions"} : Silent(w) ~> Troubled \/ ~Silent(w)
===============================================================================
