----------------------------- MODULE PartsProofs -----------------------------
(* What every part guarantees on its own, carried to MCParts, where the parts *)
(* are checked side by side: the part that was picked takes its own steps.    *)
EXTENDS MCParts, TLAPS

Pane == INSTANCE PaneProofs WITH
  Pull <- {"plain", "rewritten"}, Issue <- {"issue"}, Rewritten <- {"rewritten"}, MaxOpens <- Opens, MaxRefusals <- 1,
  selected <- v1, pane <- v2, trouble <- v3, calls <- v4, opens <- v5, refusals <- v6,
  posted <- v7, crossed <- v8,
  Recording <- Actor, MaxReads <- Opens,
  open <- v1, filtered <- v2, held <- v3, page <- v4, reads <- v5, begun <- v6, alive <- v7,
  cut <- v8, taken <- v9,
  Listed <- {"pull"}, MaxDrafts <- PullDrafts, MaxTurns <- Outages,
  app <- v1, drafts <- v2, marks <- v3, flagged <- v4, written <- v5, turns <- v6, closed <- v7,
  moved <- v8,
  Source <- {"source"}, Destination <- Storage, Waiting <- Actor, MaxAsks <- Opens, MaxWords <- 1,
  visible <- v1, listed <- v2, gone <- v3, stored <- v4, setup <- v5, settingsSelection <- v6,
  call <- v7, asks <- v8, words <- v9, owed <- v10, chosen <- v11, late <- v12, swept <- v13,
  Piece <- Storage, Approved <- Storage, MaxRedrafts <- 2, MaxNews <- 1,
  MaxEdits <- Writings, MaxWritings <- 1, MaxLooks <- Writings,
  proposal <- v3, unfinished <- v4, news <- v5, reviewed <- v6,
  loading <- v7, looks <- v8, box <- v9, leaving <- v10, comment <- v11, edits <- v12, recorded <- v13,
  sent <- v14, typed <- v15, givenUp <- v16, met <- v17, carried <- v18, under <- v19

App == INSTANCE AppProofs WITH
  MaxDrafts <- [pull |-> PullDrafts, issue |-> 1], MaxEvents <- Events, MaxPresses <- Presses,
  MaxFaults <- Faults, Stagings <- {{"labels", "comment", "close"}}, MaxMoves <- 1,
  kind <- v1, staged <- v2, draft <- v3, drafts <- v4, log <- v5, sheet <- v6, sends <- v7,
  read <- v8, hub <- v9, moves <- v10, faults <- v11, presses <- v12, shown <- v13,
  answered <- v14, excused <- v15,
  Destination <- Storage, Account <- {"one", "two"}, Call <- Actor, MaxAsks <- Opens, MaxFalters <- Faults,
  listed <- v1, gone <- v2, token <- v3, preference <- v4, destinationId <- v5, destination <- v6,
  login <- v7, problem <- v8, call <- v9, asks <- v10, falters <- v11, overlapped <- v12,
  failed <- v13, mixed <- v14, orphaned <- v15,
  Source <- Storage, Opening <- Actor, MaxRequests <- Asks, MaxDecisions <- Decisions, MaxOutages <- Outages,
  attached <- v1, removed <- v2, source <- v3, adapter <- v4, written <- v5, alert <- v6,
  watching <- v7, timer <- v8, held <- v9, up <- v10, openings <- v11, selected <- v12,
  calls <- v13, waiting <- v14, logs <- v15, files <- v16, requests <- v17, decisions <- v18,
  outages <- v19, entangled <- v20, hurried <- v21,
  Round <- Actor, Patience <- QuietAfter, MaxChanges <- Changes, MaxStops <- Outages,
  stored <- v1, answering <- v2, watch <- v3, ticking <- v4, round <- v5, troubled <- v6, changes <- v7,
  stops <- v8, slid <- v9, toldOf <- v10,
  MaxCorrections <- Corrections, MaxSlips <- Faults,
  place <- v3, secret <- v4, open <- v5, built <- v6, health <- v7,
  edit <- v8, sweeps <- v9, arrived <- v10, corrections <- v11, slips <- v12, unproven <- v13,
  refused <- v14, outrun <- v15, blended <- v16

Sweeping == INSTANCE SweepProofs WITH
  Agent <- Actor, Stale <- StaleAfter, MaxStamps <- Stamps, MaxFaults <- Faults,
  rules <- v1, github <- v2, posted <- v3, folder <- v4, log <- v5, device <- v6, agent <- v7,
  stamp <- v8, faults <- v9, repeats <- v10,
  Task <- Actor, MaxCommits <- Commits, MaxFalters <- Faults,
  browser <- v1, remote <- v2, head <- v3, origin <- v4, index <- v5, work <- v6, torn <- v7,
  task <- v8, commits <- v9, falters <- v10, ended <- v11, beaten <- v12, crossed <- v13,
  cut <- v14,
  Path <- {1, 2}, Seeded <- {1, 2}, Large <- {1}, PageSize <- 1, TreeLimit <- 1,
  MaxWrites <- Requests, MaxRemovals <- 1, MaxCalls <- Requests,
  kind <- v1, store <- v2, call <- v3, told <- v4, writes <- v5, removals <- v6, calls <- v7, losses <- v8,
  Pulled <- {"pull", "my pull"}, Mine <- {"my pull"}, Issue <- {"issue"}, Finding <- {"finding"}, Remark <- {"comment"},
  Label <- {"triage", "bug"}, MaxDrafts <- 2, MaxSteps <- Choices, MaxWords <- 2,
  queue <- v1, draft <- v2, pulls <- v3, findings <- v4, own <- v5, reading <- v6, request <- v7,
  steps <- v8, writings <- v9, agreed <- v10, chosen <- v11, reverted <- v12

Chat == INSTANCE ChatProofs WITH
  MaxDrafts <- 2, MaxSends <- Sends, MaxFaults <- 2,
  draft <- v1, fork <- v2, chat <- v3, run <- v4, events <- v5, sends <- v6, faults <- v7,
  forks <- v8, lost <- v9, replies <- v10, crossed <- v11,
  Source <- {"source"}, Reader <- Actor, MaxAsks <- Requests, MaxOutages <- Outages, MaxFalters <- Faults,
  browser <- v1, source <- v2, disk <- v3, online <- v4, reader <- v5, told <- v6, asks <- v7,
  outages <- v8, falters <- v9, cut <- v10, taken <- v11, left <- v12,
  Page <- Actor, MaxChanges <- Changes, MaxLoads <- Requests,
  site <- v1, up <- v2, held <- v3, worker <- v4, caches <- v5, page <- v6, puts <- v7, loads <- v8,
  losses <- v9, last <- v10, overtaken <- v11, stored <- v12, aside <- v13,
  TextLine <- {"", "a"}, MaxLines <- Lines, Context <- 1,
  live <- v1, proposed <- v2, hunks <- v3, rejected <- v4, refused <- v5, shifted <- v6

\* The part that was picked stays the one that moves.
LEMMA PartStays ==
  ASSUME [Next]_vars
  PROVE  /\ part' = part
         /\ \/ UNCHANGED slots
            \/ part = "posting" /\ Posting!Next
            \/ part = "sweep" /\ Sweep!Next
            \/ part = "clone" /\ GitClone!Next
            \/ part = "switch" /\ SourceSwitch!Next
            \/ part = "watch" /\ AdapterWatch!Next
            \/ part = "rewrite" /\ TextDiff!Next
            \/ part = "chat" /\ AgentChat!Next
            \/ part = "pane" /\ Selecting!Next
            \/ part = "writing" /\ Writing!Next
            \/ part = "settings" /\ Settings!Next
            \/ part = "review" /\ Review!Next
            \/ part = "storage" /\ Backends!Next
            \/ part = "folder" /\ Clones!Next
            \/ part = "account" /\ Accounts!Next
            \/ part = "panel" /\ Panel!Next
            \/ part = "shell" /\ Shell!Next
            \/ part = "recordings" /\ Recordings!Next
            \/ part = "screen" /\ Reading!Next
BY DEF Next, vars, PostingStep, SweepStep, GitCloneStep, SourceSwitchStep, AdapterWatchStep,
   TextDiffStep, AgentChatStep, SelectingStep, WritingStep, SettingsStep, ReviewStep, BackendsStep,
   ClonesStep, AccountsStep, PanelStep, ShellStep, RecordingsStep, ReadingStep

-------------------------------------------------------------------------------
(* A part as it is checked is the part as it is proved.                      *)

\* Posting as it is checked is Posting as it is proved.
LEMMA PostingSame ==
  /\ Posting!Bounds = App!Bounds /\ Posting!Init = App!Init /\ Posting!Next = App!Next
  /\ Posting!SendsExplained = App!SendsExplained
  /\ Posting!UnseenReachesReader = App!UnseenReachesReader
  /\ Posting!ClosedWithReason = App!ClosedWithReason
  /\ Posting!RecordedMeansLanded = App!RecordedMeansLanded
  /\ Posting!OverwritesWhatWasRead = App!OverwritesWhatWasRead
BY DEF Posting!Kind, App!Kind, Posting!Bounds, App!Bounds, Posting!fixed, App!fixed, Posting!agent,
     App!agent, Posting!github, App!github, Posting!history, App!history, Posting!NoStamp,
     App!NoStamp, Posting!Latest, App!Latest, Posting!Says, App!Says, Posting!Posted, App!Posted,
     Posting!SameDraft, App!SameDraft, Posting!Dismissed, App!Dismissed, Posting!CloseDropped,
     App!CloseDropped, Posting!Carried, App!Carried, Posting!Entry, App!Entry, Posting!Settled,
     App!Settled, Posting!Keep, App!Keep, Posting!LoseWrite, App!LoseWrite, Posting!Chain,
     App!Chain, Posting!Links, App!Links, Posting!Proposed, App!Proposed, Posting!Applies,
     App!Applies, Posting!After, App!After, Posting!Following, App!Following, Posting!Counted, App!Counted,
     Posting!Excuse, App!Excuse, Posting!Move, App!Move, Posting!To, App!To, Posting!Unrecorded, App!Unrecorded,
     Posting!Room, App!Room, Posting!Init, App!Init, Posting!ShownPosted, App!ShownPosted,
     Posting!Offered, App!Offered, Posting!OpenSheet, App!OpenSheet, Posting!CloseSheet,
     App!CloseSheet, Posting!New, App!New, Posting!Repeats, App!Repeats, Posting!Press, App!Press,
     Posting!PressPost, App!PressPost, Posting!PressAlone, App!PressAlone, Posting!GivenBack,
     App!GivenBack, Posting!Moved, App!Moved, Posting!CheckTicket, App!CheckTicket, Posting!Calls,
     App!Calls, Posting!Effect, App!Effect, Posting!Land, App!Land, Posting!LandUnheard,
     App!LandUnheard, Posting!Refuse, App!Refuse, Posting!Fail, App!Fail, Posting!Recording,
     App!Recording, Posting!Record, App!Record, Posting!Finish, App!Finish, Posting!Dismiss,
     App!Dismiss, Posting!Restore, App!Restore, Posting!ClearDraft, App!ClearDraft,
     Posting!ToggleClose, App!ToggleClose, Posting!Reopen, App!Reopen, Posting!Redraft, App!Redraft,
     Posting!MoveTicket, App!MoveTicket, Posting!PeerPosts, App!PeerPosts, Posting!Kept, App!Kept,
     Posting!Crash, App!Crash, Posting!Work, App!Work, Posting!Next, App!Next,
     Posting!SendsExplained, App!SendsExplained, Posting!UnseenReachesReader,
     App!UnseenReachesReader, Posting!ClosedWithReason, App!ClosedWithReason,
     Posting!RecordedMeansLanded, App!RecordedMeansLanded, Posting!Overwrites, App!Overwrites,
     Posting!OverwritesWhatWasRead, App!OverwritesWhatWasRead, Posting!Cardinality, App!Cardinality

\* Sweep as it is checked is Sweep as it is proved.
LEMMA SweepSame ==
  /\ Sweep!Bounds = Sweeping!Bounds /\ Sweep!Init = Sweeping!Init /\ Sweep!Next = Sweeping!Next
  /\ Sweep!PostsOnce = Sweeping!PostsOnce /\ Sweep!PrunesAnswered = Sweeping!PrunesAnswered
BY DEF Sweep!Bounds, Sweeping!Bounds, Sweep!Rule, Sweeping!Rule, Sweep!File, Sweeping!File, Sweep!Broken,
     Sweeping!Broken, Sweep!Files, Sweeping!Files, Sweep!Holds, Sweeping!Holds, Sweep!ActionFor,
     Sweeping!ActionFor, Sweep!Newest, Sweeping!Newest, Sweep!Resolved, Sweeping!Resolved,
     Sweep!AlreadyPosted, Sweeping!AlreadyPosted, Sweep!Handled, Sweeping!Handled, Sweep!NoFolder,
     Sweeping!NoFolder, Sweep!State, Sweeping!State, Sweep!DraftedAfter, Sweeping!DraftedAfter,
     Sweep!Idle, Sweeping!Idle, Sweep!Init, Sweeping!Init, Sweep!Become, Sweeping!Become, Sweep!Go,
     Sweeping!Go, Sweep!Fresh, Sweeping!Fresh, Sweep!Select, Sweeping!Select, Sweep!Claim,
     Sweeping!Claim, Sweep!Finish, Sweeping!Finish, Sweep!ReadDraft, Sweeping!ReadDraft,
     Sweep!MayPost, Sweeping!MayPost, Sweep!AfterCheck, Sweeping!AfterCheck, Sweep!PostLines,
     Sweeping!PostLines, Sweep!ReaderPosts, Sweeping!ReaderPosts, Sweep!Check, Sweeping!Check, Sweep!Post, Sweeping!Post,
     Sweep!Record, Sweeping!Record, Sweep!RecordFails, Sweeping!RecordFails, Sweep!Prunable,
     Sweeping!Prunable, Sweep!LookToPrune, Sweeping!LookToPrune, Sweep!LookSettled,
     Sweeping!LookSettled, Sweep!Remove, Sweeping!Remove, Sweep!Die, Sweeping!Die, Sweep!Known,
     Sweeping!Known, Sweep!Decide, Sweeping!Decide, Sweep!Dismiss, Sweeping!Dismiss, Sweep!Restore,
     Sweeping!Restore, Sweep!Push, Sweeping!Push, Sweep!Moves, Sweeping!Moves, Sweep!Age,
     Sweeping!Age, Sweep!Work, Sweeping!Work, Sweep!Next, Sweeping!Next, Sweep!PostsOnce,
     Sweeping!PostsOnce, Sweep!PrunesAnswered, Sweeping!PrunesAnswered

\* GitClone as it is checked is GitClone as it is proved.
LEMMA GitCloneSame ==
  /\ GitClone!Bounds = Sweeping!G!Bounds /\ GitClone!Init = Sweeping!G!Init
  /\ GitClone!Next = Sweeping!G!Next
  /\ GitClone!AnsweredMeansLanded = Sweeping!G!AnsweredMeansLanded
  /\ GitClone!BeatenOnceLands = Sweeping!G!BeatenOnceLands
  /\ GitClone!ReplacesWhatWasSeen = Sweeping!G!ReplacesWhatWasSeen
BY DEF GitClone!Bounds, Sweeping!G!Bounds, GitClone!clone, Sweeping!G!clone, GitClone!history,
     Sweeping!G!history, GitClone!Path, Sweeping!G!Path, GitClone!Op, Sweeping!G!Op,
     GitClone!Nothing, Sweeping!G!Nothing, GitClone!First, Sweeping!G!First, GitClone!Idle,
     Sweeping!G!Idle, GitClone!Init, Sweeping!G!Init, GitClone!Ahead, Sweeping!G!Ahead,
     GitClone!Committed, Sweeping!G!Committed, GitClone!Conflict, Sweeping!G!Conflict,
     GitClone!Merged, Sweeping!G!Merged, GitClone!Parted, Sweeping!G!Parted, GitClone!Become,
     Sweeping!G!Become, GitClone!Go, Sweeping!G!Go, GitClone!Where, Sweeping!G!Where,
     GitClone!Begin, Sweeping!G!Begin, GitClone!Seen, Sweeping!G!Seen, GitClone!New, Sweeping!G!New,
     GitClone!AlreadyGone, Sweeping!G!AlreadyGone, GitClone!CommitAlone, Sweeping!G!CommitAlone,
     GitClone!Place, Sweeping!G!Place, GitClone!Add, Sweeping!G!Add, GitClone!CommitIndex,
     Sweeping!G!CommitIndex, GitClone!Succeed, Sweeping!G!Succeed, GitClone!Refused,
     Sweeping!G!Refused, GitClone!Push, Sweeping!G!Push, GitClone!Give, Sweeping!G!Give,
     GitClone!AfterPull, Sweeping!G!AfterPull, GitClone!PullAlone, Sweeping!G!PullAlone,
     GitClone!Fetched, Sweeping!G!Fetched, GitClone!Fetch, Sweeping!G!Fetch, GitClone!Merge,
     Sweeping!G!Merge, GitClone!CheckedOut, Sweeping!G!CheckedOut, GitClone!Committing,
     Sweeping!G!Committing, GitClone!Checkout, Sweeping!G!Checkout, GitClone!Unreached,
     Sweeping!G!Unreached, GitClone!Close, Sweeping!G!Close, GitClone!Elsewhere,
     Sweeping!G!Elsewhere, GitClone!Next, Sweeping!G!Next, GitClone!AnsweredMeansLanded,
     Sweeping!G!AnsweredMeansLanded, GitClone!ReplacesWhatWasSeen, Sweeping!G!ReplacesWhatWasSeen,
     GitClone!BeatenOnceLands, Sweeping!G!BeatenOnceLands

\* SourceSwitch as it is checked is SourceSwitch as it is proved.
LEMMA SourceSwitchSame ==
  /\ SourceSwitch!Bounds = App!Switch!Bounds /\ SourceSwitch!Init = App!Switch!Init
  /\ SourceSwitch!Next = App!Switch!Next /\ SourceSwitch!OneSource = App!Switch!OneSource
  /\ SourceSwitch!NothingMixes = App!Switch!NothingMixes
BY DEF SourceSwitch!Bounds, App!Switch!Bounds, SourceSwitch!reader, App!Switch!reader,
     SourceSwitch!storage, App!Switch!storage, SourceSwitch!work, App!Switch!work,
     SourceSwitch!bounds, App!Switch!bounds, SourceSwitch!history, App!Switch!history,
     SourceSwitch!Init, App!Switch!Init, SourceSwitch!Go, App!Switch!Go, SourceSwitch!End,
     App!Switch!End, SourceSwitch!LetGo, App!Switch!LetGo, SourceSwitch!Asked, App!Switch!Asked,
     SourceSwitch!Switch, App!Switch!Switch, SourceSwitch!Attach, App!Switch!Attach,
     SourceSwitch!Edit, App!Switch!Edit, SourceSwitch!Remove, App!Switch!Remove,
     SourceSwitch!StopWatching, App!Switch!StopWatching, SourceSwitch!Start, App!Switch!Start,
     SourceSwitch!Build, App!Switch!Build, SourceSwitch!Answers, App!Switch!Answers,
     SourceSwitch!HasHeld, App!Switch!HasHeld, SourceSwitch!Ready, App!Switch!Ready,
     SourceSwitch!Read, App!Switch!Read, SourceSwitch!ListFirst, App!Switch!ListFirst,
     SourceSwitch!Watch, App!Switch!Watch, SourceSwitch!Pull, App!Switch!Pull, SourceSwitch!Queue,
     App!Switch!Queue, SourceSwitch!Refresh, App!Switch!Refresh, SourceSwitch!Select,
     App!Switch!Select, SourceSwitch!Selected, App!Switch!Selected, SourceSwitch!Track,
     App!Switch!Track, SourceSwitch!Decide, App!Switch!Decide, SourceSwitch!Post, App!Switch!Post,
     SourceSwitch!Posted, App!Switch!Posted, SourceSwitch!Fire, App!Switch!Fire,
     SourceSwitch!StopOrStart, App!Switch!StopOrStart, SourceSwitch!Proceed, App!Switch!Proceed,
     SourceSwitch!Next, App!Switch!Next, SourceSwitch!Settled, App!Switch!Settled,
     SourceSwitch!Alone, App!Switch!Alone, SourceSwitch!OneSource, App!Switch!OneSource,
     SourceSwitch!NothingMixes, App!Switch!NothingMixes

\* AdapterWatch as it is checked is AdapterWatch as it is proved.
LEMMA AdapterWatchSame ==
  /\ AdapterWatch!Bounds = App!W!Bounds /\ AdapterWatch!Init = App!W!Init
  /\ AdapterWatch!Next = App!W!Next /\ AdapterWatch!NewsIsTold = App!W!NewsIsTold
BY DEF AdapterWatch!Bounds, App!W!Bounds, AdapterWatch!storage, App!W!storage, AdapterWatch!bounds,
     App!W!bounds, AdapterWatch!history, App!W!history, AdapterWatch!Watch, App!W!Watch,
     AdapterWatch!Held, App!W!Held, AdapterWatch!Unseen, App!W!Unseen, AdapterWatch!Fail,
     App!W!Fail, AdapterWatch!Resting, App!W!Resting, AdapterWatch!Init, App!W!Init,
     AdapterWatch!On, App!W!On, AdapterWatch!Begin, App!W!Begin, AdapterWatch!TimerAfter,
     App!W!TimerAfter, AdapterWatch!Stop, App!W!Stop, AdapterWatch!Queues, App!W!Queues,
     AdapterWatch!Beat, App!W!Beat, AdapterWatch!Answer, App!W!Answer, AdapterWatch!Missed,
     App!W!Missed, AdapterWatch!Noted, App!W!Noted, AdapterWatch!News, App!W!News,
     AdapterWatch!FailingIn, App!W!FailingIn, AdapterWatch!Tell, App!W!Tell, AdapterWatch!Handle,
     App!W!Handle, AdapterWatch!Overtaken, App!W!Overtaken, AdapterWatch!Change, App!W!Change,
     AdapterWatch!StopOrStart, App!W!StopOrStart, AdapterWatch!Next, App!W!Next,
     AdapterWatch!NewsIsTold, App!W!NewsIsTold

\* TextDiff as it is checked is TextDiff as it is proved.
LEMMA TextDiffSame ==
  /\ TextDiff!Bounds = Chat!D!Bounds /\ TextDiff!Init = Chat!D!Init /\ TextDiff!Next = Chat!D!Next
  /\ TextDiff!TypeOK = Chat!D!TypeOK /\ TextDiff!SentAsShown = Chat!D!SentAsShown
<1>1. \A old, new : TextDiff!EditScript(old, new) = Chat!D!EditScript(old, new)
  BY DEF TextDiff!EditScript, Chat!D!EditScript, TextDiff!Op, Chat!D!Op, TextDiff!Places,
     Chat!D!Places, TextDiff!Common, Chat!D!Common, TextDiff!Down, Chat!D!Down, TextDiff!Right,
     Chat!D!Right, TextDiff!Both, Chat!D!Both, TextDiff!Lcs, Chat!D!Lcs
<1>2. \A ops : TextDiff!Spans(ops) = Chat!D!Spans(ops)
  BY DEF TextDiff!Spans, Chat!D!Spans, TextDiff!IsChange, Chat!D!IsChange, TextDiff!Near,
     Chat!D!Near, TextDiff!Taken, Chat!D!Taken
<1>3. \A ops, span : TextDiff!Around(ops, span) = Chat!D!Around(ops, span)
  BY DEF TextDiff!Around, Chat!D!Around, TextDiff!Top, Chat!D!Top, TextDiff!Bottom, Chat!D!Bottom
<1>4. \A lines : TextDiff!Said(lines) = Chat!D!Said(lines)
  BY DEF TextDiff!Said, Chat!D!Said, TextDiff!Picked, Chat!D!Picked, TextDiff!Altered,
     Chat!D!Altered, TextDiff!IsChange, Chat!D!IsChange
<1>5. \A said, n : TextDiff!Nth(said, n) = Chat!D!Nth(said, n)
  BY DEF TextDiff!Nth, Chat!D!Nth, TextDiff!Cardinality, Chat!D!Cardinality
<1>6. \A old, new : TextDiff!DiffText(old, new) = Chat!D!DiffText(old, new)
  BY <1>1, <1>2, <1>3, <1>4, <1>5 DEF TextDiff!DiffText, Chat!D!DiffText
<1>7. \A old, drawn, turned : TextDiff!ApplyHunks(old, drawn, turned) = Chat!D!ApplyHunks(old, drawn, turned)
  BY DEF TextDiff!ApplyHunks, Chat!D!ApplyHunks, TextDiff!Copied, Chat!D!Copied, TextDiff!Start,
     Chat!D!Start, TextDiff!One, Chat!D!One, TextDiff!Whole, Chat!D!Whole
<1>8. TextDiff!Texts = Chat!D!Texts
  BY DEF TextDiff!Texts, Chat!D!Texts
<1>9. TextDiff!Init = Chat!D!Init
  BY <1>6, <1>8 DEF TextDiff!Init, Chat!D!Init
<1>10. TextDiff!Next = Chat!D!Next
  BY <1>6 DEF TextDiff!Next, Chat!D!Next, TextDiff!Reject, Chat!D!Reject, TextDiff!Keep,
     Chat!D!Keep, TextDiff!Shift, Chat!D!Shift, TextDiff!Drift, Chat!D!Drift, TextDiff!Apart,
     Chat!D!Apart
<1>11. \A list, I : TextDiff!Picked(list, I) = Chat!D!Picked(list, I)
  BY DEF TextDiff!Picked, Chat!D!Picked
<1>12. TextDiff!Mixed = Chat!D!Mixed
  BY <1>1, <1>2, <1>11 DEF TextDiff!Mixed, Chat!D!Mixed, TextDiff!Refused, Chat!D!Refused,
     TextDiff!Stays, Chat!D!Stays
<1>13. TextDiff!Body = Chat!D!Body
  BY <1>7 DEF TextDiff!Body, Chat!D!Body, TextDiff!Joined, Chat!D!Joined
<1>14. TextDiff!SentAsShown = Chat!D!SentAsShown
  BY <1>12, <1>13 DEF TextDiff!SentAsShown, Chat!D!SentAsShown, TextDiff!Joined, Chat!D!Joined
<1>15. TextDiff!TypeOK = Chat!D!TypeOK /\ TextDiff!Bounds = Chat!D!Bounds
  BY DEF TextDiff!TypeOK, Chat!D!TypeOK, TextDiff!Bounds, Chat!D!Bounds
<1> QED BY <1>9, <1>10, <1>14, <1>15

\* AgentChat as it is checked is AgentChat as it is proved.
LEMMA AgentChatSame ==
  /\ AgentChat!Bounds = Chat!Bounds /\ AgentChat!Init = Chat!Init /\ AgentChat!Next = Chat!Next
  /\ AgentChat!OneForkOfItsAgent = Chat!OneForkOfItsAgent /\ AgentChat!ToldOnce = Chat!ToldOnce
BY DEF AgentChat!Bounds, Chat!Bounds, AgentChat!bounds, Chat!bounds, AgentChat!history, Chat!history,
     AgentChat!Agent, Chat!Agent, AgentChat!Session, Chat!Session, AgentChat!NoSession,
     Chat!NoSession, AgentChat!NoFork, Chat!NoFork, AgentChat!Init, Chat!Init, AgentChat!AgentFork,
     Chat!AgentFork, AgentChat!Send, Chat!Send, AgentChat!Over, Chat!Over, AgentChat!Refused,
     Chat!Refused, AgentChat!ForkedFrom, Chat!ForkedFrom, AgentChat!Line, Chat!Line,
     AgentChat!ExitTells, Chat!ExitTells, AgentChat!Exit, Chat!Exit, AgentChat!Cancel, Chat!Cancel,
     AgentChat!Event, Chat!Event, AgentChat!Spawn, Chat!Spawn, AgentChat!SaySession,
     Chat!SaySession, AgentChat!Result, Chat!Result, AgentChat!Fails, Chat!Fails, AgentChat!Report,
     Chat!Report, AgentChat!Redraft, Chat!Redraft, AgentChat!Quit, Chat!Quit, AgentChat!Next,
     Chat!Next, AgentChat!OneForkOfItsAgent, Chat!OneForkOfItsAgent, AgentChat!ToldOnce,
     Chat!ToldOnce

\* Selecting as it is checked is Selecting as it is proved.
LEMMA SelectingSame ==
  /\ Selecting!Bounds = Pane!Bounds /\ Selecting!Init = Pane!Init /\ Selecting!Next = Pane!Next
  /\ Selecting!PaneIsOfSelected = Pane!PaneIsOfSelected
BY DEF Selecting!Item, Pane!Item, Selecting!Bounds, Pane!Bounds, Selecting!Field, Pane!Field,
     Selecting!Empty, Pane!Empty, Selecting!Init, Pane!Init, Selecting!Started, Pane!Started,
     Selecting!Emptied, Pane!Emptied, Selecting!Select, Pane!Select, Selecting!PutAway,
     Pane!PutAway, Selecting!Moved, Pane!Moved, Selecting!Loaded, Pane!Loaded, Selecting!Wanted,
     Pane!Wanted, Selecting!Filled, Pane!Filled, Selecting!Told, Pane!Told, Selecting!Answered,
     Pane!Answered, Selecting!Drifted, Pane!Drifted, Selecting!Post, Pane!Post, Selecting!Next,
     Pane!Next, Selecting!Troubled, Pane!Troubled, Selecting!PaneIsOfSelected,
     Pane!PaneIsOfSelected, Selecting!Cardinality, Pane!Cardinality

\* Writing as it is checked is Writing as it is proved.
LEMMA WritingSame ==
  /\ Writing!Bounds = Pane!T!Bounds /\ Writing!Init = Pane!T!Init /\ Writing!Next = Pane!T!Next
  /\ Writing!WordsStay = Pane!T!WordsStay
BY DEF Writing!Bounds, Pane!T!Bounds, Writing!app, Pane!T!app, Writing!history, Pane!T!history,
     Writing!Field, Pane!T!Field, Writing!Silent, Pane!T!Silent, Writing!Typed, Pane!T!Typed,
     Writing!Writing, Pane!T!Writing, Writing!GivenUp, Pane!T!GivenUp, Writing!Closed,
     Pane!T!Closed, Writing!FieldOf, Pane!T!FieldOf, Writing!Init, Pane!T!Init, Writing!Says,
     Pane!T!Says, Writing!Writable, Pane!T!Writable, Writing!Redraw, Pane!T!Redraw, Writing!Idle,
     Pane!T!Idle, Writing!Redraft, Pane!T!Redraft, Writing!PostedElsewhere, Pane!T!PostedElsewhere,
     Writing!Loaded, Pane!T!Loaded, Writing!Free, Pane!T!Free, Writing!Opening, Pane!T!Opening,
     Writing!OpenBox, Pane!T!OpenBox, Writing!TypeIn, Pane!T!TypeIn, Writing!PressAway,
     Pane!T!PressAway, Writing!Record, Pane!T!Record, Writing!Keep, Pane!T!Keep, Writing!Leave,
     Pane!T!Leave, Writing!Look, Pane!T!Look, Writing!PutAway, Pane!T!PutAway, Writing!Lens,
     Pane!T!Lens, Writing!EditCard, Pane!T!EditCard, Writing!TypeCard, Pane!T!TypeCard,
     Writing!SaveCard, Pane!T!SaveCard, Writing!CancelCard, Pane!T!CancelCard, Writing!ResetBody,
     Pane!T!ResetBody, Writing!Post, Pane!T!Post, Writing!Next, Pane!T!Next, Writing!Last,
     Pane!T!Last, Writing!InHand, Pane!T!InHand, Writing!WordsStay, Pane!T!WordsStay

\* Settings as it is checked is Settings as it is proved.
LEMMA SettingsSame ==
  /\ Settings!Bounds = App!Settings!Bounds /\ Settings!Init = App!Settings!Init
  /\ Settings!Next = App!Settings!Next
  /\ Settings!SourceHoldsTogether = App!Settings!SourceHoldsTogether
  /\ Settings!HealthIsCurrent = App!Settings!HealthIsCurrent
BY DEF Settings!Bounds, App!Settings!Bounds, Settings!stored, App!Settings!stored, Settings!reading,
     App!Settings!reading, Settings!history, App!Settings!history, Settings!Place,
     App!Settings!Place, Settings!Key, App!Settings!Key, Settings!Nothing, App!Settings!Nothing,
     Settings!Typings, App!Settings!Typings, Settings!Works, App!Settings!Works, Settings!Found,
     App!Settings!Found, Settings!NoReader, App!Settings!NoReader, Settings!Stored,
     App!Settings!Stored, Settings!Candidate, App!Settings!Candidate, Settings!Merged,
     App!Settings!Merged, Settings!Idle, App!Settings!Idle, Settings!Init, App!Settings!Init,
     Settings!On, App!Settings!On, Settings!Become, App!Settings!Become, Settings!Go,
     App!Settings!Go, Settings!Begin, App!Settings!Begin, Settings!Ended, App!Settings!Ended,
     Settings!Sweeping, App!Settings!Sweeping, Settings!Opening, App!Settings!Opening,
     Settings!Building, App!Settings!Building, Settings!Meeting, App!Settings!Meeting, Settings!Look, App!Settings!Look, Settings!Land,
     App!Settings!Land, Settings!Switch, App!Settings!Switch, Settings!Open, App!Settings!Open,
     Settings!Build, App!Settings!Build, Settings!Add, App!Settings!Add, Settings!Edit,
     App!Settings!Edit, Settings!Read, App!Settings!Read, Settings!Refuse, App!Settings!Refuse,
     Settings!Reopens, App!Settings!Reopens, Settings!Changed, App!Settings!Changed,
     Settings!Configure, App!Settings!Configure, Settings!Merge, App!Settings!Merge, Settings!Store,
     App!Settings!Store, Settings!Remove, App!Settings!Remove, Settings!Delete, App!Settings!Delete,
     Settings!Forget, App!Settings!Forget, Settings!Fail, App!Settings!Fail, Settings!Next,
     App!Settings!Next, Settings!SourceHoldsTogether, App!Settings!SourceHoldsTogether,
     Settings!HealthIsCurrent, App!Settings!HealthIsCurrent

\* Review as it is checked is Review as it is proved.
LEMMA ReviewSame ==
  /\ Review!Bounds = Sweeping!R!Bounds /\ Review!Init = Sweeping!R!Init
  /\ Review!Next = Sweeping!R!Next /\ Review!TypeOK = Sweeping!R!TypeOK
  /\ Review!SendsWhatWasAgreed = Sweeping!R!SendsWhatWasAgreed
<1>1. \A S : Review!SetToSeq(S) = Sweeping!R!SetToSeq(S)
  BY DEF Review!SetToSeq, Sweeping!R!SetToSeq, Review!Cardinality, Sweeping!R!Cardinality,
     Review!IsInjective, Sweeping!R!IsInjective
<1>2. \A list, I : Review!Picked(list, I) = Sweeping!R!Picked(list, I)
  BY DEF Review!Picked, Sweeping!R!Picked, Review!Cardinality, Sweeping!R!Cardinality
<1>3. \A file : Review!Parses(file) = Sweeping!R!Parses(file)
  BY DEF Review!Parses, Sweeping!R!Parses, Review!Verdict, Sweeping!R!Verdict, Review!Distinct,
     Sweeping!R!Distinct, Review!IsInjective, Sweeping!R!IsInjective, Review!LabelsAgree,
     Sweeping!R!LabelsAgree, Review!CloseNamed, Sweeping!R!CloseNamed, Review!Proposes,
     Sweeping!R!Proposes
<1>4. \A i : Review!Files(i) = Sweeping!R!Files(i)
  BY DEF Review!Files, Sweeping!R!Files, Review!PullFiles, Sweeping!R!PullFiles, Review!IssueFiles,
     Sweeping!R!IssueFiles, Review!BoundedSeq, Sweeping!R!BoundedSeq, Review!SeqOf, Sweeping!R!SeqOf
<1>5. \A i : Review!First(i) = Sweeping!R!First(i)
  BY <1>1 DEF Review!First, Sweeping!R!First, Review!File, Sweeping!R!File
<1>6. \A i, f : Review!Key(i, f) = Sweeping!R!Key(i, f) /\ Review!Keys = Sweeping!R!Keys
  BY DEF Review!Key, Sweeping!R!Key, Review!Keys, Sweeping!R!Keys
<1>7. \A i, f : Review!Merged(i, f) = Sweeping!R!Merged(i, f)
  BY <1>6 DEF Review!Merged, Sweeping!R!Merged, Review!Null, Sweeping!R!Null, Review!NoWords,
     Sweeping!R!NoWords
<1>8. \A i : Review!FindingsForPull(i) = Sweeping!R!FindingsForPull(i)
  BY <1>1, <1>7 DEF Review!FindingsForPull, Sweeping!R!FindingsForPull, Review!AgentsFindings,
     Sweeping!R!AgentsFindings
<1>9. \A i : Review!FindingsToPost(i) = Sweeping!R!FindingsToPost(i)
  BY <1>2, <1>8 DEF Review!FindingsToPost, Sweeping!R!FindingsToPost
<1>10. /\ \A i : Review!CommentFor(i) = Sweeping!R!CommentFor(i)
       /\ \A i : Review!CommentToPost(i) = Sweeping!R!CommentToPost(i)
  BY DEF Review!CommentFor, Sweeping!R!CommentFor, Review!CommentToPost, Sweeping!R!CommentToPost,
     Review!Null, Sweeping!R!Null, Review!NoWords, Sweeping!R!NoWords
<1>11. /\ \A i : Review!VerdictFor(i) = Sweeping!R!VerdictFor(i)
       /\ \A i : Review!LabelsToPost(i) = Sweeping!R!LabelsToPost(i)
  BY DEF Review!VerdictFor, Sweeping!R!VerdictFor, Review!LabelsToPost, Sweeping!R!LabelsToPost
<1>12. /\ \A words, readers : Review!Prefixed(words, readers) = Sweeping!R!Prefixed(words, readers)
       /\ \A f : Review!BodyToPost(f) = Sweeping!R!BodyToPost(f)
  BY DEF Review!Prefixed, Sweeping!R!Prefixed, Review!BodyToPost, Sweeping!R!BodyToPost,
     Review!NoWords, Sweeping!R!NoWords
<1>13. \A what, i, words, comments : Review!Request(what, i, words, comments) = Sweeping!R!Request(what, i, words, comments)
  BY <1>12 DEF Review!Request, Sweeping!R!Request, Review!IsCommentEdited,
     Sweeping!R!IsCommentEdited, Review!Null, Sweeping!R!Null
<1>14. \A i : Review!ReviewPayload(i) = Sweeping!R!ReviewPayload(i)
  BY <1>9, <1>10, <1>11, <1>12, <1>13 DEF Review!ReviewPayload, Sweeping!R!ReviewPayload
<1>15. \A i : Review!Triage(i) = Sweeping!R!Triage(i)
  BY <1>10, <1>11, <1>13 DEF Review!Triage, Sweeping!R!Triage
<1>16. Review!Init = Sweeping!R!Init
  BY <1>5, <1>6 DEF Review!Init, Sweeping!R!Init, Review!Item, Sweeping!R!Item, Review!Parsed,
     Sweeping!R!Parsed, Review!Untouched, Sweeping!R!Untouched, Review!NoDecision,
     Sweeping!R!NoDecision, Review!Silence, Sweeping!R!Silence, Review!Targets, Sweeping!R!Targets,
     Review!NotAgreed, Sweeping!R!NotAgreed, Review!Null, Sweeping!R!Null, Review!NoWords,
     Sweeping!R!NoWords
<1>17. /\ \A i, f : Review!Card(i, f) = Sweeping!R!Card(i, f)
       /\ \A i : Review!Whole(i) = Sweeping!R!Whole(i)
  BY <1>6, <1>8 DEF Review!Card, Sweeping!R!Card, Review!Whole, Sweeping!R!Whole, Review!Open,
     Sweeping!R!Open, Review!Decide, Sweeping!R!Decide, Review!Silence, Sweeping!R!Silence
<1>18. /\ \A i, f, new : Review!Findings(i, f, new) = Sweeping!R!Findings(i, f, new)
       /\ \A i, new : Review!Pulls(i, new) = Sweeping!R!Pulls(i, new)
  BY <1>6 DEF Review!Findings, Sweeping!R!Findings, Review!Pulls, Sweeping!R!Pulls
<1>19. /\ \A t, body, fix : Review!Agree(t, body, fix) = Sweeping!R!Agree(t, body, fix)
      /\ \A t : Review!Withdraw(t) = Sweeping!R!Withdraw(t)
  BY DEF Review!Agree, Sweeping!R!Agree, Review!Withdraw, Sweeping!R!Withdraw, Review!Agreed,
     Sweeping!R!Agreed, Review!NotAgreed, Sweeping!R!NotAgreed, Review!NoWords, Sweeping!R!NoWords
<1>20. \A i, f : Review!Toggle(i, f) = Sweeping!R!Toggle(i, f)
  BY <1>6, <1>7, <1>17, <1>18, <1>19 DEF Review!Toggle, Sweeping!R!Toggle
<1>21. \A i, f : Review!EditFinding(i, f) = Sweeping!R!EditFinding(i, f)
  BY <1>6, <1>7, <1>17, <1>18, <1>19 DEF Review!EditFinding, Sweeping!R!EditFinding, Review!Writes,
     Sweeping!R!Writes, Review!Fresh, Sweeping!R!Fresh, Review!NoWords, Sweeping!R!NoWords
<1>22. \A i, f : Review!ResetFinding(i, f) = Sweeping!R!ResetFinding(i, f)
  BY <1>6, <1>7, <1>17, <1>18, <1>19 DEF Review!ResetFinding, Sweeping!R!ResetFinding, Review!Null,
     Sweeping!R!Null
<1>23. \A i, f : Review!EditSuggestion(i, f) = Sweeping!R!EditSuggestion(i, f)
  BY <1>6, <1>7, <1>17, <1>18, <1>19 DEF Review!EditSuggestion, Sweeping!R!EditSuggestion,
     Review!Writes, Sweeping!R!Writes, Review!Fresh, Sweeping!R!Fresh, Review!NoWords,
     Sweeping!R!NoWords
<1>24. \A i, f : Review!ResetSuggestion(i, f) = Sweeping!R!ResetSuggestion(i, f)
  BY <1>6, <1>7, <1>17, <1>18, <1>19 DEF Review!ResetSuggestion, Sweeping!R!ResetSuggestion,
     Review!Null, Sweeping!R!Null
<1>25. \A i, f : Review!AddFinding(i, f) = Sweeping!R!AddFinding(i, f)
  <2>1. /\ Review!NoDecision = Sweeping!R!NoDecision /\ Review!Fresh = Sweeping!R!Fresh
        /\ Review!NoWords = Sweeping!R!NoWords
    BY DEF Review!NoDecision, Sweeping!R!NoDecision, Review!Fresh, Sweeping!R!Fresh, Review!NoWords,
       Sweeping!R!NoWords, Review!Null, Sweeping!R!Null
  <2>2. \A i : Review!Open(i) = Sweeping!R!Open(i)
    BY DEF Review!Open, Sweeping!R!Open
  <2>3. Review!Decide = Sweeping!R!Decide /\ Review!Writes = Sweeping!R!Writes
    BY DEF Review!Decide, Sweeping!R!Decide, Review!Silence, Sweeping!R!Silence, Review!Writes,
       Sweeping!R!Writes
  <2> DEFINE old == [Review!NoDecision EXCEPT !.body = Review!Fresh, !.included = TRUE, !.fix = Review!NoWords]
             new == [Sweeping!R!NoDecision EXCEPT !.body = Sweeping!R!Fresh, !.included = TRUE,
                                                  !.fix = Sweeping!R!NoWords]
  <2>4. \A i, f : Review!Findings(i, f, old) = Sweeping!R!Findings(i, f, new)
    <3>1. old = new
      BY <2>1, Zenon
    <3> HIDE DEF old, new
    <3> QED BY <1>18, <3>1, Zenon
  <2>5. \A i, f : Review!Agree(<<i, f>>, Review!Fresh, Review!NoWords) =
                   Sweeping!R!Agree(<<i, f>>, Sweeping!R!Fresh, Sweeping!R!NoWords)
    BY <1>19, <2>1, Zenon
  <2> QED BY <2>2, <2>3, <2>4, <2>5, Zenon DEF Review!AddFinding, Sweeping!R!AddFinding
<1>26. \A i, f : Review!RemoveFinding(i, f) = Sweeping!R!RemoveFinding(i, f)
  BY <1>6, <1>7, <1>17, <1>18, <1>19 DEF Review!RemoveFinding, Sweeping!R!RemoveFinding
<1>27. \A i, f : Review!PostFinding(i, f) = Sweeping!R!PostFinding(i, f)
  BY <1>6, <1>7, <1>17, <1>18, <1>19 DEF Review!PostFinding, Sweeping!R!PostFinding
<1>28. \A i : Review!EditComment(i) = Sweeping!R!EditComment(i)
  BY <1>6, <1>7, <1>17, <1>18, <1>19 DEF Review!EditComment, Sweeping!R!EditComment, Review!Writes,
     Sweeping!R!Writes, Review!Fresh, Sweeping!R!Fresh, Review!NoWords, Sweeping!R!NoWords
<1>29. \A i : Review!ToggleSummary(i) = Sweeping!R!ToggleSummary(i)
  BY <1>10, <1>6, <1>7, <1>17, <1>18, <1>19 DEF Review!ToggleSummary, Sweeping!R!ToggleSummary,
     Review!NoWords, Sweeping!R!NoWords
<1>30. \A i, event : Review!ChooseVerdict(i, event) = Sweeping!R!ChooseVerdict(i, event)
  BY <1>6, <1>7, <1>17, <1>18, <1>19 DEF Review!ChooseVerdict, Sweeping!R!ChooseVerdict
<1>31. \A i : Review!ToggleLabels(i) = Sweeping!R!ToggleLabels(i)
  BY <1>11, <1>6, <1>7, <1>17, <1>18, <1>19 DEF Review!ToggleLabels, Sweeping!R!ToggleLabels
<1>32. \A i : Review!ToggleClose(i) = Sweeping!R!ToggleClose(i)
  BY <1>6, <1>7, <1>17, <1>18, <1>19 DEF Review!ToggleClose, Sweeping!R!ToggleClose
<1>33. Review!SetReading = Sweeping!R!SetReading
  BY DEF Review!SetReading, Sweeping!R!SetReading, Review!Decide, Sweeping!R!Decide, Review!Silence,
     Sweeping!R!Silence, Review!history, Sweeping!R!history
<1>34. \A i : Review!PostReview(i) = Sweeping!R!PostReview(i)
  BY <1>9, <1>10, <1>11, <1>14, <1>18 DEF Review!PostReview, Sweeping!R!PostReview, Review!Open,
     Sweeping!R!Open, Review!Record, Sweeping!R!Record, Review!NoWords, Sweeping!R!NoWords
<1>35. \A i : Review!PostTriage(i) = Sweeping!R!PostTriage(i)
  BY <1>15, <1>18 DEF Review!PostTriage, Sweeping!R!PostTriage, Review!Open, Sweeping!R!Open,
     Review!Record, Sweeping!R!Record
<1>36. \A i : Review!AskAgain(i) = Sweeping!R!AskAgain(i)
  BY <1>18 DEF Review!AskAgain, Sweeping!R!AskAgain, Review!Decide, Sweeping!R!Decide,
     Review!Silence, Sweeping!R!Silence, Review!history, Sweeping!R!history
<1>37. \A i : Review!Redraft(i) = Sweeping!R!Redraft(i)
  BY <1>3, <1>4 DEF Review!Redraft, Sweeping!R!Redraft, Review!Decide, Sweeping!R!Decide,
     Review!Silence, Sweeping!R!Silence, Review!Parsed, Sweeping!R!Parsed, Review!log,
     Sweeping!R!log, Review!history, Sweeping!R!history
<1>38. Review!Next = Sweeping!R!Next
  BY <1>20, <1>21, <1>22, <1>23, <1>24, <1>25, <1>26, <1>27, <1>28, <1>29, <1>30, <1>31, <1>32, <1>33, <1>34, <1>35, <1>36, <1>37 DEF
     Review!Next, Sweeping!R!Next, Review!Item, Sweeping!R!Item, Review!Verdict, Sweeping!R!Verdict
<1>39. Review!TypeOK = Sweeping!R!TypeOK /\ Review!Bounds = Sweeping!R!Bounds
  BY <1>3, <1>6 DEF Review!TypeOK, Sweeping!R!TypeOK, Review!Bounds, Sweeping!R!Bounds, Review!Item,
     Sweeping!R!Item, Review!IsFiniteSet, Sweeping!R!IsFiniteSet
<1>40. /\ \A i, comments : Review!CommentsAgreed(i, comments) = Sweeping!R!CommentsAgreed(i, comments)
       /\ \A i, comments : Review!NothingForgotten(i, comments) = Sweeping!R!NothingForgotten(i, comments)
  BY <1>8 DEF Review!CommentsAgreed, Sweeping!R!CommentsAgreed, Review!NothingForgotten,
     Sweeping!R!NothingForgotten, Review!Expected, Sweeping!R!Expected
<1>41. Review!SendsWhatWasAgreed = Sweeping!R!SendsWhatWasAgreed
  BY <1>40 DEF Review!SendsWhatWasAgreed, Sweeping!R!SendsWhatWasAgreed, Review!Expected,
     Sweeping!R!Expected, Review!Readers, Sweeping!R!Readers, Review!Null, Sweeping!R!Null,
     Review!NoWords, Sweeping!R!NoWords, Review!EventAgreed, Sweeping!R!EventAgreed
<1> QED BY <1>16, <1>38, <1>39, <1>41

\* Backends as it is checked is Backends as it is proved.
LEMMA BackendsSame ==
  /\ Backends!Bounds = Sweeping!B!Bounds /\ Backends!Init = Sweeping!B!Init
  /\ Backends!Next = Sweeping!B!Next /\ Backends!TypeOK = Sweeping!B!TypeOK
  /\ Backends!AnswersHold = Sweeping!B!AnswersHold
BY DEF Backends!Bounds, Sweeping!B!Bounds, Backends!counts, Sweeping!B!counts, Backends!Kind,
     Sweeping!B!Kind, Backends!Alone, Sweeping!B!Alone, Backends!Nothing, Sweeping!B!Nothing,
     Backends!Hollow, Sweeping!B!Hollow, Backends!Seed, Sweeping!B!Seed, Backends!Fresh,
     Sweeping!B!Fresh, Backends!Unwritten, Sweeping!B!Unwritten, Backends!Tombstone,
     Sweeping!B!Tombstone, Backends!At, Sweeping!B!At, Backends!View, Sweeping!B!View,
     Backends!Named, Sweeping!B!Named, Backends!Idle, Sweeping!B!Idle, Backends!Call,
     Sweeping!B!Call, Backends!Busy, Sweeping!B!Busy, Backends!Doing, Sweeping!B!Doing,
     Backends!Silence, Sweeping!B!Silence, Backends!Init, Sweeping!B!Init, Backends!Watched,
     Sweeping!B!Watched, Backends!Goes, Sweeping!B!Goes, Backends!Answer, Sweeping!B!Answer,
     Backends!Done, Sweeping!B!Done, Backends!Fails, Sweeping!B!Fails, Backends!Puts,
     Sweeping!B!Puts, Backends!Begin, Sweeping!B!Begin, Backends!List, Sweeping!B!List,
     Backends!Read, Sweeping!B!Read, Backends!Remove, Sweeping!B!Remove, Backends!Write,
     Sweeping!B!Write, Backends!Listing, Sweeping!B!Listing, Backends!After, Sweeping!B!After,
     Backends!Continued, Sweeping!B!Continued, Backends!ListPage, Sweeping!B!ListPage,
     Backends!ListTree, Sweeping!B!ListTree, Backends!Meet, Sweeping!B!Meet, Backends!LookAt,
     Sweeping!B!LookAt, Backends!ListAtOnce, Sweeping!B!ListAtOnce, Backends!Wanted,
     Sweeping!B!Wanted, Backends!Reading, Sweeping!B!Reading, Backends!Holds, Sweeping!B!Holds,
     Backends!Looks, Sweeping!B!Looks, Backends!GetObject, Sweeping!B!GetObject, Backends!Recall,
     Sweeping!B!Recall, Backends!GetContents, Sweeping!B!GetContents, Backends!GetBlob,
     Sweeping!B!GetBlob, Backends!Find, Sweeping!B!Find, Backends!Take, Sweeping!B!Take,
     Backends!FindFile, Sweeping!B!FindFile, Backends!TakeFile, Sweeping!B!TakeFile,
     Backends!ShellReads, Sweeping!B!ShellReads, Backends!Changing, Sweeping!B!Changing,
     Backends!Lands, Sweeping!B!Lands, Backends!Drops, Sweeping!B!Drops, Backends!PutObject,
     Sweeping!B!PutObject, Backends!DeleteObject, Sweeping!B!DeleteObject, Backends!Rename,
     Sweeping!B!Rename, Backends!Unlink, Sweeping!B!Unlink, Backends!Retain, Sweeping!B!Retain,
     Backends!Discard, Sweeping!B!Discard, Backends!MakeFile, Sweeping!B!MakeFile,
     Backends!FillFile, Sweeping!B!FillFile, Backends!RemoveEntry, Sweeping!B!RemoveEntry,
     Backends!AskSha, Sweeping!B!AskSha, Backends!Accepts, Sweeping!B!Accepts, Backends!Refused,
     Sweeping!B!Refused, Backends!PutContents, Sweeping!B!PutContents, Backends!DeleteContents,
     Sweeping!B!DeleteContents, Backends!Others, Sweeping!B!Others, Backends!AgentWrites,
     Sweeping!B!AgentWrites, Backends!AgentRemoves, Sweeping!B!AgentRemoves, Backends!Unreachable,
     Sweeping!B!Unreachable, Backends!LandsUnheard, Sweeping!B!LandsUnheard, Backends!Next,
     Sweeping!B!Next, Backends!Content, Sweeping!B!Content, Backends!TypeOK, Sweeping!B!TypeOK,
     Backends!AnswersHold, Sweeping!B!AnswersHold, Backends!Cardinality, Sweeping!B!Cardinality,
     Backends!Max, Sweeping!B!Max, Backends!Min, Sweeping!B!Min

\* Clones as it is checked is Clones as it is proved.
LEMMA ClonesSame ==
  /\ Clones!Bounds = Chat!F!Bounds /\ Clones!Init = Chat!F!Init /\ Clones!Next = Chat!F!Next
  /\ Clones!AnswersAreWhole = Chat!F!AnswersAreWhole
  /\ Clones!NothingLeftBehind = Chat!F!NothingLeftBehind
BY DEF Clones!Bounds, Chat!F!Bounds, Clones!bounds, Chat!F!bounds, Clones!history, Chat!F!history,
     Clones!Made, Chat!F!Made, Clones!Step, Chat!F!Step, Clones!Rank, Chat!F!Rank, Clones!Nowhere,
     Chat!F!Nowhere, Clones!Unused, Chat!F!Unused, Clones!Built, Chat!F!Built, Clones!Silence,
     Chat!F!Silence, Clones!Init, Chat!F!Init, Clones!Is, Chat!F!Is, Clones!Becomes, Chat!F!Becomes,
     Clones!Go, Chat!F!Go, Clones!Rests, Chat!F!Rests, Clones!Used, Chat!F!Used, Clones!Making,
     Chat!F!Making, Clones!Tried, Chat!F!Tried, Clones!Names, Chat!F!Names, Clones!Begins,
     Chat!F!Begins, Clones!Ask, Chat!F!Ask, Clones!Drop, Chat!F!Drop, Clones!Opened, Chat!F!Opened,
     Clones!OpeningFails, Chat!F!OpeningFails, Clones!Look, Chat!F!Look, Clones!Can, Chat!F!Can,
     Clones!After, Chat!F!After, Clones!CloneStep, Chat!F!CloneStep, Clones!CleanedUp,
     Chat!F!CleanedUp, Clones!CloneFails, Chat!F!CloneFails, Clones!GitRoot, Chat!F!GitRoot,
     Clones!Takes, Chat!F!Takes, Clones!GitOpen, Chat!F!GitOpen, Clones!PulledInPage,
     Chat!F!PulledInPage, Clones!Pulled, Chat!F!Pulled, Clones!Pull, Chat!F!Pull, Clones!Answers,
     Chat!F!Answers, Clones!Throws, Chat!F!Throws, Clones!Doing, Chat!F!Doing, Clones!List,
     Chat!F!List, Clones!Read, Chat!F!Read, Clones!Write, Chat!F!Write, Clones!Save, Chat!F!Save,
     Clones!Correct, Chat!F!Correct, Clones!Forgotten, Chat!F!Forgotten, Clones!Forget,
     Chat!F!Forget, Clones!ForgetFails, Chat!F!ForgetFails, Clones!Detach, Chat!F!Detach,
     Clones!StopOrStart, Chat!F!StopOrStart, Clones!Close, Chat!F!Close, Clones!Next, Chat!F!Next,
     Clones!AnswersAreWhole, Chat!F!AnswersAreWhole, Clones!NothingLeftBehind,
     Chat!F!NothingLeftBehind

\* Accounts as it is checked is Accounts as it is proved.
LEMMA AccountsSame ==
  /\ Accounts!Bounds = App!A!Bounds /\ Accounts!Init = App!A!Init /\ Accounts!Next = App!A!Next
  /\ Accounts!PostsAsShown = App!A!PostsAsShown /\ Accounts!OpenIsKept = App!A!OpenIsKept
  /\ Accounts!TokensForgotten = App!A!TokensForgotten
BY DEF Accounts!Bounds, App!A!Bounds, Accounts!memory, App!A!memory, Accounts!bounds, App!A!bounds,
     Accounts!history, App!A!history, Accounts!None, App!A!None, Accounts!Token, App!A!Token,
     Accounts!Idle, App!A!Idle, Accounts!NoBuilt, App!A!NoBuilt, Accounts!Typed, App!A!Typed,
     Accounts!Starting, App!A!Starting, Accounts!Is, App!A!Is, Accounts!Becomes, App!A!Becomes,
     Accounts!Under, App!A!Under, Accounts!Opening, App!A!Opening, Accounts!Booting, App!A!Booting,
     Accounts!Init, App!A!Init, Accounts!Found, App!A!Found, Accounts!SetsOut, App!A!SetsOut,
     Accounts!Boot, App!A!Boot, Accounts!Prefer, App!A!Prefer, Accounts!Build, App!A!Build,
     Accounts!Identify, App!A!Identify, Accounts!Refused, App!A!Refused, Accounts!Starts,
     App!A!Starts, Accounts!Switch, App!A!Switch, Accounts!Add, App!A!Add, Accounts!Store,
     App!A!Store, Accounts!Edit, App!A!Edit, Accounts!Try, App!A!Try, Accounts!Reopens,
     App!A!Reopens, Accounts!Merge, App!A!Merge, Accounts!Rename, App!A!Rename, Accounts!WasOpen,
     App!A!WasOpen, Accounts!Remove, App!A!Remove, Accounts!SignOut, App!A!SignOut, Accounts!Forget,
     App!A!Forget, Accounts!Fail, App!A!Fail, Accounts!Restart, App!A!Restart, Accounts!Next,
     App!A!Next, Accounts!AtRest, App!A!AtRest, Accounts!PostsAsShown, App!A!PostsAsShown,
     Accounts!OpenIsKept, App!A!OpenIsKept, Accounts!TokensForgotten, App!A!TokensForgotten

\* Panel as it is checked is Panel as it is proved.
LEMMA PanelSame ==
  /\ Panel!Bounds = Pane!P!Bounds /\ Panel!Init = Pane!P!Init /\ Panel!Next = Pane!P!Next
  /\ Panel!TypedStays = Pane!P!TypedStays /\ Panel!PanelIsOfChosen = Pane!P!PanelIsOfChosen
BY DEF Panel!Bounds, Pane!P!Bounds, Panel!bounds, Pane!P!bounds, Panel!history, Pane!P!history,
     Panel!Row, Pane!P!Row, Panel!Kinds, Pane!P!Kinds, Panel!Kind, Pane!P!Kind, Panel!Other,
     Pane!P!Other, Panel!Here, Pane!P!Here, Panel!New, Pane!P!New, Panel!Blank, Pane!P!Blank,
     Panel!NoForms, Pane!P!NoForms, Panel!NoRow, Pane!P!NoRow, Panel!RowOf, Pane!P!RowOf,
     Panel!Adding, Pane!P!Adding, Panel!Front, Pane!P!Front, Panel!Shown, Pane!P!Shown,
     Panel!Editing, Pane!P!Editing, Panel!Dirty, Pane!P!Dirty, Panel!Teaching, Pane!P!Teaching,
     Panel!Idle, Pane!P!Idle, Panel!Is, Pane!P!Is, Panel!Becomes, Pane!P!Becomes, Panel!Init,
     Pane!P!Init, Panel!Passed, Pane!P!Passed, Panel!Acts, Pane!P!Acts, Panel!Starts, Pane!P!Starts,
     Panel!Lands, Pane!P!Lands, Panel!Focusing, Pane!P!Focusing, Panel!OpenSetup, Pane!P!OpenSetup,
     Panel!EditSource, Pane!P!EditSource, Panel!CloseSetup, Pane!P!CloseSetup, Panel!ClickRow,
     Pane!P!ClickRow, Panel!Focused, Pane!P!Focused, Panel!NotFocused, Pane!P!NotFocused,
     Panel!Drops, Pane!P!Drops, Panel!StartAdd, Pane!P!StartAdd, Panel!ChooseKind,
     Pane!P!ChooseKind, Panel!TypeIn, Pane!P!TypeIn, Panel!CancelAdd, Pane!P!CancelAdd,
     Panel!CancelEdit, Pane!P!CancelEdit, Panel!Done, Pane!P!Done, Panel!Save, Pane!P!Save,
     Panel!LooksUp, Pane!P!LooksUp, Panel!SavedEdit, Pane!P!SavedEdit, Panel!SavedAdd,
     Pane!P!SavedAdd, Panel!NotSaved, Pane!P!NotSaved, Panel!Remove, Pane!P!Remove, Panel!Removed,
     Pane!P!Removed, Panel!NotRemoved, Pane!P!NotRemoved, Panel!Next, Pane!P!Next, Panel!TypedStays,
     Pane!P!TypedStays, Panel!PanelIsOfChosen, Pane!P!PanelIsOfChosen

\* Shell as it is checked is Shell as it is proved.
LEMMA ShellSame ==
  /\ Shell!Bounds = Chat!O!Bounds /\ Shell!Init = Chat!O!Init /\ Shell!Next = Chat!O!Next
  /\ Shell!OnlineIsFresh = Chat!O!OnlineIsFresh /\ Shell!StartsOffline = Chat!O!StartsOffline
  /\ Shell!CopyIsLatest = Chat!O!CopyIsLatest /\ Shell!EditsAreSeen = Chat!O!EditsAreSeen
BY DEF Shell!Bounds, Chat!O!Bounds, Shell!bounds, Chat!O!bounds, Shell!comes, Chat!O!comes,
     Shell!history, Chat!O!history, Shell!DOCUMENT, Chat!O!DOCUMENT, Shell!Route, Chat!O!Route,
     Shell!Key, Chat!O!Key, Shell!Name, Chat!O!Name, Shell!None, Chat!O!None, Shell!Empty,
     Chat!O!Empty, Shell!App, Chat!O!App, Shell!Unused, Chat!O!Unused, Shell!NoOne, Chat!O!NoOne,
     Shell!NoWorker, Chat!O!NoWorker, Shell!Init, Chat!O!Init, Shell!Is, Chat!O!Is, Shell!Open,
     Chat!O!Open, Shell!Listening, Chat!O!Listening, Shell!Served, Chat!O!Served, Shell!Deploys,
     Chat!O!Deploys, Shell!Replaced, Chat!O!Replaced, Shell!Deploy, Chat!O!Deploy, Shell!Edit,
     Chat!O!Edit, Shell!ServeOther, Chat!O!ServeOther, Shell!Lose, Chat!O!Lose, Shell!Regain,
     Chat!O!Regain, Shell!FiveMinutes, Chat!O!FiveMinutes, Shell!Loading, Chat!O!Loading,
     Shell!Navigate, Chat!O!Navigate, Shell!KeyOf, Chat!O!KeyOf, Shell!Comes, Chat!O!Comes,
     Shell!Keeps, Chat!O!Keeps, Shell!Kept, Chat!O!Kept, Shell!Becomes, Chat!O!Becomes, Shell!Asked,
     Chat!O!Asked, Shell!GetDocument, Chat!O!GetDocument, Shell!Has, Chat!O!Has, Shell!Breaks,
     Chat!O!Breaks, Shell!GetModule, Chat!O!GetModule, Shell!Land, Chat!O!Land, Shell!Offered,
     Chat!O!Offered, Shell!Register, Chat!O!Register, Shell!Install, Chat!O!Install, Shell!Activate,
     Chat!O!Activate, Shell!Unregister, Chat!O!Unregister, Shell!EmptyShells, Chat!O!EmptyShells,
     Shell!Listen, Chat!O!Listen, Shell!Tick, Chat!O!Tick, Shell!Next, Chat!O!Next,
     Shell!OnlineIsFresh, Chat!O!OnlineIsFresh, Shell!StartsOffline, Chat!O!StartsOffline,
     Shell!CopyIsLatest, Chat!O!CopyIsLatest, Shell!EditsAreSeen, Chat!O!EditsAreSeen

\* Recordings as it is checked is Recordings as it is proved.
LEMMA RecordingsSame ==
  /\ Recordings!Bounds = Pane!Recordings!Bounds /\ Recordings!Init = Pane!Recordings!Init
  /\ Recordings!Next = Pane!Recordings!Next /\ Recordings!GivenBack = Pane!Recordings!GivenBack
  /\ Recordings!NoneShownGone = Pane!Recordings!NoneShownGone
  /\ Recordings!NoneStaysEmpty = Pane!Recordings!NoneStaysEmpty
BY DEF Recordings!Bounds, Pane!Recordings!Bounds, Recordings!None, Pane!Recordings!None, Recordings!Pane,
     Pane!Recordings!Pane, Recordings!Gone, Pane!Recordings!Gone, Recordings!NotHeld,
     Pane!Recordings!NotHeld, Recordings!Blank, Pane!Recordings!Blank, Recordings!IsHeld,
     Pane!Recordings!IsHeld, Recordings!Link, Pane!Recordings!Link, Recordings!Init,
     Pane!Recordings!Init, Recordings!Keeps, Pane!Recordings!Keeps, Recordings!Released,
     Pane!Recordings!Released, Recordings!releaseMedia, Pane!Recordings!releaseMedia,
     Recordings!Drawn, Pane!Recordings!Drawn, Recordings!recording, Pane!Recordings!recording,
     Recordings!Draw, Pane!Recordings!Draw, Recordings!Redraw, Pane!Recordings!Redraw,
     Recordings!Open, Pane!Recordings!Open, Recordings!ToggleFilter, Pane!Recordings!ToggleFilter,
     Recordings!Owns, Pane!Recordings!Owns, Recordings!Shows, Pane!Recordings!Shows,
     Recordings!Comes, Pane!Recordings!Comes, Recordings!Media, Pane!Recordings!Media,
     Recordings!Streamed, Pane!Recordings!Streamed, Recordings!Fails, Pane!Recordings!Fails,
     Recordings!Next, Pane!Recordings!Next, Recordings!GivenBack, Pane!Recordings!GivenBack,
     Recordings!NoneShownGone, Pane!Recordings!NoneShownGone, Recordings!NoneStaysEmpty,
     Pane!Recordings!NoneStaysEmpty

\* Reading as it is checked is Reading as it is proved.
LEMMA ReadingSame ==
  /\ Reading!Bounds = Pane!Reading!Bounds /\ Reading!Init = Pane!Reading!Init
  /\ Reading!Next = Pane!Reading!Next /\ Reading!NeverBlank = Pane!Reading!NeverBlank
  /\ Reading!FilterIsListed = Pane!Reading!FilterIsListed
BY DEF Reading!None, Pane!Reading!None, Reading!Bounds, Pane!Reading!Bounds, Reading!Written,
     Pane!Reading!Written, Reading!Kind, Pane!Reading!Kind, Reading!NoDraft, Pane!Reading!NoDraft,
     Reading!Held, Pane!Reading!Held, Reading!Full, Pane!Reading!Full, Reading!HoldsNothing,
     Pane!Reading!HoldsNothing, Reading!Path, Pane!Reading!Path, Reading!Unmarked,
     Pane!Reading!Unmarked, Reading!Dismissal, Pane!Reading!Dismissal, Reading!Here,
     Pane!Reading!Here, Reading!Waiting, Pane!Reading!Waiting, Reading!queue, Pane!Reading!queue,
     Reading!ready, Pane!Reading!ready, Reading!dismissed, Pane!Reading!dismissed,
     Reading!onlyFlagged, Pane!Reading!onlyFlagged, Reading!Matches, Pane!Reading!Matches,
     Reading!Row, Pane!Reading!Row, Reading!Hidden, Pane!Reading!Hidden, Reading!Sections,
     Pane!Reading!Sections, Reading!Kinds, Pane!Reading!Kinds, Reading!Files, Pane!Reading!Files,
     Reading!Rail, Pane!Reading!Rail, Reading!blankState, Pane!Reading!blankState, Reading!Summary,
     Pane!Reading!Summary, Reading!Diff, Pane!Reading!Diff, Reading!Description,
     Pane!Reading!Description, Reading!Qa, Pane!Reading!Qa, Reading!Pane, Pane!Reading!Pane,
     Reading!Column, Pane!Reading!Column, Reading!Word, Pane!Reading!Word, Reading!QueueRows,
     Pane!Reading!QueueRows, Reading!Board, Pane!Reading!Board, Reading!NoFiles,
     Pane!Reading!NoFiles, Reading!Answer, Pane!Reading!Answer, Reading!Opened, Pane!Reading!Opened,
     Reading!Redraw, Pane!Reading!Redraw, Reading!Start, Pane!Reading!Start, Reading!Init,
     Pane!Reading!Init, Reading!log, Pane!Reading!log, Reading!outside, Pane!Reading!outside,
     Reading!excuses, Pane!Reading!excuses, Reading!Open, Pane!Reading!Open, Reading!PressRow,
     Pane!Reading!PressRow, Reading!Choose, Pane!Reading!Choose, Reading!Arrive,
     Pane!Reading!Arrive, Reading!Picks, Pane!Reading!Picks, Reading!Show, Pane!Reading!Show,
     Reading!OpenInDiff, Pane!Reading!OpenInDiff, Reading!ToggleFlagged, Pane!Reading!ToggleFlagged,
     Reading!Dismisses, Pane!Reading!Dismisses, Reading!Dismiss, Pane!Reading!Dismiss, Reading!Post,
     Pane!Reading!Post, Reading!Restore, Pane!Reading!Restore, Reading!ClearDraft,
     Pane!Reading!ClearDraft, Reading!Absorbs, Pane!Reading!Absorbs, Reading!AgentWrites,
     Pane!Reading!AgentWrites, Reading!Goes, Pane!Reading!Goes, Reading!RefreshFails,
     Pane!Reading!RefreshFails, Reading!SwitchSource, Pane!Reading!SwitchSource, Reading!Next,
     Pane!Reading!Next, Reading!NeverBlank, Pane!Reading!NeverBlank, Reading!FilterIsListed,
     Pane!Reading!FilterIsListed

-------------------------------------------------------------------------------
(* The invariant of every part, and of all of them.                          *)

\* Posting keeps its invariant here.
LEMMA PostingKept ==
  /\ Init /\ part = "posting" => App!PostingInv
  /\ part = "posting" /\ App!PostingInv /\ [Next]_vars => App!PostingInv'
  /\ App!PostingInv =>
       Posting!SendsExplained /\ Posting!UnseenReachesReader /\ Posting!ClosedWithReason /\ Posting!RecordedMeansLanded
  /\ App!PostingInv => Posting!OverwritesWhatWasRead
<1>0. App!Bounds
  BY Bounded, PostingSame
<1>1. Init /\ part = "posting" => App!PostingInv
  <2>1. Init /\ part = "posting" => Posting!Init
    BY DEF Init
  <2> QED BY <1>0, <2>1, PostingSame, App!PostingInvInit
<1>2. part = "posting" /\ App!PostingInv /\ [Next]_vars => App!PostingInv'
  <2> SUFFICES ASSUME part = "posting", App!PostingInv, [Next]_vars PROVE App!PostingInv'
    OBVIOUS
  <2>1. App!Next \/ UNCHANGED App!vars
    BY PartStays, PostingSame DEF slots, App!vars, App!fixed, App!agent, App!github, App!history
  <2> QED BY <1>0, <2>1, App!PostingInvStep, App!PostingInvStutter
<1>3. App!PostingInv => Posting!SendsExplained /\ Posting!UnseenReachesReader /\ Posting!ClosedWithReason /\ Posting!RecordedMeansLanded
  BY <1>0, PostingSame, App!PostingInvMeans
<1>4. App!PostingInv => Posting!OverwritesWhatWasRead
  BY PostingSame, App!OverwritesShown
<1> QED BY <1>1, <1>2, <1>3, <1>4

\* Sweep keeps its invariant here.
LEMMA SweepKept ==
  /\ Init /\ part = "sweep" => Sweeping!SweepInv
  /\ part = "sweep" /\ Sweeping!SweepInv /\ [Next]_vars => Sweeping!SweepInv'
  /\ Sweeping!SweepInv => Sweep!PostsOnce
  /\ Sweeping!SweepInv => Sweep!PrunesAnswered
<1>0. Sweeping!Bounds
  BY Bounded, SweepSame
<1>1. Init /\ part = "sweep" => Sweeping!SweepInv
  <2>1. Init /\ part = "sweep" => Sweep!Init
    BY DEF Init
  <2> QED BY <1>0, <2>1, SweepSame, Sweeping!SweepInvInit
<1>2. part = "sweep" /\ Sweeping!SweepInv /\ [Next]_vars => Sweeping!SweepInv'
  <2> SUFFICES ASSUME part = "sweep", Sweeping!SweepInv, [Next]_vars PROVE Sweeping!SweepInv'
    OBVIOUS
  <2>1. Sweeping!Next \/ UNCHANGED Sweeping!vars
    BY PartStays, SweepSame DEF slots, Sweeping!vars
  <2> QED BY <1>0, <2>1, Sweeping!SweepInvStep, Sweeping!SweepInvStutter
<1>3. Sweeping!SweepInv => Sweep!PostsOnce
  BY <1>0, SweepSame, Sweeping!SweepInvMeans
<1>4. Sweeping!SweepInv => Sweep!PrunesAnswered
  BY SweepSame, Sweeping!PruningLooked
<1> QED BY <1>1, <1>2, <1>3, <1>4

\* GitClone keeps its invariant here.
LEMMA GitCloneKept ==
  /\ Init /\ part = "clone" => Sweeping!CloneInv
  /\ part = "clone" /\ Sweeping!CloneInv /\ [Next]_vars => Sweeping!CloneInv'
  /\ Sweeping!CloneInv => GitClone!AnsweredMeansLanded /\ GitClone!BeatenOnceLands
  /\ part = "clone" /\ Sweeping!CloneInv /\ [Next]_vars => GitClone!ReplacesWhatWasSeen
<1>0. Sweeping!G!Bounds
  BY Bounded, GitCloneSame
<1>1. Init /\ part = "clone" => Sweeping!CloneInv
  <2>1. Init /\ part = "clone" => GitClone!Init
    BY DEF Init
  <2> QED BY <1>0, <2>1, GitCloneSame, Sweeping!CloneInvInit
<1>2. part = "clone" /\ Sweeping!CloneInv /\ [Next]_vars => Sweeping!CloneInv'
  <2> SUFFICES ASSUME part = "clone", Sweeping!CloneInv, [Next]_vars PROVE Sweeping!CloneInv'
    OBVIOUS
  <2>1. Sweeping!G!Next \/ UNCHANGED Sweeping!G!vars
    BY PartStays, GitCloneSame DEF slots, Sweeping!G!vars, Sweeping!G!clone, Sweeping!G!history
  <2> QED BY <1>0, <2>1, Sweeping!CloneInvStep, Sweeping!CloneInvStutter
<1>3. Sweeping!CloneInv => GitClone!AnsweredMeansLanded /\ GitClone!BeatenOnceLands
  BY <1>0, GitCloneSame, Sweeping!CloneInvMeans
<1>4. part = "clone" /\ Sweeping!CloneInv /\ [Next]_vars => GitClone!ReplacesWhatWasSeen
  <2> SUFFICES ASSUME part = "clone", Sweeping!CloneInv, [Next]_vars PROVE Sweeping!G!ReplacesWhatWasSeen
    BY GitCloneSame
  <2>1. Sweeping!G!Next \/ UNCHANGED Sweeping!G!vars
    BY PartStays, GitCloneSame DEF slots, Sweeping!G!vars, Sweeping!G!clone, Sweeping!G!history
  <2>2. CASE UNCHANGED Sweeping!G!vars
    BY <2>2 DEF Sweeping!G!ReplacesWhatWasSeen, Sweeping!G!vars, Sweeping!G!clone, Sweeping!G!history
  <2> QED BY <1>0, <2>1, <2>2, Sweeping!ReplacesStep
<1> QED BY <1>1, <1>2, <1>3, <1>4

\* SourceSwitch keeps its invariant here.
LEMMA SourceSwitchKept ==
  /\ Init /\ part = "switch" => App!SourceInv
  /\ part = "switch" /\ App!SourceInv /\ [Next]_vars => App!SourceInv'
  /\ App!SourceInv => SourceSwitch!OneSource /\ SourceSwitch!NothingMixes
<1>0. App!Switch!Bounds
  BY Bounded, SourceSwitchSame
<1>1. Init /\ part = "switch" => App!SourceInv
  <2>1. Init /\ part = "switch" => SourceSwitch!Init
    BY DEF Init
  <2> QED BY <1>0, <2>1, SourceSwitchSame, App!SourceInvInit
<1>2. part = "switch" /\ App!SourceInv /\ [Next]_vars => App!SourceInv'
  <2> SUFFICES ASSUME part = "switch", App!SourceInv, [Next]_vars PROVE App!SourceInv'
    OBVIOUS
  <2>1. App!Switch!Next \/ UNCHANGED App!Switch!vars
    BY PartStays, SourceSwitchSame DEF slots, App!Switch!vars, App!Switch!storage, App!Switch!reader, App!Switch!work, App!Switch!bounds, App!Switch!history
  <2> QED BY <1>0, <2>1, App!SourceInvStep, App!SourceInvStutter
<1>3. App!SourceInv => SourceSwitch!OneSource /\ SourceSwitch!NothingMixes
  BY <1>0, SourceSwitchSame, App!SourceInvMeans
<1> QED BY <1>1, <1>2, <1>3

\* AdapterWatch keeps its invariant here.
LEMMA AdapterWatchKept ==
  /\ Init /\ part = "watch" => App!WatchInv
  /\ part = "watch" /\ App!WatchInv /\ [Next]_vars => App!WatchInv'
  /\ App!WatchInv => AdapterWatch!NewsIsTold
<1>0. App!W!Bounds
  BY Bounded, AdapterWatchSame
<1>1. Init /\ part = "watch" => App!WatchInv
  <2>1. Init /\ part = "watch" => AdapterWatch!Init
    BY DEF Init
  <2> QED BY <1>0, <2>1, AdapterWatchSame, App!WatchInvInit
<1>2. part = "watch" /\ App!WatchInv /\ [Next]_vars => App!WatchInv'
  <2> SUFFICES ASSUME part = "watch", App!WatchInv, [Next]_vars PROVE App!WatchInv'
    OBVIOUS
  <2>1. App!W!Next \/ UNCHANGED App!W!vars
    BY PartStays, AdapterWatchSame DEF slots, App!W!vars, App!W!storage, App!W!bounds, App!W!history
  <2> QED BY <1>0, <2>1, App!WatchInvStep, App!WatchInvStutter
<1>3. App!WatchInv => AdapterWatch!NewsIsTold
  BY <1>0, AdapterWatchSame, App!WatchInvMeans
<1> QED BY <1>1, <1>2, <1>3

\* TextDiff keeps its invariant here.
LEMMA TextDiffKept ==
  /\ Init /\ part = "rewrite" => Chat!DiffInv
  /\ part = "rewrite" /\ Chat!DiffInv /\ [Next]_vars => Chat!DiffInv'
  /\ Chat!DiffInv => TextDiff!TypeOK /\ TextDiff!SentAsShown
<1>0. Chat!D!Bounds
  BY Bounded, TextDiffSame
<1>1. Init /\ part = "rewrite" => Chat!DiffInv
  <2>1. Init /\ part = "rewrite" => TextDiff!Init
    BY DEF Init
  <2> QED BY <1>0, <2>1, TextDiffSame, Chat!DiffInit
<1>2. part = "rewrite" /\ Chat!DiffInv /\ [Next]_vars => Chat!DiffInv'
  <2> SUFFICES ASSUME part = "rewrite", Chat!DiffInv, [Next]_vars PROVE Chat!DiffInv'
    OBVIOUS
  <2>1. Chat!D!Next \/ UNCHANGED Chat!D!vars
    BY PartStays, TextDiffSame DEF slots, Chat!D!vars
  <2> QED BY <1>0, <2>1, Chat!DiffStep, Chat!DiffStutter
<1>3. Chat!DiffInv => TextDiff!TypeOK /\ TextDiff!SentAsShown
  BY <1>0, TextDiffSame, Chat!DiffMeans
<1> QED BY <1>1, <1>2, <1>3

\* AgentChat keeps its invariant here.
LEMMA AgentChatKept ==
  /\ Init /\ part = "chat" => Chat!ChatInv
  /\ part = "chat" /\ Chat!ChatInv /\ [Next]_vars => Chat!ChatInv'
  /\ Chat!ChatInv => AgentChat!OneForkOfItsAgent /\ AgentChat!ToldOnce
<1>0. Chat!Bounds
  BY Bounded, AgentChatSame
<1>1. Init /\ part = "chat" => Chat!ChatInv
  <2>1. Init /\ part = "chat" => AgentChat!Init
    BY DEF Init
  <2> QED BY <1>0, <2>1, AgentChatSame, Chat!ChatInvInit
<1>2. part = "chat" /\ Chat!ChatInv /\ [Next]_vars => Chat!ChatInv'
  <2> SUFFICES ASSUME part = "chat", Chat!ChatInv, [Next]_vars PROVE Chat!ChatInv'
    OBVIOUS
  <2>1. Chat!Next \/ UNCHANGED Chat!vars
    BY PartStays, AgentChatSame DEF slots, Chat!vars, Chat!bounds, Chat!history
  <2> QED BY <1>0, <2>1, Chat!ChatInvStep, Chat!ChatInvStutter
<1>3. Chat!ChatInv => AgentChat!OneForkOfItsAgent /\ AgentChat!ToldOnce
  BY <1>0, AgentChatSame, Chat!ChatInvMeans
<1> QED BY <1>1, <1>2, <1>3

\* Selecting keeps its invariant here.
LEMMA SelectingKept ==
  /\ Init /\ part = "pane" => Pane!OpeningInv
  /\ part = "pane" /\ Pane!OpeningInv /\ [Next]_vars => Pane!OpeningInv'
  /\ Pane!OpeningInv => Selecting!PaneIsOfSelected
<1>0. Pane!Bounds
  BY Bounded, SelectingSame
<1>1. Init /\ part = "pane" => Pane!OpeningInv
  <2>1. Init /\ part = "pane" => Selecting!Init
    BY DEF Init
  <2> QED BY <1>0, <2>1, SelectingSame, Pane!PaneInvInit
<1>2. part = "pane" /\ Pane!OpeningInv /\ [Next]_vars => Pane!OpeningInv'
  <2> SUFFICES ASSUME part = "pane", Pane!OpeningInv, [Next]_vars PROVE Pane!OpeningInv'
    OBVIOUS
  <2>1. Pane!Next \/ UNCHANGED Pane!vars
    BY PartStays, SelectingSame DEF slots, Pane!vars
  <2> QED BY <1>0, <2>1, Pane!PaneInvStep, Pane!PaneInvStutter
<1>3. Pane!OpeningInv => Selecting!PaneIsOfSelected
  BY <1>0, SelectingSame, Pane!PaneInvMeans
<1> QED BY <1>1, <1>2, <1>3

\* Writing keeps its invariant here.
LEMMA WritingKept ==
  /\ Init /\ part = "writing" => Pane!WritingInv
  /\ part = "writing" /\ Pane!WritingInv /\ [Next]_vars => Pane!WritingInv'
  /\ Pane!WritingInv => Writing!WordsStay
<1>0. Pane!T!Bounds
  BY Bounded, WritingSame
<1>1. Init /\ part = "writing" => Pane!WritingInv
  <2>1. Init /\ part = "writing" => Writing!Init
    BY DEF Init
  <2> QED BY <1>0, <2>1, WritingSame, Pane!WritingInvInit
<1>2. part = "writing" /\ Pane!WritingInv /\ [Next]_vars => Pane!WritingInv'
  <2> SUFFICES ASSUME part = "writing", Pane!WritingInv, [Next]_vars PROVE Pane!WritingInv'
    OBVIOUS
  <2>1. Pane!T!Next \/ UNCHANGED Pane!T!vars
    BY PartStays, WritingSame DEF slots, Pane!T!vars, Pane!T!app, Pane!T!history
  <2> QED BY <1>0, <2>1, Pane!WritingInvStep, Pane!WritingInvStutter
<1>3. Pane!WritingInv => Writing!WordsStay
  BY <1>0, WritingSame, Pane!WritingInvMeans
<1> QED BY <1>1, <1>2, <1>3

\* Settings keeps its invariant here.
LEMMA SettingsKept ==
  /\ Init /\ part = "settings" => App!SettingsInv
  /\ part = "settings" /\ App!SettingsInv /\ [Next]_vars => App!SettingsInv'
  /\ App!SettingsInv => Settings!SourceHoldsTogether /\ Settings!HealthIsCurrent
<1>0. App!Settings!Bounds
  BY Bounded, SettingsSame
<1>1. Init /\ part = "settings" => App!SettingsInv
  <2>1. Init /\ part = "settings" => Settings!Init
    BY DEF Init
  <2> QED BY <1>0, <2>1, SettingsSame, App!SettingsInvInit
<1>2. part = "settings" /\ App!SettingsInv /\ [Next]_vars => App!SettingsInv'
  <2> SUFFICES ASSUME part = "settings", App!SettingsInv, [Next]_vars PROVE App!SettingsInv'
    OBVIOUS
  <2>1. App!Settings!Next \/ UNCHANGED App!Settings!vars
    BY PartStays, SettingsSame DEF slots, App!Settings!vars, App!Settings!stored, App!Settings!reading, App!Settings!history
  <2> QED BY <1>0, <2>1, App!SettingsInvStep, App!SettingsInvStutter
<1>3. App!SettingsInv => Settings!SourceHoldsTogether /\ Settings!HealthIsCurrent
  BY <1>0, SettingsSame, App!SettingsInvMeans
<1> QED BY <1>1, <1>2, <1>3

\* Review keeps its invariant here.
LEMMA ReviewKept ==
  /\ Init /\ part = "review" => Sweeping!ReviewInv
  /\ part = "review" /\ Sweeping!ReviewInv /\ [Next]_vars => Sweeping!ReviewInv'
  /\ Sweeping!ReviewInv => Review!TypeOK
  /\ part = "review" /\ Sweeping!ReviewInv /\ Next => Review!SendsWhatWasAgreed
<1>0. Sweeping!R!Bounds
  BY Bounded, ReviewSame
<1>1. Init /\ part = "review" => Sweeping!ReviewInv
  <2>1. Init /\ part = "review" => Review!Init
    BY DEF Init
  <2> QED BY <1>0, <2>1, ReviewSame, Sweeping!ReviewInit
<1>2. part = "review" /\ Sweeping!ReviewInv /\ [Next]_vars => Sweeping!ReviewInv'
  <2> SUFFICES ASSUME part = "review", Sweeping!ReviewInv, [Next]_vars PROVE Sweeping!ReviewInv'
    OBVIOUS
  <2>1. Sweeping!R!Next \/ UNCHANGED Sweeping!R!vars
    BY PartStays, ReviewSame DEF slots, Sweeping!R!vars, Sweeping!R!log, Sweeping!R!history
  <2> QED BY <1>0, <2>1, Sweeping!ReviewStep, Sweeping!ReviewStutter
<1>3. Sweeping!ReviewInv => Review!TypeOK
  BY <1>0, ReviewSame, Sweeping!ReviewMeans
<1>4. part = "review" /\ Sweeping!ReviewInv /\ Next => Review!SendsWhatWasAgreed
  <2> SUFFICES ASSUME part = "review", Sweeping!ReviewInv, Next PROVE Sweeping!R!SendsWhatWasAgreed
    BY ReviewSame
  <2>1. Sweeping!R!Next
    BY ReviewSame DEF Next, PostingStep, SweepStep, GitCloneStep, SourceSwitchStep, AdapterWatchStep,
       TextDiffStep, AgentChatStep, SelectingStep, WritingStep, SettingsStep, ReviewStep, BackendsStep,
       ClonesStep, AccountsStep, PanelStep, ShellStep, RecordingsStep, ReadingStep
  <2> QED BY <1>0, <2>1, Sweeping!SendsAgreed
<1> QED BY <1>1, <1>2, <1>3, <1>4

\* Backends keeps its invariant here.
LEMMA BackendsKept ==
  /\ Init /\ part = "storage" => Sweeping!BackendsInv
  /\ part = "storage" /\ Sweeping!BackendsInv /\ [Next]_vars => Sweeping!BackendsInv'
  /\ Sweeping!BackendsInv => Backends!TypeOK
  /\ part = "storage" /\ Sweeping!BackendsInv /\ Next => Backends!AnswersHold
<1>0. Sweeping!B!Bounds
  BY Bounded, BackendsSame
<1>1. Init /\ part = "storage" => Sweeping!BackendsInv
  <2>1. Init /\ part = "storage" => Backends!Init
    BY DEF Init
  <2> QED BY <1>0, <2>1, BackendsSame, Sweeping!BackendsInit
<1>2. part = "storage" /\ Sweeping!BackendsInv /\ [Next]_vars => Sweeping!BackendsInv'
  <2> SUFFICES ASSUME part = "storage", Sweeping!BackendsInv, [Next]_vars PROVE Sweeping!BackendsInv'
    OBVIOUS
  <2>1. Sweeping!B!Next \/ UNCHANGED Sweeping!B!vars
    BY PartStays, BackendsSame DEF slots, Sweeping!B!vars, Sweeping!B!counts
  <2> QED BY <1>0, <2>1, Sweeping!BackendsStep, Sweeping!BackendsStutter
<1>3. Sweeping!BackendsInv => Backends!TypeOK
  BY <1>0, BackendsSame, Sweeping!BackendsMeans
<1>4. part = "storage" /\ Sweeping!BackendsInv /\ Next => Backends!AnswersHold
  <2> SUFFICES ASSUME part = "storage", Sweeping!BackendsInv, Next PROVE Sweeping!B!AnswersHold
    BY BackendsSame
  <2>1. Sweeping!B!Next
    BY BackendsSame DEF Next, PostingStep, SweepStep, GitCloneStep, SourceSwitchStep, AdapterWatchStep,
       TextDiffStep, AgentChatStep, SelectingStep, WritingStep, SettingsStep, ReviewStep, BackendsStep,
       ClonesStep, AccountsStep, PanelStep, ShellStep, RecordingsStep, ReadingStep
  <2> QED BY <1>0, <2>1, Sweeping!AnswersStep
<1> QED BY <1>1, <1>2, <1>3, <1>4

\* Clones keeps its invariant here.
LEMMA ClonesKept ==
  /\ Init /\ part = "folder" => Chat!FolderInv
  /\ part = "folder" /\ Chat!FolderInv /\ [Next]_vars => Chat!FolderInv'
  /\ Chat!FolderInv => Clones!AnswersAreWhole /\ Clones!NothingLeftBehind
<1>0. Chat!F!Bounds
  BY Bounded, ClonesSame
<1>1. Init /\ part = "folder" => Chat!FolderInv
  <2>1. Init /\ part = "folder" => Clones!Init
    BY DEF Init
  <2> QED BY <1>0, <2>1, ClonesSame, Chat!FolderInit
<1>2. part = "folder" /\ Chat!FolderInv /\ [Next]_vars => Chat!FolderInv'
  <2> SUFFICES ASSUME part = "folder", Chat!FolderInv, [Next]_vars PROVE Chat!FolderInv'
    OBVIOUS
  <2>1. Chat!F!Next \/ UNCHANGED Chat!F!vars
    BY PartStays, ClonesSame DEF slots, Chat!F!vars, Chat!F!bounds, Chat!F!history
  <2> QED BY <1>0, <2>1, Chat!FolderStep, Chat!FolderStutter
<1>3. Chat!FolderInv => Clones!AnswersAreWhole /\ Clones!NothingLeftBehind
  BY <1>0, ClonesSame, Chat!FolderMeans
<1> QED BY <1>1, <1>2, <1>3

\* Accounts keeps its invariant here.
LEMMA AccountsKept ==
  /\ Init /\ part = "account" => App!AccountsInv
  /\ part = "account" /\ App!AccountsInv /\ [Next]_vars => App!AccountsInv'
  /\ App!AccountsInv => Accounts!PostsAsShown /\ Accounts!OpenIsKept /\ Accounts!TokensForgotten
<1>0. App!A!Bounds
  BY Bounded, AccountsSame
<1>1. Init /\ part = "account" => App!AccountsInv
  <2>1. Init /\ part = "account" => Accounts!Init
    BY DEF Init
  <2> QED BY <1>0, <2>1, AccountsSame, App!AccountsInvInit
<1>2. part = "account" /\ App!AccountsInv /\ [Next]_vars => App!AccountsInv'
  <2> SUFFICES ASSUME part = "account", App!AccountsInv, [Next]_vars PROVE App!AccountsInv'
    OBVIOUS
  <2>1. App!A!Next \/ UNCHANGED App!A!vars
    BY PartStays, AccountsSame DEF slots, App!A!vars, App!A!memory, App!A!bounds, App!A!history
  <2> QED BY <1>0, <2>1, App!AccountsInvStep, App!AccountsInvStutter
<1>3. App!AccountsInv => Accounts!PostsAsShown /\ Accounts!OpenIsKept /\ Accounts!TokensForgotten
  BY <1>0, AccountsSame, App!AccountsInvMeans
<1> QED BY <1>1, <1>2, <1>3

\* Panel keeps its invariant here.
LEMMA PanelKept ==
  /\ Init /\ part = "panel" => Pane!PanelInv
  /\ part = "panel" /\ Pane!PanelInv /\ [Next]_vars => Pane!PanelInv'
  /\ Pane!PanelInv => Panel!TypedStays /\ Panel!PanelIsOfChosen
<1>0. Pane!P!Bounds
  BY Bounded, PanelSame
<1>1. Init /\ part = "panel" => Pane!PanelInv
  <2>1. Init /\ part = "panel" => Panel!Init
    BY DEF Init
  <2> QED BY <1>0, <2>1, PanelSame, Pane!PanelInvInit
<1>2. part = "panel" /\ Pane!PanelInv /\ [Next]_vars => Pane!PanelInv'
  <2> SUFFICES ASSUME part = "panel", Pane!PanelInv, [Next]_vars PROVE Pane!PanelInv'
    OBVIOUS
  <2>1. Pane!P!Next \/ UNCHANGED Pane!P!vars
    BY PartStays, PanelSame DEF slots, Pane!P!vars, Pane!P!bounds, Pane!P!history
  <2> QED BY <1>0, <2>1, Pane!PanelInvStep, Pane!PanelInvStutter
<1>3. Pane!PanelInv => Panel!TypedStays /\ Panel!PanelIsOfChosen
  BY <1>0, PanelSame, Pane!PanelInvMeans
<1> QED BY <1>1, <1>2, <1>3

\* Shell keeps its invariant here.
LEMMA ShellKept ==
  /\ Init /\ part = "shell" => Chat!ShellInv
  /\ part = "shell" /\ Chat!ShellInv /\ [Next]_vars => Chat!ShellInv'
  /\ Chat!ShellInv =>
       Shell!OnlineIsFresh /\ Shell!StartsOffline /\ Shell!CopyIsLatest /\ Shell!EditsAreSeen
<1>0. Chat!O!Bounds
  BY Bounded, ShellSame
<1>1. Init /\ part = "shell" => Chat!ShellInv
  <2>1. Init /\ part = "shell" => Shell!Init
    BY DEF Init
  <2> QED BY <1>0, <2>1, ShellSame, Chat!ShellInit
<1>2. part = "shell" /\ Chat!ShellInv /\ [Next]_vars => Chat!ShellInv'
  <2> SUFFICES ASSUME part = "shell", Chat!ShellInv, [Next]_vars PROVE Chat!ShellInv'
    OBVIOUS
  <2>1. Chat!O!Next \/ UNCHANGED Chat!O!vars
    BY PartStays, ShellSame DEF slots, Chat!O!vars, Chat!O!bounds, Chat!O!comes, Chat!O!history
  <2> QED BY <1>0, <2>1, Chat!ShellStep, Chat!ShellStutter
<1>3. Chat!ShellInv => Shell!OnlineIsFresh /\ Shell!StartsOffline /\ Shell!CopyIsLatest /\ Shell!EditsAreSeen
  BY <1>0, ShellSame, Chat!ShellMeans
<1> QED BY <1>1, <1>2, <1>3

\* Recordings keeps its invariant here.
LEMMA RecordingsKept ==
  /\ Init /\ part = "recordings" => Pane!RecordingsInv
  /\ part = "recordings" /\ Pane!RecordingsInv /\ [Next]_vars => Pane!RecordingsInv'
  /\ Pane!RecordingsInv =>
       Recordings!GivenBack /\ Recordings!NoneShownGone /\ Recordings!NoneStaysEmpty
<1>0. Pane!Recordings!Bounds
  BY Bounded, RecordingsSame
<1>1. Init /\ part = "recordings" => Pane!RecordingsInv
  <2>1. Init /\ part = "recordings" => Recordings!Init
    BY DEF Init
  <2> QED BY <1>0, <2>1, RecordingsSame, Pane!RecordingsInvInit
<1>2. part = "recordings" /\ Pane!RecordingsInv /\ [Next]_vars => Pane!RecordingsInv'
  <2> SUFFICES ASSUME part = "recordings", Pane!RecordingsInv, [Next]_vars PROVE Pane!RecordingsInv'
    OBVIOUS
  <2>1. Pane!Recordings!Next \/ UNCHANGED Pane!Recordings!vars
    BY PartStays, RecordingsSame DEF slots, Pane!Recordings!vars
  <2> QED BY <1>0, <2>1, Pane!RecordingsInvStep, Pane!RecordingsInvStutter
<1>3. Pane!RecordingsInv => Recordings!GivenBack /\ Recordings!NoneShownGone /\ Recordings!NoneStaysEmpty
  BY <1>0, RecordingsSame, Pane!RecordingsInvMeans
<1> QED BY <1>1, <1>2, <1>3

\* Reading keeps its invariant here.
LEMMA ReadingKept ==
  /\ Init /\ part = "screen" => Pane!ScreenInv
  /\ part = "screen" /\ Pane!ScreenInv /\ [Next]_vars => Pane!ScreenInv'
  /\ Pane!ScreenInv => Reading!NeverBlank /\ Reading!FilterIsListed
<1>0. Pane!Reading!Bounds
  BY Bounded, ReadingSame
<1>1. Init /\ part = "screen" => Pane!ScreenInv
  <2>1. Init /\ part = "screen" => Reading!Init
    BY DEF Init
  <2> QED BY <1>0, <2>1, ReadingSame, Pane!ScreenInvInit
<1>2. part = "screen" /\ Pane!ScreenInv /\ [Next]_vars => Pane!ScreenInv'
  <2> SUFFICES ASSUME part = "screen", Pane!ScreenInv, [Next]_vars PROVE Pane!ScreenInv'
    OBVIOUS
  <2>1. Pane!Reading!Next \/ UNCHANGED Pane!Reading!vars
    BY PartStays, ReadingSame DEF slots, Pane!Reading!vars
  <2> QED BY <1>0, <2>1, Pane!ScreenInvStep, Pane!ScreenInvStutter
<1>3. Pane!ScreenInv => Reading!NeverBlank /\ Reading!FilterIsListed
  BY <1>0, ReadingSame, Pane!ScreenInvMeans
<1> QED BY <1>1, <1>2, <1>3

\* What each part keeps, while it is the one that was picked.
PartsInv ==
  /\ part = "posting" => App!PostingInv
  /\ part = "sweep" => Sweeping!SweepInv
  /\ part = "clone" => Sweeping!CloneInv
  /\ part = "switch" => App!SourceInv
  /\ part = "watch" => App!WatchInv
  /\ part = "rewrite" => Chat!DiffInv
  /\ part = "chat" => Chat!ChatInv
  /\ part = "pane" => Pane!OpeningInv
  /\ part = "writing" => Pane!WritingInv
  /\ part = "settings" => App!SettingsInv
  /\ part = "review" => Sweeping!ReviewInv
  /\ part = "storage" => Sweeping!BackendsInv
  /\ part = "folder" => Chat!FolderInv
  /\ part = "account" => App!AccountsInv
  /\ part = "panel" => Pane!PanelInv
  /\ part = "shell" => Chat!ShellInv
  /\ part = "recordings" => Pane!RecordingsInv
  /\ part = "screen" => Pane!ScreenInv

\* Whichever part was picked, it keeps its invariant to the end.
LEMMA PartsInvAlways == Spec => []PartsInv
<1>1. Init => PartsInv
  BY PostingKept, SweepKept, GitCloneKept, SourceSwitchKept, AdapterWatchKept, TextDiffKept, AgentChatKept, SelectingKept, WritingKept, SettingsKept, ReviewKept, BackendsKept, ClonesKept, AccountsKept, PanelKept, ShellKept, RecordingsKept, ReadingKept DEF PartsInv
<1>2. PartsInv /\ [Next]_vars => PartsInv'
  <2> SUFFICES ASSUME PartsInv, [Next]_vars PROVE PartsInv'
    OBVIOUS
  <2>0. part' = part
    BY PartStays
  <2>1. part' = "posting" => App!PostingInv'
    BY <2>0, PostingKept DEF PartsInv
  <2>2. part' = "sweep" => Sweeping!SweepInv'
    BY <2>0, SweepKept DEF PartsInv
  <2>3. part' = "clone" => Sweeping!CloneInv'
    BY <2>0, GitCloneKept DEF PartsInv
  <2>4. part' = "switch" => App!SourceInv'
    BY <2>0, SourceSwitchKept DEF PartsInv
  <2>5. part' = "watch" => App!WatchInv'
    BY <2>0, AdapterWatchKept DEF PartsInv
  <2>6. part' = "rewrite" => Chat!DiffInv'
    BY <2>0, TextDiffKept DEF PartsInv
  <2>7. part' = "chat" => Chat!ChatInv'
    BY <2>0, AgentChatKept DEF PartsInv
  <2>8. part' = "pane" => Pane!OpeningInv'
    BY <2>0, SelectingKept DEF PartsInv
  <2>9. part' = "writing" => Pane!WritingInv'
    BY <2>0, WritingKept DEF PartsInv
  <2>10. part' = "settings" => App!SettingsInv'
    BY <2>0, SettingsKept DEF PartsInv
  <2>11. part' = "review" => Sweeping!ReviewInv'
    BY <2>0, ReviewKept DEF PartsInv
  <2>12. part' = "storage" => Sweeping!BackendsInv'
    BY <2>0, BackendsKept DEF PartsInv
  <2>13. part' = "folder" => Chat!FolderInv'
    BY <2>0, ClonesKept DEF PartsInv
  <2>14. part' = "account" => App!AccountsInv'
    BY <2>0, AccountsKept DEF PartsInv
  <2>15. part' = "panel" => Pane!PanelInv'
    BY <2>0, PanelKept DEF PartsInv
  <2>16. part' = "shell" => Chat!ShellInv'
    BY <2>0, ShellKept DEF PartsInv
  <2>17. part' = "recordings" => Pane!RecordingsInv'
    BY <2>0, RecordingsKept DEF PartsInv
  <2>18. part' = "screen" => Pane!ScreenInv'
    BY <2>0, ReadingKept DEF PartsInv
  <2> QED BY <2>1, <2>2, <2>3, <2>4, <2>5, <2>6, <2>7, <2>8, <2>9, <2>10, <2>11, <2>12, <2>13, <2>14, <2>15, <2>16, <2>17, <2>18 DEF PartsInv
<1> QED BY <1>1, <1>2, PTL DEF Spec

-------------------------------------------------------------------------------
(* What the runs check.                                                      *)

\* What a reader types over a field is in its box, recorded for it or given up in
\* sight, unless an opening met another or a card was carried; and what was typed in
\* the settings stays in its form, and the panel is of what was chosen, unless an
\* answer came after the reader had gone on or both forms were blanked at once, for
\* any items, drafts, rows and words (view.js, description-pane.js, header.js).
THEOREM WordsStayAlways == Spec => []WordsStay
<1>1. PartsInv => WordsStay
  BY WritingKept, PanelKept DEF PartsInv, WordsStay
<1> QED BY <1>1, PartsInvAlways, PTL

\* Nothing is answered from a clone that is not whole, unless one was cut short or
\* taken from under somebody, and no clone outlives its sources, unless one was
\* taken or left, for any sources, readers and faults (git.js _open, forget).
THEOREM ClonesHoldAlways == Spec => []ClonesHold
<1>1. PartsInv => ClonesHold
  BY ClonesKept DEF PartsInv, ClonesHold
<1> QED BY <1>1, PartsInvAlways, PTL

\* A page loaded with the network shows what the server had since, one whose shell
\* was kept starts without, what is kept is the last that came and an edit is seen,
\* for any pages, deploys, loads and outages (sw.js, offline.js, reload.go).
THEOREM ShellHoldsAlways == Spec => []ShellHolds
<1>1. PartsInv => ShellHolds
  BY ShellKept DEF PartsInv, ShellHolds
<1> QED BY <1>1, PartsInvAlways, PTL

\* Where openings did not overlap, a review goes through the destination that is
\* marked and as the account that is shown; at rest one is open if there is one,
\* with the token kept for it; and a token goes with its destination, for any
\* destinations, calls and faults (app.js _openDestination, removeDestination).
THEOREM AccountsHoldAlways == Spec => []AccountsHold
<1>1. PartsInv => AccountsHold
  BY AccountsKept DEF PartsInv, AccountsHold
<1> QED BY <1>1, PartsInvAlways, PTL

\* A source nobody touched twice at once holds a storage and a credential shown to
\* work together, and with nothing under way every row says how its source is, for
\* any number of calls and faults (app.js editSource, removeSource, probeSources).
THEOREM SettingsTrueAlways == Spec => []SettingsTrue
<1>1. PartsInv => SettingsTrue
  BY SettingsKept DEF PartsInv, SettingsTrue
<1> QED BY <1>1, PartsInvAlways, PTL

\* Nothing goes to GitHub twice without a reason, no issue is closed before the
\* comment that says why, and a triage recorded as posted is all on the issue, for
\* any number of drafts, presses, decisions and faults (confirm.js post, postTriage).
THEOREM SendsHoldAlways == Spec => []SendsHold
<1>1. PartsInv => SendsHold
  BY PostingKept DEF PartsInv, SendsHold
<1> QED BY <1>1, PartsInvAlways, PTL

\* A draft the reader never decided about is on the queue, and what the reader
\* opens of it is on the screen, for any number of drafts, decisions and switches
\* (Queries._dismissal, summary.js blankState, rail.js).
THEOREM UnseenReachesReaderAlways == Spec => []UnseenReachesReader
<1>1. PartsInv => UnseenReachesReader
  BY PostingKept, ReadingKept DEF PartsInv, UnseenReachesReader
<1> QED BY <1>1, PartsInvAlways, PTL

\* The sweep posts one review, but for what two agents at once or a lost record
\* excuse, for any clock and any number of faults (post.js alreadyPosted).
THEOREM PostsOnceAlways == Spec => []PostsOnce
<1>1. PartsInv => PostsOnce
  BY SweepKept DEF PartsInv, PostsOnce
<1> QED BY <1>1, PartsInvAlways, PTL

\* The pane shows nothing of another item, and the recordings it shows are
\* held, read and given back, for any recordings and any number of openings and
\* reads (app.js select, qa.js).
THEOREM PaneIsOfSelectedAlways == Spec => []PaneIsOfSelected
<1>1. PartsInv => PaneIsOfSelected
  BY SelectingKept, RecordingsKept DEF PartsInv, PaneIsOfSelected
<1> QED BY <1>1, PartsInvAlways, PTL

\* What is sent of a rewrite is what the pane shows: the changes of the hunks the
\* reader kept and no others, also after the same line was put above both bodies,
\* for bodies of any length (text-diff.js applyHunks, diffText).
THEOREM SentAsShownAlways == Spec => []SentAsShown
<1>1. PartsInv => SentAsShown
  BY TextDiffKept DEF PartsInv, SentAsShown
<1> QED BY <1>1, PartsInvAlways, PTL

\* A message goes to a session of the agent whose draft is on screen, a draft's
\* session is forked once but for what a closed app missed, and the reader is told
\* once how a run ended, for any drafts, messages and faults (agent-chat.js send).
THEOREM AgentHeardOnceAlways == Spec => []AgentHeardOnce
<1>1. PartsInv => AgentHeardOnce
  BY AgentChatKept DEF PartsInv, AgentHeardOnce
<1> QED BY <1>1, PartsInvAlways, PTL

\* Rounds of a watch that overlap lose no news, for any number of rounds, changes
\* and outages (adapter.js poll).
THEOREM NewsIsToldAlways == Spec => []NewsIsTold
<1>1. PartsInv => NewsIsTold
  BY AdapterWatchKept DEF PartsInv, NewsIsTold
<1> QED BY <1>1, PartsInvAlways, PTL

\* After an opening everything read is of one source, and a source's log and
\* storage hold its own decisions, for any sources and any number of openings and
\* decisions (app.js _openSource, multi-event-store.js).
THEOREM SourcesStayApart == Spec => []SourcesApart
<1>1. PartsInv => SourcesApart
  BY SourceSwitchKept DEF PartsInv, SourcesApart
<1> QED BY <1>1, PartsInvAlways, PTL

\* A write or removal answered well is on the host, and one whose push was beaten
\* once gets through, for any calls, commits and faults (git.js _send).
THEOREM SendsLandAlways == Spec => []SendsLand
<1>1. PartsInv => SendsLand
  BY GitCloneKept DEF PartsInv, SendsLand
<1> QED BY <1>1, PartsInvAlways, PTL

\* Nothing is replaced or removed that nobody looked at: no body that had moved
\* when it was looked at again, no draft nobody answered, no version of the draft
\* that was not cleared, for any numbers of them (confirm.js postTriage,
\* prune-drafts.js, git.js remove).
THEOREM NothingUnseenLostAlways == Spec => NothingUnseenLost
<1>1. PartsInv /\ [Next]_vars =>
        [/\ part = "posting" => Posting!OverwritesWhatWasRead
         /\ part = "sweep" => Sweep!PrunesAnswered
         /\ part = "clone" => GitClone!ReplacesWhatWasSeen]_vars
  BY PostingKept, SweepKept, GitCloneKept DEF PartsInv
<1> QED BY <1>1, PartsInvAlways, PTL DEF Spec, NothingUnseenLost

\* A listing answers with what was there all along and with nothing that never
\* was, a read with what was there at some moment of it, a write or a removal was
\* there or gone, and GitHub replaces only what was looked at, for any paths, pages,
\* calls, writers and lost answers (s3.js list, github.js, filesystem.js, tauri.js).
THEOREM AnswersHoldAlways == Spec => AnswersHold
<1>1. PartsInv /\ [Next]_vars => [part = "storage" => Backends!AnswersHold]_vars
  BY BackendsKept DEF PartsInv
<1> QED BY <1>1, PartsInvAlways, PTL DEF Spec, AnswersHold

\* A review carries each finding that was said yes to, once and in the words it
\* then had or the agent's newer ones, the summary and the verdict on the same
\* terms, and the prefix on the agent's words alone, for any pull requests,
\* findings, drafts and decisions (domain/review.js reviewPayload).
THEOREM SendsAsAgreedAlways == Spec => SendsAsAgreed
<1>1. PartsInv /\ [Next]_vars => [part = "review" => Review!SendsWhatWasAgreed]_vars
  BY ReviewKept DEF PartsInv
<1> QED BY <1>1, PartsInvAlways, PTL DEF Spec, SendsAsAgreed
===============================================================================
