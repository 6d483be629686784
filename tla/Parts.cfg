\* Every part over two of whoever acts: two drafts and two presses for a send,
\* six stamps for a sweep, four commits for a clone, two switches and two
\* decisions for a source, one change for a watch, eight lines for a rewrite,
\* three messages for a chat, three openings for the pane, two of each writing
\* over two items, two calls of the settings, three decisions about a review,
\* two requests of a storage, three openings of a destination, three waits and
\* one word in the settings' panel, one change and two loads of the shell, three
\* reads of a recording, and for the screen one pull request of two drafts and
\* one switch of source; one fault, or two, each.
SPECIFICATION Spec
CONSTANTS
  Parts = {"posting", "sweep", "clone", "switch", "watch", "rewrite", "chat", "pane", "writing", "settings", "review", "storage", "folder", "account", "panel", "shell", "recordings", "screen"}
  Actor = {a1, a2}
  Storage = {s1, s2}
  PullDrafts = 2
  Events = 4
  Presses = 2
  Stamps = 6
  Commits = 4
  Asks = 2
  Decisions = 2
  Changes = 1
  Lines = 8
  Sends = 3
  Opens = 3
  Writings = 2
  Corrections = 2
  Choices = 3
  Requests = 2
  StaleAfter = 1
  QuietAfter = 2
  Faults = 1
  Outages = 1
SYMMETRY Symmetry
INVARIANTS
  PartsTypeOK
  SendsHold
  UnseenReachesReader
  PostsOnce
  SendsLand
  SourcesApart
  NewsIsTold
  SentAsShown
  AgentHeardOnce
  PaneIsOfSelected
  WordsStay
  
  ClonesHold
  AccountsHold
  ShellHolds
PROPERTIES
  NothingUnseenLost
  SendsAsAgreed
  AnswersHold
CHECK_DEADLOCK FALSE
