-------------------------------- MODULE Review --------------------------------
(* What a send carries: the drafts as they are parsed, the decisions of the  *)
(* reader laid over them, and the request put together from both, over pulls *)
(* whose findings carry the same ids, over issues, and across redrafts.      *)
EXTENDS Naturals, Sequences, FiniteSets, SequencesExt

CONSTANTS
  Pull, Issue,   \* what may be on the queue
  Mine,          \* pull requests of the reader's own
  Finding,       \* the agent's stable ids, alike in every draft
  Own,           \* comments the reader writes
  Label,
  MaxDrafts,     \* drafts of one item
  MaxSteps,      \* decisions and redrafts
  MaxWords       \* times the reader writes something

Item == Pull \cup Issue

Bounds ==
  /\ Pull \cap Issue = {} /\ Mine \subseteq Pull /\ {"own", "none", "removed"} \cap Item = {}
  /\ Finding \cap Own = {} /\ "summary" \notin Finding \cup Own /\ IsFiniteSet(Finding \cup Own)
  /\ MaxDrafts \in Nat \ {0} /\ {MaxSteps, MaxWords} \subseteq Nat

VARIABLES
  queue,      \* the items there are
  draft,      \* by item, the last draft that could be read
  pulls,      \* by item, what the log says of it
  findings,   \* by key, what the log says of a finding
  own,        \* by comment of the reader's, the pull request it is on
  reading,    \* the reader's prefix and stripped labels
  sent,       \* the request that goes out in this step
  steps, written,
  agreed,     \* what the reader said yes to, and the words it had (history)
  chosen,     \* by item, the verdict the reader chose since the last send (history)
  reverted    \* own comments put back to what no agent wrote (history)

log == <<pulls, findings, own, reading>>
history == <<agreed, chosen, reverted>>
vars == <<queue, draft, log, sent, steps, written, history>>

\* None, the agent's of a draft, or the reader's of a writing. Null is what a
\* decision holds of a text the reader left as it is.
Words == 0..(MaxDrafts + MaxWords)
NoWords == 0
Null == MaxDrafts + MaxWords + 1
Readers(w) == w > MaxDrafts /\ w # Null
Fresh == MaxDrafts + written + 1     \* what is typed next

-----------------------------------------------------------------------------
(* parseDraft.                                                               *)

Verdict == {"APPROVE", "COMMENT", "REQUEST_CHANGES"}

\* What the agent may write: of a pull request and of an issue.
File(verdict, comment, list, add, remove, close) ==
  [verdict |-> verdict, comment |-> comment, findings |-> list, add |-> add, remove |-> remove, close |-> close]

PullFiles == [verdict : {"", "COMMENT", "LGTM"}, comment : BOOLEAN, findings : BoundedSeq(Finding, 2),
              add : {{}}, remove : {{}}, close : {"none"}]
IssueFiles == [verdict : {""}, comment : BOOLEAN, findings : {<<>>}, add : SUBSET Label, remove : SUBSET Label,
               close : {"none", "duplicate", "duplicateOfNothing"}]
Files(i) == IF i \in Pull THEN PullFiles ELSE IssueFiles

First(i) == IF i \in Pull THEN File("APPROVE", TRUE, SetToSeq(Finding), {}, {}, "none")
            ELSE File("", TRUE, <<>>, {CHOOSE l \in Label : TRUE}, {}, "duplicate")

\* Ids are how the app remembers what was kept, so a repeat is refused.
\* Mutant: it is taken.
AnyList(list) == TRUE
Distinct(list) == IsInjective(list)

LabelsAgree(file) == file.add \cap file.remove = {}
CloseNamed(file) == file.close # "duplicateOfNothing"

Proposes(file) ==
  \/ file.verdict # "" \/ file.comment \/ file.close # "none" \/ file.add \cup file.remove # {}

Parses(file) ==
  /\ file.verdict \in Verdict \cup {""}
  /\ Distinct(file.findings) /\ LabelsAgree(file) /\ CloseNamed(file) /\ Proposes(file)

Parsed(file, n) == [n |-> n, file |-> file]

-----------------------------------------------------------------------------
(* The log's objects, and the queries over them.                             *)

Untouched == [comment |-> Null, included |-> FALSE, verdict |-> "", posted |-> FALSE,
              labelsDropped |-> FALSE, closeDropped |-> FALSE]
NoDecision == [included |-> FALSE, body |-> Null, edited |-> FALSE, fix |-> Null, posted |-> FALSE]

Keys == (Pull \X Finding) \cup ({"own"} \X Own)

\* Mutant: an agent's finding is filed under its id alone.
KeyById(i, f) == IF f \in Own THEN <<"own", f>> ELSE <<CHOOSE p \in Pull : TRUE, f>>
Key(i, f) == IF f \in Own THEN <<"own", f>> ELSE <<i, f>>

AgentsFindings(i) == draft[i].file.findings

CommentFor(i) ==
  IF pulls[i].comment # Null THEN pulls[i].comment ELSE IF draft[i].file.comment THEN draft[i].n ELSE NoWords

CommentToPost(i) == IF pulls[i].included THEN CommentFor(i) ELSE NoWords

IsCommentEdited(i) == pulls[i].comment # Null

VerdictFor(i) ==
  IF i \in Mine THEN "COMMENT"
  ELSE IF pulls[i].verdict # "" THEN pulls[i].verdict
  ELSE IF draft[i].file.verdict # "" THEN draft[i].file.verdict ELSE "COMMENT"

\* One finding as the reader sees it: their decision over the agent's words.
Merged(i, f) ==
  LET o == findings[Key(i, f)]
      drafted == IF f \in Own THEN NoWords ELSE draft[i].n
  IN  [id |-> f, included |-> o.included, edited |-> o.edited, posted |-> o.posted,
       body |-> IF o.body = Null THEN drafted ELSE o.body,
       fix |-> IF o.fix = Null THEN drafted ELSE o.fix]

\* The agent's in its order, then the reader's own.
FindingsForPull(i) ==
  LET ids == AgentsFindings(i) \o SetToSeq({f \in Own : own[f] = i})
  IN  [n \in DOMAIN ids |-> Merged(i, ids[n])]

\* The members of a list at some of its places, in their order.
Picked(list, I) ==
  LET place(k) == CHOOSE n \in I : Cardinality({m \in I : m < n}) = k - 1
  IN  [k \in 1..Cardinality(I) |-> list[place(k)]]

FindingsToPost(i) ==
  LET list == FindingsForPull(i)
  IN  Picked(list, {n \in DOMAIN list : list[n].included /\ ~list[n].posted})

Prefixed(words, readers) == reading.prefix /\ words # NoWords /\ ~readers

BodyToPost(f) ==
  [id |-> f.id, body |-> f.body, fix |-> f.fix, led |-> Prefixed(f.body, f.edited \/ f.id \in Own)]

LabelsToPost(i) ==
  LET file == draft[i].file IN [add |-> file.add, remove |-> (file.remove \cup reading.stripped) \ file.add]

-----------------------------------------------------------------------------
(* Requests.                                                                 *)

Request(what, i, words, comments) ==
  [what |-> what, to |-> i, body |-> words, led |-> Prefixed(words, IsCommentEdited(i)), comments |-> comments,
   event |-> "", add |-> {}, remove |-> {}, closes |-> FALSE]
Silence == [what |-> "none"]

ReviewPayload(i) ==
  LET list == FindingsToPost(i)
  IN  [Request("review", i, CommentToPost(i), [n \in DOMAIN list |-> BodyToPost(list[n])])
         EXCEPT !.event = VerdictFor(i)]

Triage(i) ==
  LET labels == IF pulls[i].labelsDropped THEN [add |-> {}, remove |-> {}] ELSE LabelsToPost(i)
  IN  [Request("triage", i, CommentFor(i), <<>>)
         EXCEPT !.add = labels.add, !.remove = labels.remove,
                !.closes = draft[i].file.close # "none" /\ ~pulls[i].closeDropped]

-----------------------------------------------------------------------------
(* What the reader said yes to.                                              *)

NotAgreed == [yes |-> FALSE, body |-> NoWords, fix |-> NoWords]
Agreed(body, fix) == [yes |-> TRUE, body |-> body, fix |-> fix]
Targets == (Pull \X (Finding \cup Own)) \cup (Item \X {"summary"})
Agree(t, body, fix) == agreed' = [agreed EXCEPT ![t] = Agreed(body, fix)]
Withdraw(t) == agreed' = [agreed EXCEPT ![t] = NotAgreed]

Init ==
  /\ queue \in {Pull, Issue}
  /\ draft = [i \in Item |-> Parsed(First(i), 1)]
  /\ pulls = [i \in Item |-> Untouched] /\ findings = [k \in Keys |-> NoDecision]
  /\ own = [f \in Own |-> "none"] /\ reading = [prefix |-> TRUE, stripped |-> Label]
  /\ sent = Silence /\ steps = 0 /\ written = 0
  /\ agreed = [t \in Targets |-> NotAgreed] /\ chosen = [i \in Item |-> ""] /\ reverted = {}

-----------------------------------------------------------------------------
(* Decisions.                                                                *)

Decide == steps < MaxSteps /\ steps' = steps + 1 /\ sent' = Silence
Writes == written < MaxWords /\ written' = written + 1
Open(i) == i \in queue /\ ~pulls[i].posted

Pulls(i, new) == pulls' = [pulls EXCEPT ![i] = new]
Findings(i, f, new) == findings' = [findings EXCEPT ![Key(i, f)] = new]

\* The card of a finding that is not on the destination yet.
Card(i, f) ==
  /\ Open(i) /\ Decide
  /\ \E n \in DOMAIN FindingsForPull(i) : FindingsForPull(i)[n].id = f
  /\ ~findings[Key(i, f)].posted
  /\ UNCHANGED <<queue, draft, pulls, reading, chosen>>

Toggle(i, f) ==
  LET o == findings[Key(i, f)]
      now == Merged(i, f)
  IN  /\ Card(i, f)
      /\ Findings(i, f, [o EXCEPT !.included = ~@])
      /\ IF o.included THEN Withdraw(<<i, f>>) ELSE Agree(<<i, f>>, now.body, now.fix)
      /\ UNCHANGED <<own, written, reverted>>

EditFinding(i, f) == \E text \in {NoWords, Fresh} :
  /\ Card(i, f) /\ Writes
  /\ Findings(i, f, [findings[Key(i, f)] EXCEPT !.body = text, !.edited = TRUE, !.included = TRUE])
  /\ Agree(<<i, f>>, text, Merged(i, f).fix)
  /\ reverted' = reverted \ {f}
  /\ UNCHANGED own

\* The editor's way back, on a comment of the reader's own as well.
ResetFinding(i, f) ==
  LET o == findings[Key(i, f)]
  IN  /\ Card(i, f) /\ o.edited
      /\ Findings(i, f, [o EXCEPT !.body = Null, !.edited = FALSE])
      /\ IF o.included /\ f \notin Own THEN Agree(<<i, f>>, draft[i].n, Merged(i, f).fix) ELSE UNCHANGED agreed
      /\ reverted' = IF f \in Own THEN reverted \cup {f} ELSE reverted
      /\ UNCHANGED <<own, written>>

\* An empty text removes the suggestion from what is sent. A comment of the
\* reader's own has none.
EditSuggestion(i, f) == \E text \in {NoWords, Fresh} :
  LET o == findings[Key(i, f)]
  IN  /\ f \in Finding /\ Card(i, f) /\ Writes
      /\ Findings(i, f, [o EXCEPT !.fix = text, !.included = TRUE])
      /\ Agree(<<i, f>>, Merged(i, f).body, text)
      /\ UNCHANGED <<own, reverted>>

ResetSuggestion(i, f) ==
  LET o == findings[Key(i, f)]
  IN  /\ f \in Finding /\ Card(i, f) /\ o.fix # Null
      /\ Findings(i, f, [o EXCEPT !.fix = Null])
      /\ IF o.included THEN Agree(<<i, f>>, Merged(i, f).body, draft[i].n) ELSE UNCHANGED agreed
      /\ UNCHANGED <<own, written, reverted>>

AddFinding(i, f) ==
  /\ i \in Pull /\ f \in Own /\ Open(i) /\ own[f] = "none" /\ Decide /\ Writes
  /\ own' = [own EXCEPT ![f] = i]
  /\ Findings(i, f, [NoDecision EXCEPT !.body = Fresh, !.included = TRUE, !.fix = NoWords])
  /\ Agree(<<i, f>>, Fresh, NoWords)
  /\ UNCHANGED <<queue, draft, pulls, reading, chosen, reverted>>

RemoveFinding(i, f) ==
  /\ f \in Own /\ ~findings[Key(i, f)].included
  /\ Card(i, f)
  /\ own' = [own EXCEPT ![f] = "removed"]
  /\ UNCHANGED <<findings, agreed, written, reverted>>

PostFinding(i, f) ==
  LET o == findings[Key(i, f)]
  IN  /\ Card(i, f)
      /\ Findings(i, f, [o EXCEPT !.posted = TRUE])
      /\ Withdraw(<<i, f>>)
      /\ UNCHANGED <<own, written, reverted>>

\* A decision about an item as a whole.
Whole(i) == Open(i) /\ Decide /\ UNCHANGED <<queue, draft, findings, own, reading, reverted>>

\* Leaving the box, which may have been emptied.
EditComment(i) == \E words \in {NoWords, Fresh} :
  /\ Whole(i) /\ Writes
  /\ Pulls(i, [pulls[i] EXCEPT !.comment = words, !.included = TRUE])
  /\ Agree(<<i, "summary">>, words, NoWords)
  /\ UNCHANGED chosen

ToggleSummary(i) ==
  /\ Whole(i) /\ CommentFor(i) # NoWords
  /\ Pulls(i, [pulls[i] EXCEPT !.included = ~@])
  /\ IF pulls[i].included THEN Withdraw(<<i, "summary">>) ELSE Agree(<<i, "summary">>, CommentFor(i), NoWords)
  /\ UNCHANGED <<written, chosen>>

ChooseVerdict(i, event) ==
  /\ i \in Pull /\ (i \in Mine => event = "COMMENT")
  /\ Whole(i)
  /\ Pulls(i, [pulls[i] EXCEPT !.verdict = event])
  /\ chosen' = [chosen EXCEPT ![i] = event]
  /\ UNCHANGED <<written, agreed>>

ToggleLabels(i) ==
  /\ i \in Issue /\ Whole(i) /\ LabelsToPost(i) # [add |-> {}, remove |-> {}]
  /\ Pulls(i, [pulls[i] EXCEPT !.labelsDropped = ~@])
  /\ UNCHANGED <<written, agreed, chosen>>

ToggleClose(i) ==
  /\ i \in Issue /\ Whole(i) /\ draft[i].file.close # "none"
  /\ Pulls(i, [pulls[i] EXCEPT !.closeDropped = ~@])
  /\ UNCHANGED <<written, agreed, chosen>>

SetReading == \E prefix \in BOOLEAN, stripped \in SUBSET Label :
  /\ Decide
  /\ reading' = [prefix |-> prefix, stripped |-> stripped] /\ reading' # reading
  /\ (prefix # reading.prefix) # (stripped # reading.stripped)
  /\ UNCHANGED <<queue, draft, pulls, findings, own, written, history>>

-----------------------------------------------------------------------------
(* Sending, and what the agent does.                                         *)

Record(i, event) ==
  /\ Pulls(i, [pulls[i] EXCEPT !.posted = TRUE, !.verdict = event])
  /\ chosen' = [chosen EXCEPT ![i] = "sent"]
  /\ UNCHANGED <<queue, draft, findings, own, reading, steps, written, agreed, reverted>>

\* An empty review is refused.
PostReview(i) ==
  /\ i \in Pull /\ Open(i)
  /\ CommentToPost(i) # NoWords \/ FindingsToPost(i) # <<>>
  /\ sent' = ReviewPayload(i)
  /\ Record(i, VerdictFor(i))

PostTriage(i) ==
  /\ i \in Issue /\ Open(i)
  /\ sent' = Triage(i)
  /\ Record(i, "")

\* Put back on the queue, or its draft cleared: it may be sent once more.
AskAgain(i) ==
  /\ i \in queue /\ pulls[i].posted /\ Decide
  /\ Pulls(i, [pulls[i] EXCEPT !.posted = FALSE])
  /\ UNCHANGED <<queue, draft, findings, own, reading, written, history>>

\* A file that does not parse leaves the draft that is held.
Redraft(i) ==
  /\ i \in queue /\ draft[i].n < MaxDrafts /\ Decide
  /\ \E file \in Files(i) :
       Parses(file) /\ draft' = [draft EXCEPT ![i] = Parsed(file, @.n + 1)]
  /\ UNCHANGED <<queue, log, written, history>>

Next ==
  \/ \E i \in Item :
       \/ \E f \in Finding \cup Own :
            \/ Toggle(i, f) \/ EditFinding(i, f) \/ ResetFinding(i, f) \/ EditSuggestion(i, f)
            \/ ResetSuggestion(i, f) \/ AddFinding(i, f) \/ RemoveFinding(i, f) \/ PostFinding(i, f)
       \/ EditComment(i) \/ ToggleSummary(i) \/ ToggleLabels(i) \/ ToggleClose(i)
       \/ \E event \in Verdict : ChooseVerdict(i, event)
       \/ PostReview(i) \/ PostTriage(i) \/ AskAgain(i) \/ Redraft(i)
  \/ SetReading

Spec == Init /\ [][Next]_vars

-----------------------------------------------------------------------------
(* What must hold.                                                           *)

TypeOK ==
  /\ queue \subseteq Item /\ \A i \in Item : Parses(draft[i].file) /\ draft[i].n \in 1..MaxDrafts
  /\ DOMAIN pulls = Item /\ DOMAIN findings = Keys
  /\ own \in [Own -> Pull \cup {"none", "removed"}]
  /\ reading \in [prefix : BOOLEAN, stripped : SUBSET Label]
  /\ steps \in 0..MaxSteps /\ written \in 0..MaxWords /\ reverted \subseteq Own

\* The words agreed to, or what the agent has put in their place since.
Expected(words, now) == IF words \in 1..MaxDrafts THEN now ELSE words

\* Every comment was said yes to, in these words, and is there once.
CommentsAgreed(i, comments) ==
  /\ \A m, n \in DOMAIN comments : m # n => comments[m].id # comments[n].id
  /\ \A n \in DOMAIN comments :
       LET c == comments[n]
           a == agreed[<<i, c.id>>]
       IN  c.id \in reverted \/ (/\ a.yes
                                 /\ c.body = Expected(a.body, draft[i].n) /\ c.fix = Expected(a.fix, draft[i].n)
                                 /\ c.led = (reading.prefix /\ c.body \in 1..MaxDrafts))

\* And everything said yes to that is still in the draft is there.
NothingForgotten(i, comments) ==
  LET there == {n \in DOMAIN FindingsForPull(i) : agreed[<<i, FindingsForPull(i)[n].id>>].yes}
  IN  \A n \in there : \E m \in DOMAIN comments : comments[m].id = FindingsForPull(i)[n].id

EventAgreed(i, event) ==
  event = IF i \in Mine THEN "COMMENT"
          ELSE IF chosen[i] \notin {"", "sent"} THEN chosen[i]
          ELSE IF chosen[i] = "sent" THEN event
          ELSE IF draft[i].file.verdict = "" THEN "COMMENT" ELSE draft[i].file.verdict

\* A review carries each comment the reader said yes to, in the words they had
\* when they did or the agent's newer ones, once, and no other; the summary on
\* the same terms; their verdict where they chose one; and the prefix on the
\* agent's words alone (domain/review.js reviewPayload, "the request that goes
\* out is exactly what they approved"). A triage adds no label it also takes
\* off. Excused is an own comment put back to what no agent wrote.
SendsWhatWasAgreed ==
  LET i == sent'.to
      summary == agreed[<<i, "summary">>]
      now == IF draft[i].file.comment THEN draft[i].n ELSE NoWords
  IN  /\ sent'.what = "review" =>
           /\ CommentsAgreed(i, sent'.comments) /\ NothingForgotten(i, sent'.comments)
           /\ sent'.body = IF summary.yes THEN Expected(summary.body, now) ELSE NoWords
           /\ sent'.led => ~Readers(sent'.body)
           /\ EventAgreed(i, sent'.event)
      /\ sent'.what = "triage" => sent'.add \cap sent'.remove = {} /\ (sent'.led => ~Readers(sent'.body))
===============================================================================
