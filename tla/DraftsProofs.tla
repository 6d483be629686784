----------------------------- MODULE DraftsProofs -----------------------------
(* What Drafts guarantees for any drafts, texts, tasks and failures.         *)
EXTENDS Drafts, SequenceTheorems, TLAPS

Busy(t) == task[t].kind # "idle"

\* An idle task carries nothing, and only a task that reads waits for reads.
WellFormed ==
  \A t \in Task :
    /\ ~Busy(t) => task[t] = Idle
    /\ task[t].stage # "reading" =>
         Refreshing(t) /\ task[t].asked = {} /\ task[t].answers = {}

\* A page that is not open has nothing under way.
Closed == ~up => task = [t \in Task |-> Idle] /\ saving = <<>> /\ ~dirty /\ ~watching

\* While nothing is muddled one task runs at a time.
OneTask == ~muddled => \A t, u \in Task : Busy(t) /\ Busy(u) => t = u

\* ... and what it was told is still so, or the watch will report it.
Timely ==
  up /\ ~muddled =>
    \A t \in Task, k \in Key :
      /\ \A c \in Bytes \cup {Failed} :
           <<k, c>> \in task[t].answers => c # Failed /\ (c = stored[k] \/ k \in Moved)
      /\ task[t].stage = "listed" /\ k \notin task[t].listed =>
           stored[k] = Gone \/ k \in Moved

\* t will yet bring k up to date.
Accounts(t, k) ==
  \/ task[t].stage \in {"listing", "listed"}
  \/ k \in task[t].asked /\ task[t].kind # "clear"
  \/ \E c \in Bytes \cup {Failed} : <<k, c>> \in task[t].answers

Accounted ==
  up /\ ~muddled =>
    \A k \in Key : Agrees(k) \/ k \in Moved \/ \E t \in Task : Accounts(t, k)

-------------------------------------------------------------------------------
(* Types.                                                                    *)

\* What tasks are made of.
LEMMA IdleType ==
  /\ Idle \in Running
  /\ \A kind \in {"open", "watch", "refresh", "load", "clear"} :
       Listing(kind) \in Running /\ \A keys \in SUBSET Key : Reading(kind, keys) \in Running
BY DEF Idle, Listing, Reading, Running

\* What a task carries is keys and answers.
LEMMA FieldsType ==
  ASSUME NEW r \in Running
  PROVE  /\ r.asked \in SUBSET Key /\ r.listed \in SUBSET Key
         /\ r.answers \in SUBSET (Key \X (Bytes \cup {Failed}))
BY DEF Running

\* Asking, answering and handling change what a task carries and nothing else.
LEMMA CarriesType ==
  ASSUME NEW r \in Running,
         NEW asked \in SUBSET Key, NEW answers \in SUBSET (Key \X (Bytes \cup {Failed}))
  PROVE  /\ [r EXCEPT !.asked = asked, !.answers = answers] \in Running
         /\ [r EXCEPT !.answers = answers] \in Running
         /\ [r EXCEPT !.stage = "listed", !.listed = asked] \in Running
<1> DEFINE A == SUBSET (Key \X (Bytes \cup {Failed}))
<1>1. answers \in A /\ Running = [kind : {"idle", "open", "watch", "refresh", "load", "clear"},
            stage : {"listing", "listed", "root", "reading"},
            listed : SUBSET Key, asked : SUBSET Key, answers : A]
  BY DEF Running
<1> HIDE DEF A
<1> QED BY <1>1

\* What is shown of a draft is an entry, whatever the text.
LEMMA EntryType ==
  /\ Absent \in Entry /\ Unread \in Entry
  /\ \A entry \in Entry, text \in Text : Recorded(entry, text) \in Entry
BY DEF Absent, Unread, Entry, Bytes, Recorded

\* A snapshot that is handed over is one, and nothing is owed after it.
LEMMA PersistType ==
  ASSUME TypeOK, NEW moved \in BOOLEAN, held' \in Snapshot, Persist(moved)
  PROVE  saving' \in Seq(Snapshot) /\ dirty' = FALSE
BY DEF TypeOK, Persist

\* What an opening starts from is a snapshot and what it shows.
LEMMA SeedType ==
  ASSUME NEW snapshot \in Snapshot, Seed(snapshot)
  PROVE  held' \in Snapshot /\ shown' \in [Key -> Entry]
BY EntryType DEF Seed, Snapshot, Bytes

\* What handling an answer leaves behind is a task, a flag and snapshots.
LEMMA SettleType ==
  ASSUME TypeOK, NEW t \in Task, NEW answer, NEW moved \in BOOLEAN, held' \in Snapshot,
         Settle(t, answer, moved)
  PROVE  /\ task' \in [Task -> Running]
         /\ dirty' \in BOOLEAN
         /\ saving' \in Seq(Snapshot)
         /\ watching' \in BOOLEAN
<1>0. watching' \in BOOLEAN
  BY DEF TypeOK, Settle, Finish
<1>1. CASE UNCHANGED saving /\ dirty' = (dirty \/ moved)
           /\ task' = [task EXCEPT ![t] = [task[t] EXCEPT !.answers = @ \ {answer}]]
  <2>1. [task[t] EXCEPT !.answers = @ \ {answer}] \in Running
    <3>1. task[t] \in Running
      BY DEF TypeOK
    <3>2. task[t].answers \ {answer} \in SUBSET (Key \X (Bytes \cup {Failed}))
      BY <3>1, FieldsType
    <3>3. [task[t] EXCEPT !.answers = task[t].answers \ {answer}] \in Running
      BY <3>1, <3>2, CarriesType
    <3> QED BY <3>3
  <2> QED BY <1>0, <1>1, <2>1 DEF TypeOK
<1>2. CASE task' = [task EXCEPT ![t] = Idle] /\ Persist(dirty \/ moved)
  <2>1. saving' \in Seq(Snapshot) /\ dirty' = FALSE
    BY <1>2, PersistType DEF TypeOK
  <2> QED BY <1>0, <1>2, <2>1, IdleType DEF TypeOK
<1> QED BY <1>1, <1>2 DEF Settle, Finish


\* Every action keeps every variable in its type.
LEMMA TypeStep ==
  ASSUME TypeOK, Next PROVE TypeOK'
<1>1. ASSUME NEW k \in Key, NEW text \in Text, AgentWrites(k, text)
     PROVE  TypeOK'
  BY <1>1 DEF TypeOK, Snapshot, Bytes, AgentWrites, Remove
<1>2. ASSUME NEW k \in Key, AgentRemoves(k)
     PROVE  TypeOK'
  BY <1>2 DEF TypeOK, Snapshot, Bytes, AgentRemoves, Remove
<1>3. ASSUME NEW t \in Task, WatchRound(t)
     PROVE  TypeOK'
  BY <1>3, IdleType DEF TypeOK, WatchRound, Reported, Moved
<1>4. ASSUME NEW t \in Task, StartRefresh(t)
     PROVE  TypeOK'
  BY <1>4, IdleType DEF TypeOK, StartRefresh, Beside
<1>5. ASSUME NEW t \in Task, NEW k \in Key, StartLoad(t, k)
     PROVE  TypeOK'
  BY <1>5, IdleType DEF TypeOK, StartLoad, Beside
<1>6. ASSUME NEW t \in Task, NEW k \in Key, StartClear(t, k)
     PROVE  TypeOK'
  BY <1>6, IdleType DEF TypeOK, StartClear, Beside
<1>7. ASSUME NEW t \in Task, AnswerListing(t)
     PROVE  TypeOK'
  <2>1. task[t] \in Running /\ Listed \in SUBSET Key
    BY DEF TypeOK, Listed
  <2>2. [task[t] EXCEPT !.stage = "listed", !.listed = Listed] \in Running
    BY <2>1, CarriesType, FieldsType
  <2> DEFINE listing == [task[t] EXCEPT !.stage = "listed", !.listed = Listed]
  <2>3. task' = [task EXCEPT ![t] = listing] /\ listing \in Running
    BY <1>7, <2>2 DEF AnswerListing
  <2> HIDE DEF listing
  <2> QED BY <1>7, <2>3 DEF TypeOK, AnswerListing
<1>8. ASSUME NEW t \in Task, NEW k \in task[t].asked, AnswerRead(t, k)
     PROVE  TypeOK'
  <2> task[t] \in Running
    BY DEF TypeOK
  <2>1. /\ task[t].asked \in SUBSET Key /\ k \in Key
        /\ task[t].answers \in SUBSET (Key \X (Bytes \cup {Failed}))
    BY FieldsType
  <2>2. /\ task[t].asked \ {k} \in SUBSET Key
        /\ (task[t].answers \cup {<<k, stored[k]>>}) \in SUBSET (Key \X (Bytes \cup {Failed}))
    BY <2>1 DEF TypeOK, Snapshot, Bytes
  <2>3. [task[t] EXCEPT !.asked = task[t].asked \ {k}, !.answers = (task[t].answers \cup {<<k, stored[k]>>})] \in Running
    BY <2>2, CarriesType
  <2> DEFINE carried == [task[t] EXCEPT !.asked = task[t].asked \ {k}, !.answers = (task[t].answers \cup {<<k, stored[k]>>})]
  <2>4. task' = [task EXCEPT ![t] = carried] /\ carried \in Running
    BY <1>8, <2>3 DEF AnswerRead
  <2> HIDE DEF carried
  <2> QED BY <1>8, <2>1, <2>4 DEF TypeOK, AnswerRead
<1>9. ASSUME NEW t \in Task, NEW k \in task[t].asked, AnswerClear(t, k)
     PROVE  TypeOK'
  <2> task[t] \in Running
    BY DEF TypeOK
  <2>1. /\ task[t].asked \in SUBSET Key /\ k \in Key
        /\ task[t].answers \in SUBSET (Key \X (Bytes \cup {Failed}))
    BY FieldsType
  <2>2. /\ task[t].asked \ {k} \in SUBSET Key
        /\ (task[t].answers \cup {<<k, Gone>>}) \in SUBSET (Key \X (Bytes \cup {Failed}))
    BY <2>1 DEF TypeOK, Snapshot, Bytes
  <2>3. [task[t] EXCEPT !.asked = task[t].asked \ {k}, !.answers = (task[t].answers \cup {<<k, Gone>>})] \in Running
    BY <2>2, CarriesType
  <2> DEFINE carried == [task[t] EXCEPT !.asked = task[t].asked \ {k}, !.answers = (task[t].answers \cup {<<k, Gone>>})]
  <2>4. task' = [task EXCEPT ![t] = carried] /\ carried \in Running
    BY <1>9, <2>3 DEF AnswerClear
  <2> HIDE DEF carried
  <2> QED BY <1>9, <2>1, <2>4 DEF TypeOK, AnswerClear, Snapshot, Remove, Bytes
<1>10. ASSUME NEW t \in Task, FailListing(t)
     PROVE  TypeOK'
  BY <1>10, IdleType DEF TypeOK, FailListing, Fail
<1>11. ASSUME NEW t \in Task, NEW k \in task[t].asked, FailRead(t, k)
     PROVE  TypeOK'
  <2> task[t] \in Running
    BY DEF TypeOK
  <2>1. /\ task[t].asked \in SUBSET Key /\ k \in Key
        /\ task[t].answers \in SUBSET (Key \X (Bytes \cup {Failed}))
    BY FieldsType
  <2>2. /\ task[t].asked \ {k} \in SUBSET Key
        /\ (task[t].answers \cup {<<k, Failed>>}) \in SUBSET (Key \X (Bytes \cup {Failed}))
    BY <2>1 DEF TypeOK, Snapshot, Bytes
  <2>3. [task[t] EXCEPT !.asked = task[t].asked \ {k}, !.answers = (task[t].answers \cup {<<k, Failed>>})] \in Running
    BY <2>2, CarriesType
  <2> DEFINE carried == [task[t] EXCEPT !.asked = task[t].asked \ {k}, !.answers = (task[t].answers \cup {<<k, Failed>>})]
  <2>4. task' = [task EXCEPT ![t] = carried] /\ carried \in Running
    BY <1>11, <2>3 DEF FailRead
  <2> HIDE DEF carried
  <2> QED BY <1>11, <2>1, <2>4 DEF TypeOK, FailRead, Fail
<1>12. ASSUME NEW t \in Task, NEW k \in task[t].asked, FailClear(t, k)
     PROVE  TypeOK'
  <2>1. stored' \in Snapshot /\ touched' \in [Key -> BOOLEAN]
    BY <1>12 DEF TypeOK, FailClear, Snapshot, Bytes, Remove
  <2> QED BY <1>12, <2>1, IdleType DEF TypeOK, FailClear, Fail
<1>13. ASSUME NEW t \in Task, NEW k \in Key, NEW text \in Text, HandleText(t, k, text)
     PROVE  TypeOK'
  BY <1>13, SettleType, EntryType DEF TypeOK, HandleText, Snapshot, Bytes
<1>14. ASSUME NEW t \in Task, NEW k \in Key, HandleGone(t, k)
     PROVE  TypeOK'
  BY <1>14, SettleType, EntryType DEF TypeOK, HandleGone, Snapshot, Bytes, Marks
<1>15. ASSUME NEW t \in Task, NEW k \in Key, HandleFailure(t, k)
     PROVE  TypeOK'
  BY <1>15, SettleType, EntryType, IdleType DEF TypeOK, HandleFailure
<1>16. ASSUME NEW t \in Task, HandleListing(t)
     PROVE  TypeOK'
  <2>1. shown' \in [Key -> Entry] /\ held' \in Snapshot /\ dirty' \in BOOLEAN
    BY <1>16, EntryType DEF TypeOK, HandleListing, Snapshot, Bytes, Marks
  <2> task[t].kind \in {"open", "refresh"}
    BY <1>16 DEF HandleListing, Refreshing
  <2>2. [Listing(task[t].kind) EXCEPT !.stage = "root"] \in Running
    BY DEF Listing, Idle, Running
  <2>3. Reading(task[t].kind, task[t].listed) \in Running
    <3>1. task[t].listed \in SUBSET Key
      BY FieldsType DEF TypeOK
    <3> QED BY <3>1, IdleType
  <2>4. task' \in [Task -> Running]
    BY <1>16, <2>2, <2>3 DEF TypeOK, HandleListing
  <2> QED BY <1>16, <2>1, <2>4 DEF TypeOK, HandleListing
<1>17. ASSUME NEW t \in Task, HandleRoot(t)
     PROVE  TypeOK'
  <2>1. saving' \in Seq(Snapshot) /\ dirty' = FALSE
    BY <1>17, PersistType DEF TypeOK, HandleRoot, Finish
  <2> QED BY <1>17, <2>1, IdleType DEF TypeOK, HandleRoot, Finish
<1>18. ASSUME NEW t \in Task, Open(t)
     PROVE  TypeOK'
  <2>1. disk \in Snapshot /\ [k \in Key |-> Gone] \in Snapshot
    BY DEF TypeOK, Snapshot, Bytes
  <2>2. held' \in Snapshot /\ shown' \in [Key -> Entry]
    BY <1>18, <2>1, SeedType DEF Open
  <2>3. failures' \in Nat
    BY <1>18 DEF TypeOK, Open, Fail
  <2>4. unsaved' \in BOOLEAN
    BY <1>18 DEF TypeOK, Open
  <2> QED BY <1>18, <2>2, <2>3, <2>4, IdleType DEF TypeOK, Open
<1>19. ASSUME Save
     PROVE  TypeOK'
  BY <1>19, HeadTailProperties DEF TypeOK, Save
<1>20. ASSUME FailSave
     PROVE  TypeOK'
  <2>1. saving' \in Seq(Snapshot)
    BY <1>20, HeadTailProperties DEF TypeOK, FailSave
  <2> QED BY <1>20, <2>1 DEF TypeOK, FailSave, Fail
<1>21. ASSUME Close
     PROVE  TypeOK'
  <2>1. saving' \in Seq(Snapshot)
    BY <1>21 DEF Close
  <2> QED BY <1>21, <2>1, EntryType, IdleType DEF TypeOK, Close, Snapshot, Bytes
<1> QED BY <1>1, <1>2, <1>3, <1>4, <1>5, <1>6, <1>7, <1>8, <1>9, <1>10, <1>11, <1>12, <1>13, <1>14, <1>15, <1>16, <1>17, <1>18, <1>19, <1>20, <1>21 DEF Next, Agent, Ask, Answer, Refuse, Handle
-------------------------------------------------------------------------------
(* What an idle task, a closed page and the snapshot hold.                   *)

\* What a change of a task leaves as it was.
LEMMA Fields ==
  ASSUME NEW r \in Running, NEW asked, NEW answers
  PROVE  /\ LET q == [r EXCEPT !.asked = asked, !.answers = answers] IN
            /\ q.kind = r.kind /\ q.stage = r.stage /\ q.listed = r.listed
            /\ q.asked = asked /\ q.answers = answers
         /\ LET q == [r EXCEPT !.answers = answers] IN
            /\ q.kind = r.kind /\ q.stage = r.stage /\ q.listed = r.listed
            /\ q.asked = r.asked /\ q.answers = answers
         /\ LET q == [r EXCEPT !.stage = "listed", !.listed = asked] IN
            /\ q.kind = r.kind /\ q.stage = "listed" /\ q.listed = asked
            /\ q.asked = r.asked /\ q.answers = r.answers
BY DEF Running

\* A change of one task to a well formed one keeps them all so.
LEMMA WellFormedUpdate ==
  ASSUME TypeOK, WellFormed, NEW t \in Task, NEW r,
         task' = [task EXCEPT ![t] = r],
         r.kind = "idle" => r = Idle,
         r.stage # "reading" => r.kind \in {"open", "refresh"} /\ r.asked = {} /\ r.answers = {}
  PROVE  WellFormed'
BY DEF TypeOK, WellFormed, Busy, Refreshing

\* A task whose answer is handled reads on or is idle.
LEMMA WellFormedSettle ==
  ASSUME TypeOK, WellFormed, NEW t \in Task, NEW answer \in task[t].answers, NEW moved,
         Settle(t, answer, moved)
  PROVE  WellFormed'
<1> DEFINE r == [task[t] EXCEPT !.answers = task[t].answers \ {answer}]
<1> task[t] \in Running
  BY DEF TypeOK
<1>1. r.kind = task[t].kind /\ r.stage = task[t].stage
  BY Fields
<1>2. task[t].kind # "idle" /\ task[t].stage = "reading"
  BY DEF WellFormed, Busy, Idle
<1>3. task' = [task EXCEPT ![t] = Idle] \/ task' = [task EXCEPT ![t] = r]
  BY DEF Settle, Finish
<1> HIDE DEF r
<1> QED BY <1>1, <1>2, <1>3, WellFormedUpdate DEF Idle

\* An idle task carries nothing; what is listing carries no reads.
LEMMA WellFormedStep ==
  ASSUME TypeOK, WellFormed, Next PROVE WellFormed'
<1>1. ASSUME NEW k \in Key, NEW text \in Text, AgentWrites(k, text)
     PROVE  WellFormed'
  BY <1>1 DEF WellFormed, Busy, AgentWrites, Refreshing
<1>2. ASSUME NEW k \in Key, AgentRemoves(k)
     PROVE  WellFormed'
  BY <1>2 DEF WellFormed, Busy, AgentRemoves, Refreshing
<1>3. ASSUME Save
     PROVE  WellFormed'
  BY <1>3 DEF WellFormed, Busy, Save, Refreshing
<1>4. ASSUME FailSave
     PROVE  WellFormed'
  BY <1>4 DEF WellFormed, Busy, FailSave, Refreshing
<1>5. ASSUME NEW t \in Task, WatchRound(t)
     PROVE  WellFormed'
  BY <1>5 DEF TypeOK, WellFormed, Busy, WatchRound, Reading, Listing, Idle, Refreshing
<1>6. ASSUME NEW t \in Task, StartRefresh(t)
     PROVE  WellFormed'
  BY <1>6 DEF TypeOK, WellFormed, Busy, StartRefresh, Reading, Listing, Idle, Refreshing
<1>7. ASSUME NEW t \in Task, NEW k \in Key, StartLoad(t, k)
     PROVE  WellFormed'
  BY <1>7 DEF TypeOK, WellFormed, Busy, StartLoad, Reading, Listing, Idle, Refreshing
<1>8. ASSUME NEW t \in Task, NEW k \in Key, StartClear(t, k)
     PROVE  WellFormed'
  BY <1>8 DEF TypeOK, WellFormed, Busy, StartClear, Reading, Listing, Idle, Refreshing
<1>9. ASSUME NEW t \in Task, Open(t)
     PROVE  WellFormed'
  BY <1>9 DEF TypeOK, WellFormed, Busy, Open, Reading, Listing, Idle, Refreshing
<1>10. ASSUME NEW t \in Task, AnswerListing(t)
     PROVE  WellFormed'
  <2> DEFINE r == [task[t] EXCEPT !.stage = "listed", !.listed = Listed]
  <2> task[t] \in Running
    BY DEF TypeOK
  <2>1. r.kind = task[t].kind /\ r.asked = task[t].asked /\ r.answers = task[t].answers
    BY Fields
  <2>2. /\ task' = [task EXCEPT ![t] = r] /\ Refreshing(t)
        /\ task[t].asked = {} /\ task[t].answers = {}
    BY <1>10 DEF AnswerListing, WellFormed, Refreshing
  <2>3. r.kind # "idle" /\ r.kind \in {"open", "refresh"}
    BY <2>1, <2>2 DEF Refreshing
  <2> HIDE DEF r
  <2> QED BY <2>1, <2>2, <2>3, WellFormedUpdate
<1>11. ASSUME NEW t \in Task, NEW k \in task[t].asked, AnswerRead(t, k)
     PROVE  WellFormed'
  <2> DEFINE r == [task[t] EXCEPT !.asked = task[t].asked \ {k}, !.answers = task[t].answers \cup {<<k, stored[k]>>}]
  <2> task[t] \in Running
    BY DEF TypeOK
  <2>1. r.kind = task[t].kind /\ r.stage = task[t].stage
    BY Fields
  <2>2. task' = [task EXCEPT ![t] = r] /\ task[t].kind # "idle"
    BY <1>11 DEF AnswerRead, WellFormed, Busy, Idle
  <2>3. task[t].stage = "reading"
    BY <1>11 DEF WellFormed
  <2> HIDE DEF r
  <2> QED BY <2>1, <2>2, <2>3, WellFormedUpdate
<1>12. ASSUME NEW t \in Task, NEW k \in task[t].asked, AnswerClear(t, k)
     PROVE  WellFormed'
  <2> DEFINE r == [task[t] EXCEPT !.asked = task[t].asked \ {k}, !.answers = task[t].answers \cup {<<k, Gone>>}]
  <2> task[t] \in Running
    BY DEF TypeOK
  <2>1. r.kind = task[t].kind /\ r.stage = task[t].stage
    BY Fields
  <2>2. task' = [task EXCEPT ![t] = r] /\ task[t].kind # "idle"
    BY <1>12 DEF AnswerClear, WellFormed, Busy, Idle
  <2>3. task[t].stage = "reading"
    BY <1>12 DEF WellFormed
  <2> HIDE DEF r
  <2> QED BY <2>1, <2>2, <2>3, WellFormedUpdate
<1>13. ASSUME NEW t \in Task, NEW k \in task[t].asked, FailRead(t, k)
     PROVE  WellFormed'
  <2> DEFINE r == [task[t] EXCEPT !.asked = task[t].asked \ {k}, !.answers = task[t].answers \cup {<<k, Failed>>}]
  <2> task[t] \in Running
    BY DEF TypeOK
  <2>1. r.kind = task[t].kind /\ r.stage = task[t].stage
    BY Fields
  <2>2. task' = [task EXCEPT ![t] = r] /\ task[t].kind # "idle"
    BY <1>13 DEF FailRead, WellFormed, Busy, Idle
  <2>3. task[t].stage = "reading"
    BY <1>13 DEF WellFormed
  <2> HIDE DEF r
  <2> QED BY <2>1, <2>2, <2>3, WellFormedUpdate
<1>14. ASSUME NEW t \in Task, FailListing(t)
     PROVE  WellFormed'
  BY <1>14 DEF TypeOK, WellFormed, Busy, FailListing, Idle, Refreshing
<1>15. ASSUME NEW t \in Task, NEW k \in task[t].asked, FailClear(t, k)
     PROVE  WellFormed'
  BY <1>15 DEF TypeOK, WellFormed, Busy, FailClear, Idle, Refreshing
<1>16. ASSUME NEW t \in Task, NEW k \in Key, NEW text \in Text, HandleText(t, k, text)
     PROVE  WellFormed'
  BY <1>16, WellFormedSettle DEF HandleText
<1>17. ASSUME NEW t \in Task, NEW k \in Key, HandleGone(t, k)
     PROVE  WellFormed'
  BY <1>17, WellFormedSettle DEF HandleGone
<1>18. ASSUME NEW t \in Task, NEW k \in Key, HandleFailure(t, k)
     PROVE  WellFormed'
  <2>1. CASE task' = [task EXCEPT ![t] = Idle]
    BY <2>1, WellFormedUpdate DEF Idle
  <2> QED BY <1>18, <2>1, WellFormedSettle DEF HandleFailure
<1>19. ASSUME NEW t \in Task, HandleListing(t)
     PROVE  WellFormed'
  BY <1>19 DEF TypeOK, WellFormed, Busy, HandleListing, Reading, Listing, Idle, Refreshing
<1>20. ASSUME NEW t \in Task, HandleRoot(t)
     PROVE  WellFormed'
  BY <1>20 DEF TypeOK, WellFormed, Busy, HandleRoot, Finish, Reading, Listing, Idle, Refreshing
<1>21. ASSUME Close
     PROVE  WellFormed'
  BY <1>21 DEF WellFormed, Busy, Close, Idle
<1> QED BY <1>1, <1>2, <1>3, <1>4, <1>5, <1>6, <1>7, <1>8, <1>9, <1>10, <1>11, <1>12, <1>13, <1>14, <1>15, <1>16, <1>17, <1>18, <1>19, <1>20, <1>21 DEF Next, Agent, Ask, Answer, Refuse, Handle

\* Nothing starts or ends on a page that is not open.
LEMMA ClosedStep ==
  ASSUME TypeOK, WellFormed, Closed, Next PROVE Closed'
<1>1. ASSUME NEW k \in Key, NEW text \in Text, AgentWrites(k, text)
     PROVE  Closed'
  BY <1>1 DEF Closed, AgentWrites
<1>2. ASSUME NEW k \in Key, AgentRemoves(k)
     PROVE  Closed'
  BY <1>2 DEF Closed, AgentRemoves
<1>3. ASSUME NEW t \in Task, WatchRound(t)
     PROVE  Closed'
  BY <1>3 DEF Closed, WatchRound
<1>4. ASSUME NEW t \in Task, StartRefresh(t)
     PROVE  Closed'
  BY <1>4 DEF Closed, StartRefresh
<1>5. ASSUME NEW t \in Task, NEW k \in Key, StartLoad(t, k)
     PROVE  Closed'
  BY <1>5 DEF Closed, StartLoad
<1>6. ASSUME NEW t \in Task, NEW k \in Key, StartClear(t, k)
     PROVE  Closed'
  BY <1>6 DEF Closed, StartClear
<1>7. ASSUME NEW t \in Task, Open(t)
     PROVE  Closed'
  BY <1>7 DEF Closed, Open
<1>8. ASSUME NEW t \in Task, AnswerListing(t)
     PROVE  Closed'
  BY <1>8 DEF Closed, AnswerListing, Idle
<1>9. ASSUME NEW t \in Task, NEW k \in task[t].asked, AnswerRead(t, k)
     PROVE  Closed'
  BY <1>9 DEF Closed, AnswerRead, Idle
<1>10. ASSUME NEW t \in Task, NEW k \in task[t].asked, AnswerClear(t, k)
     PROVE  Closed'
  BY <1>10 DEF Closed, AnswerClear, Idle
<1>11. ASSUME NEW t \in Task, FailListing(t)
     PROVE  Closed'
  BY <1>11 DEF Closed, FailListing, Idle
<1>12. ASSUME NEW t \in Task, NEW k \in task[t].asked, FailRead(t, k)
     PROVE  Closed'
  BY <1>12 DEF Closed, FailRead, Idle
<1>13. ASSUME NEW t \in Task, NEW k \in task[t].asked, FailClear(t, k)
     PROVE  Closed'
  BY <1>13 DEF Closed, FailClear, Idle
<1>14. ASSUME NEW t \in Task, NEW k \in Key, NEW text \in Text, HandleText(t, k, text)
     PROVE  Closed'
  BY <1>14 DEF Closed, HandleText, Idle
<1>15. ASSUME NEW t \in Task, NEW k \in Key, HandleGone(t, k)
     PROVE  Closed'
  BY <1>15 DEF Closed, HandleGone, Idle
<1>16. ASSUME NEW t \in Task, NEW k \in Key, HandleFailure(t, k)
     PROVE  Closed'
  BY <1>16 DEF Closed, HandleFailure, Idle
<1>17. ASSUME NEW t \in Task, HandleListing(t)
     PROVE  Closed'
  BY <1>17 DEF Closed, HandleListing, Idle
<1>18. ASSUME NEW t \in Task, HandleRoot(t)
     PROVE  Closed'
  BY <1>18 DEF Closed, HandleRoot, Finish, Idle
<1>19. ASSUME Save
     PROVE  Closed'
  BY <1>19 DEF Closed, Save
<1>20. ASSUME FailSave
     PROVE  Closed'
  BY <1>20 DEF Closed, FailSave
<1>21. ASSUME Close
     PROVE  Closed'
  BY <1>21 DEF Closed, Close
<1> QED BY <1>1, <1>2, <1>3, <1>4, <1>5, <1>6, <1>7, <1>8, <1>9, <1>10, <1>11, <1>12, <1>13, <1>14, <1>15, <1>16, <1>17, <1>18, <1>19, <1>20, <1>21 DEF Next, Agent, Ask, Answer, Refuse, Handle

\* The snapshot and the projection change together.
LEMMA HeldStep ==
  ASSUME TypeOK, HeldMatchesShown, Next PROVE HeldMatchesShown'
<1>1. ASSUME NEW k \in Key, NEW text \in Text, AgentWrites(k, text)
     PROVE  HeldMatchesShown'
  BY <1>1 DEF HeldMatchesShown, AgentWrites
<1>2. ASSUME NEW k \in Key, AgentRemoves(k)
     PROVE  HeldMatchesShown'
  BY <1>2 DEF HeldMatchesShown, AgentRemoves
<1>3. ASSUME NEW t \in Task, WatchRound(t)
     PROVE  HeldMatchesShown'
  BY <1>3 DEF HeldMatchesShown, WatchRound
<1>4. ASSUME NEW t \in Task, StartRefresh(t)
     PROVE  HeldMatchesShown'
  BY <1>4 DEF HeldMatchesShown, StartRefresh
<1>5. ASSUME NEW t \in Task, NEW k \in Key, StartLoad(t, k)
     PROVE  HeldMatchesShown'
  BY <1>5 DEF HeldMatchesShown, StartLoad
<1>6. ASSUME NEW t \in Task, NEW k \in Key, StartClear(t, k)
     PROVE  HeldMatchesShown'
  BY <1>6 DEF HeldMatchesShown, StartClear
<1>7. ASSUME NEW t \in Task, AnswerListing(t)
     PROVE  HeldMatchesShown'
  BY <1>7 DEF HeldMatchesShown, AnswerListing
<1>8. ASSUME NEW t \in Task, NEW k \in task[t].asked, AnswerRead(t, k)
     PROVE  HeldMatchesShown'
  BY <1>8 DEF HeldMatchesShown, AnswerRead
<1>9. ASSUME NEW t \in Task, NEW k \in task[t].asked, AnswerClear(t, k)
     PROVE  HeldMatchesShown'
  BY <1>9 DEF HeldMatchesShown, AnswerClear
<1>10. ASSUME NEW t \in Task, FailListing(t)
     PROVE  HeldMatchesShown'
  BY <1>10 DEF HeldMatchesShown, FailListing
<1>11. ASSUME NEW t \in Task, NEW k \in task[t].asked, FailRead(t, k)
     PROVE  HeldMatchesShown'
  BY <1>11 DEF HeldMatchesShown, FailRead
<1>12. ASSUME NEW t \in Task, NEW k \in task[t].asked, FailClear(t, k)
     PROVE  HeldMatchesShown'
  BY <1>12 DEF HeldMatchesShown, FailClear
<1>13. ASSUME NEW t \in Task, HandleRoot(t)
     PROVE  HeldMatchesShown'
  BY <1>13 DEF HeldMatchesShown, HandleRoot, Finish
<1>14. ASSUME Save
     PROVE  HeldMatchesShown'
  BY <1>14 DEF HeldMatchesShown, Save
<1>15. ASSUME FailSave
     PROVE  HeldMatchesShown'
  BY <1>15 DEF HeldMatchesShown, FailSave
<1>16. ASSUME NEW t \in Task, NEW k \in Key, NEW text \in Text, HandleText(t, k, text)
     PROVE  HeldMatchesShown'
  BY <1>16 DEF TypeOK, Snapshot, HeldMatchesShown, HandleText, Recorded
<1>17. ASSUME NEW t \in Task, NEW k \in Key, HandleGone(t, k)
     PROVE  HeldMatchesShown'
  BY <1>17 DEF TypeOK, Snapshot, HeldMatchesShown, HandleGone, Absent
<1>18. ASSUME NEW t \in Task, NEW k \in Key, HandleFailure(t, k)
     PROVE  HeldMatchesShown'
  BY <1>18 DEF TypeOK, Snapshot, HeldMatchesShown, HandleFailure, Unread
<1>19. ASSUME NEW t \in Task, HandleListing(t)
     PROVE  HeldMatchesShown'
  BY <1>19 DEF TypeOK, Snapshot, HeldMatchesShown, HandleListing, Absent
<1>20. ASSUME Close
     PROVE  HeldMatchesShown'
  BY <1>20 DEF TypeOK, Snapshot, HeldMatchesShown, Close, Absent
<1>21. ASSUME NEW t \in Task, Open(t)
     PROVE  HeldMatchesShown'
  BY <1>21, TextAssumption DEF TypeOK, Snapshot, Bytes, HeldMatchesShown, Open, Seed, Recorded, Absent
<1> QED BY <1>1, <1>2, <1>3, <1>4, <1>5, <1>6, <1>7, <1>8, <1>9, <1>10, <1>11, <1>12, <1>13, <1>14, <1>15, <1>16, <1>17, <1>18, <1>19, <1>20, <1>21 DEF Next, Agent, Ask, Answer, Refuse, Handle

\* Handling an answer either hands the snapshot over or leaves it owed.
LEMMA KeptSettle ==
  ASSUME TypeOK, SnapshotKept, NEW t \in Task, NEW answer, NEW moved \in BOOLEAN,
         held' \in Snapshot, ~moved => held' = held, Settle(t, answer, moved),
         UNCHANGED <<up, disk, unsaved>>
  PROVE  SnapshotKept'
<1>1. CASE Persist(dirty \/ moved)
  <2>1. CASE dirty \/ moved
    <3>1. saving' = Append(saving, held')
      BY <1>1, <2>1 DEF Persist
    <3>2. saving' # <<>> /\ saving'[Len(saving')] = held'
      BY <3>1 DEF TypeOK
    <3> QED BY <3>2 DEF SnapshotKept, Newest
  <2>2. CASE ~dirty /\ ~moved
    BY <1>1, <2>2 DEF TypeOK, Persist, SnapshotKept, Newest
  <2> QED BY <2>1, <2>2 DEF TypeOK
<1>2. CASE UNCHANGED saving /\ dirty' = (dirty \/ moved)
  BY <1>2 DEF SnapshotKept, Newest
<1> QED BY <1>1, <1>2 DEF Settle, Finish

\* The newest snapshot given to the database is what is held, unless one is owed.
LEMMA KeptStep ==
  ASSUME TypeOK, Closed, SnapshotKept, Next PROVE SnapshotKept'
<1>1. ASSUME NEW k \in Key, NEW text \in Text, AgentWrites(k, text)
     PROVE  SnapshotKept'
  BY <1>1 DEF SnapshotKept, Newest, AgentWrites
<1>2. ASSUME NEW k \in Key, AgentRemoves(k)
     PROVE  SnapshotKept'
  BY <1>2 DEF SnapshotKept, Newest, AgentRemoves
<1>3. ASSUME NEW t \in Task, WatchRound(t)
     PROVE  SnapshotKept'
  BY <1>3 DEF SnapshotKept, Newest, WatchRound
<1>4. ASSUME NEW t \in Task, StartRefresh(t)
     PROVE  SnapshotKept'
  BY <1>4 DEF SnapshotKept, Newest, StartRefresh
<1>5. ASSUME NEW t \in Task, NEW k \in Key, StartLoad(t, k)
     PROVE  SnapshotKept'
  BY <1>5 DEF SnapshotKept, Newest, StartLoad
<1>6. ASSUME NEW t \in Task, NEW k \in Key, StartClear(t, k)
     PROVE  SnapshotKept'
  BY <1>6 DEF SnapshotKept, Newest, StartClear
<1>7. ASSUME NEW t \in Task, AnswerListing(t)
     PROVE  SnapshotKept'
  BY <1>7 DEF SnapshotKept, Newest, AnswerListing
<1>8. ASSUME NEW t \in Task, NEW k \in task[t].asked, AnswerRead(t, k)
     PROVE  SnapshotKept'
  BY <1>8 DEF SnapshotKept, Newest, AnswerRead
<1>9. ASSUME NEW t \in Task, NEW k \in task[t].asked, AnswerClear(t, k)
     PROVE  SnapshotKept'
  BY <1>9 DEF SnapshotKept, Newest, AnswerClear
<1>10. ASSUME NEW t \in Task, FailListing(t)
     PROVE  SnapshotKept'
  BY <1>10 DEF SnapshotKept, Newest, FailListing
<1>11. ASSUME NEW t \in Task, NEW k \in task[t].asked, FailRead(t, k)
     PROVE  SnapshotKept'
  BY <1>11 DEF SnapshotKept, Newest, FailRead
<1>12. ASSUME NEW t \in Task, NEW k \in task[t].asked, FailClear(t, k)
     PROVE  SnapshotKept'
  BY <1>12 DEF SnapshotKept, Newest, FailClear
<1>13. ASSUME Close
     PROVE  SnapshotKept'
  BY <1>13 DEF SnapshotKept, Newest, Close
<1>14. ASSUME NEW t \in Task, NEW k \in Key, NEW text \in Text, HandleText(t, k, text)
     PROVE  SnapshotKept'
  <2>1. held' \in Snapshot /\ (held[k] = text => held' = held)
    BY <1>14 DEF TypeOK, Snapshot, Bytes, HandleText
  <2> QED BY <1>14, <2>1, KeptSettle DEF HandleText
<1>15. ASSUME NEW t \in Task, NEW k \in Key, HandleGone(t, k)
     PROVE  SnapshotKept'
  <2>1. held' \in Snapshot /\ (~Marks({k}) => held' = held) /\ Marks({k}) \in BOOLEAN
    BY <1>15 DEF TypeOK, Snapshot, Bytes, HandleGone, Marks
  <2> QED BY <1>15, <2>1, KeptSettle DEF HandleGone
<1>16. ASSUME NEW t \in Task, NEW k \in Key, HandleFailure(t, k)
     PROVE  SnapshotKept'
  <2>1. CASE UNCHANGED <<dirty, saving>>
    BY <1>16, <2>1 DEF SnapshotKept, Newest, HandleFailure
  <2>2. CASE Settle(t, <<k, Failed>>, FALSE)
    BY <1>16, <2>2, KeptSettle DEF TypeOK, HandleFailure
  <2> QED BY <1>16, <2>1, <2>2 DEF HandleFailure
<1>17. ASSUME NEW t \in Task, HandleListing(t)
     PROVE  SnapshotKept'
  <2>1. ~Marks(Cleared(t)) => held' = held
    BY <1>17 DEF TypeOK, Snapshot, HandleListing, Marks
  <2> QED BY <1>17, <2>1 DEF SnapshotKept, Newest, HandleListing
<1>18. ASSUME NEW t \in Task, HandleRoot(t)
     PROVE  SnapshotKept'
  <2>1. CASE dirty
    <3>1. saving' = Append(saving, held')
      BY <1>18, <2>1 DEF HandleRoot, Finish, Persist
    <3>2. saving' # <<>> /\ saving'[Len(saving')] = held'
      BY <1>18, <3>1 DEF TypeOK, HandleRoot, Finish
    <3> QED BY <3>2 DEF SnapshotKept, Newest
  <2>2. CASE ~dirty
    BY <1>18, <2>2 DEF SnapshotKept, Newest, HandleRoot, Finish, Persist
  <2> QED BY <2>1, <2>2
<1>19. ASSUME NEW t \in Task, Open(t)
     PROVE  SnapshotKept'
  BY <1>19 DEF SnapshotKept, Newest, Closed, Open, Seed
<1>20. ASSUME Save
     PROVE  SnapshotKept'
  <2>1. CASE Tail(saving) = <<>>
    <3>1. Len(saving) = 1
      <4>1. saving \in Seq(Snapshot) /\ saving # <<>>
        BY <1>20 DEF TypeOK, Save
      <4>2. Len(Tail(saving)) = Len(saving) - 1 /\ Len(Tail(saving)) = 0
        BY <2>1, <4>1, HeadTailProperties
      <4>3. Len(saving) \in Nat
        BY <4>1
      <4> QED BY <4>2, <4>3
    <3>2. Head(saving) = saving[Len(saving)]
      BY <3>1 DEF TypeOK
    <3> QED BY <1>20, <2>1, <3>2 DEF SnapshotKept, Newest, Save
  <2>2. CASE Tail(saving) # <<>>
    <3>1. Tail(saving)[Len(Tail(saving))] = saving[Len(saving)]
      BY <1>20, <2>2 DEF TypeOK, Save
    <3> QED BY <1>20, <2>2, <3>1 DEF SnapshotKept, Newest, Save
  <2> QED BY <2>1, <2>2
<1>21. ASSUME FailSave
     PROVE  SnapshotKept'
  BY <1>21 DEF SnapshotKept, FailSave
<1> QED BY <1>1, <1>2, <1>3, <1>4, <1>5, <1>6, <1>7, <1>8, <1>9, <1>10, <1>11, <1>12, <1>13, <1>14, <1>15, <1>16, <1>17, <1>18, <1>19, <1>20, <1>21 DEF Next, Agent, Ask, Answer, Refuse, Handle
-------------------------------------------------------------------------------
(* Nothing under way and nothing to report means nothing out of date.        *)

\* Every task but t is as it was, and t no busier than it was.
LEMMA OneTaskUpdate ==
  ASSUME TypeOK, OneTask, NEW t \in Task, NEW r,
         task' = [task EXCEPT ![t] = r], r.kind # "idle" => Busy(t),
         muddled => muddled'
  PROVE  OneTask'
BY DEF TypeOK, OneTask, Busy

\* A task that begins beside another muddles.
LEMMA OneTaskStart ==
  ASSUME TypeOK, NEW t \in Task, NEW r, task' = [task EXCEPT ![t] = r],
         Beside(t) => muddled'
  PROVE  OneTask'
BY DEF TypeOK, OneTask, Busy, Beside

\* Handling an answer begins none.
LEMMA OneTaskSettle ==
  ASSUME TypeOK, OneTask, NEW t \in Task, NEW answer, NEW moved,
         Settle(t, answer, moved), UNCHANGED muddled
  PROVE  OneTask'
<1> DEFINE r == [task[t] EXCEPT !.answers = task[t].answers \ {answer}]
<1> task[t] \in Running
  BY DEF TypeOK
<1>1. r.kind = task[t].kind
  BY Fields
<1>2. task' = [task EXCEPT ![t] = Idle] \/ task' = [task EXCEPT ![t] = r]
  BY DEF Settle, Finish
<1> HIDE DEF r
<1> QED BY <1>1, <1>2, OneTaskUpdate DEF Busy, Idle

\* A second task makes the page muddled, and only a lone refresh ends that.
LEMMA OneTaskStep ==
  ASSUME TypeOK, WellFormed, Closed, OneTask, Next PROVE OneTask'
<1>1. ASSUME NEW k \in Key, NEW text \in Text, AgentWrites(k, text)
     PROVE  OneTask'
  BY <1>1 DEF OneTask, Busy, AgentWrites
<1>2. ASSUME NEW k \in Key, AgentRemoves(k)
     PROVE  OneTask'
  BY <1>2 DEF OneTask, Busy, AgentRemoves
<1>3. ASSUME Save
     PROVE  OneTask'
  BY <1>3 DEF OneTask, Busy, Save
<1>4. ASSUME FailSave
     PROVE  OneTask'
  BY <1>4 DEF OneTask, Busy, FailSave
<1>5. ASSUME NEW t \in Task, WatchRound(t)
     PROVE  OneTask'
  BY <1>5, OneTaskStart DEF WatchRound
<1>6. ASSUME NEW t \in Task, StartRefresh(t)
     PROVE  OneTask'
  BY <1>6, OneTaskStart DEF StartRefresh
<1>7. ASSUME NEW t \in Task, NEW k \in Key, StartLoad(t, k)
     PROVE  OneTask'
  BY <1>7, OneTaskStart DEF StartLoad
<1>8. ASSUME NEW t \in Task, NEW k \in Key, StartClear(t, k)
     PROVE  OneTask'
  BY <1>8, OneTaskStart DEF StartClear
<1>9. ASSUME NEW t \in Task, AnswerListing(t)
     PROVE  OneTask'
  <2> DEFINE r == [task[t] EXCEPT !.stage = "listed", !.listed = Listed]
  <2> task[t] \in Running
    BY DEF TypeOK
  <2>1. r.kind = task[t].kind
    BY Fields
  <2>2. task' = [task EXCEPT ![t] = r] /\ (muddled => muddled')
    BY <1>9 DEF AnswerListing
  <2> HIDE DEF r
  <2> QED BY <2>1, <2>2, OneTaskUpdate DEF Busy
<1>10. ASSUME NEW t \in Task, NEW k \in task[t].asked, AnswerRead(t, k)
     PROVE  OneTask'
  <2> DEFINE r == [task[t] EXCEPT !.asked = task[t].asked \ {k}, !.answers = task[t].answers \cup {<<k, stored[k]>>}]
  <2> task[t] \in Running
    BY DEF TypeOK
  <2>1. r.kind = task[t].kind
    BY Fields
  <2>2. task' = [task EXCEPT ![t] = r] /\ (muddled => muddled')
    BY <1>10 DEF AnswerRead
  <2> HIDE DEF r
  <2> QED BY <2>1, <2>2, OneTaskUpdate DEF Busy
<1>11. ASSUME NEW t \in Task, NEW k \in task[t].asked, AnswerClear(t, k)
     PROVE  OneTask'
  <2> DEFINE r == [task[t] EXCEPT !.asked = task[t].asked \ {k}, !.answers = task[t].answers \cup {<<k, Gone>>}]
  <2> task[t] \in Running
    BY DEF TypeOK
  <2>1. r.kind = task[t].kind
    BY Fields
  <2>2. task' = [task EXCEPT ![t] = r] /\ (muddled => muddled')
    BY <1>11 DEF AnswerClear
  <2> HIDE DEF r
  <2> QED BY <2>1, <2>2, OneTaskUpdate DEF Busy
<1>12. ASSUME NEW t \in Task, FailListing(t)
     PROVE  OneTask'
  BY <1>12 DEF OneTask, FailListing
<1>13. ASSUME NEW t \in Task, NEW k \in task[t].asked, FailRead(t, k)
     PROVE  OneTask'
  BY <1>13 DEF OneTask, FailRead
<1>14. ASSUME NEW t \in Task, NEW k \in task[t].asked, FailClear(t, k)
     PROVE  OneTask'
  BY <1>14 DEF OneTask, FailClear
<1>15. ASSUME NEW t \in Task, NEW k \in Key, NEW text \in Text, HandleText(t, k, text)
     PROVE  OneTask'
  BY <1>15, OneTaskSettle DEF HandleText
<1>16. ASSUME NEW t \in Task, NEW k \in Key, HandleGone(t, k)
     PROVE  OneTask'
  BY <1>16, OneTaskSettle DEF HandleGone
<1>17. ASSUME NEW t \in Task, NEW k \in Key, HandleFailure(t, k)
     PROVE  OneTask'
  <2>1. CASE task' = [task EXCEPT ![t] = Idle]
    BY <1>17, <2>1, OneTaskUpdate DEF HandleFailure, Idle
  <2> QED BY <1>17, <2>1, OneTaskSettle DEF HandleFailure
<1>18. ASSUME NEW t \in Task, HandleListing(t)
     PROVE  OneTask'
  <2>1. Busy(t)
    BY <1>18 DEF HandleListing, Busy, Refreshing
  <2> QED BY <1>18, <2>1, OneTaskUpdate DEF HandleListing, Refreshing
<1>19. ASSUME NEW t \in Task, HandleRoot(t)
     PROVE  OneTask'
  BY <1>19, OneTaskUpdate DEF HandleRoot, Finish, Idle
<1>20. ASSUME NEW t \in Task, Open(t)
     PROVE  OneTask'
  <2>1. ~Beside(t)
    BY <1>20 DEF Open, Closed, Beside, Idle
  <2> QED BY <1>20, <2>1, OneTaskStart DEF Open
<1>21. ASSUME Close
     PROVE  OneTask'
  BY <1>21 DEF OneTask, Busy, Close, Idle
<1> QED BY <1>1, <1>2, <1>3, <1>4, <1>5, <1>6, <1>7, <1>8, <1>9, <1>10, <1>11, <1>12, <1>13, <1>14, <1>15, <1>16, <1>17, <1>18, <1>19, <1>20, <1>21 DEF Next, Agent, Ask, Answer, Refuse, Handle
\* Unless the watch has it to report, a draft is stored as it was.
Steady == \A k \in Key : k \in Moved' \/ (stored'[k] = stored[k] /\ k \notin Moved)

\* What touches neither the files nor the listing moves nothing.
LEMMA SteadyStored ==
  ASSUME UNCHANGED <<stored, seen, touched>>
  PROVE  Steady
BY DEF Steady, Moved

\* A removal is noticed, or the page is muddled by it.
LEMMA SteadyRemove ==
  ASSUME TypeOK, NEW j \in Key, Remove(j), UNCHANGED seen, ~(stored[j] # Gone /\ ~seen[j])
  PROVE  Steady
BY DEF TypeOK, Snapshot, Remove, Steady, Moved

\* A file that is written moves, and is told at the next round.
LEMMA SteadyWrite ==
  ASSUME TypeOK, NEW j \in Key, NEW text \in Text, AgentWrites(j, text)
  PROVE  Steady
BY TextAssumption DEF TypeOK, Snapshot, AgentWrites, Steady, Moved

\* What a task was told stays so, if whatever it is told now is so.
LEMMA TimelyKeep ==
  ASSUME TypeOK, Timely, Steady, up' => up, muddled => muddled',
         \A u \in Task, j \in Key, c \in Bytes \cup {Failed} :
           <<j, c>> \in task'[u].answers =>
             <<j, c>> \in task[u].answers \/ (c = stored'[j] /\ c # Failed),
         \A u \in Task, j \in Key :
           task'[u].stage = "listed" /\ j \notin task'[u].listed =>
             (task[u].stage = "listed" /\ j \notin task[u].listed) \/ stored'[j] = Gone
  PROVE  Timely'
<1> SUFFICES ASSUME up', ~muddled', NEW u \in Task, NEW j \in Key
             PROVE  /\ \A c \in Bytes \cup {Failed} :
                         <<j, c>> \in task'[u].answers =>
                           c # Failed /\ (c = stored'[j] \/ j \in Moved')
                    /\ task'[u].stage = "listed" /\ j \notin task'[u].listed =>
                         stored'[j] = Gone \/ j \in Moved'
  BY DEF Timely
<1>1. j \in Moved' \/ (stored'[j] = stored[j] /\ j \notin Moved)
  BY DEF Steady
<1>2. /\ \A c \in Bytes \cup {Failed} :
           <<j, c>> \in task[u].answers => c # Failed /\ (c = stored[j] \/ j \in Moved)
      /\ task[u].stage = "listed" /\ j \notin task[u].listed =>
           stored[j] = Gone \/ j \in Moved
  BY DEF Timely
<1> QED BY <1>1, <1>2

\* A task that begins alone was told nothing.
LEMMA TimelyFresh ==
  ASSUME TypeOK, WellFormed, NEW t \in Task, NEW r, task' = [task EXCEPT ![t] = r],
         Beside(t) => muddled', r.answers = {}, r.stage # "listed"
  PROVE  Timely'
<1> SUFFICES ASSUME ~muddled', NEW u \in Task
             PROVE  task'[u].answers = {} /\ task'[u].stage # "listed"
  BY DEF Timely
<1>1. CASE u = t
  BY <1>1 DEF TypeOK
<1>2. CASE u # t
  BY <1>2 DEF TypeOK, Beside, WellFormed, Busy, Idle
<1> QED BY <1>1, <1>2

\* What is left to handle stays as true as it was.
LEMMA TimelySettle ==
  ASSUME TypeOK, Timely, NEW t \in Task, NEW answer, NEW moved,
         Settle(t, answer, moved), UNCHANGED <<stored, seen, touched, up, muddled>>
  PROVE  Timely'
<1> DEFINE r == [task[t] EXCEPT !.answers = task[t].answers \ {answer}]
<1> task[t] \in Running
  BY DEF TypeOK
<1>1. r.answers \subseteq task[t].answers /\ r.stage = task[t].stage /\ r.listed = task[t].listed
  BY Fields
<1>2. task' = [task EXCEPT ![t] = Idle] \/ task' = [task EXCEPT ![t] = r]
  BY DEF Settle, Finish
<1> HIDE DEF r
<1>3. Idle.answers = {} /\ Idle.stage = "reading"
  BY DEF Idle
<1>4. \A u \in Task : /\ task'[u].answers \subseteq task[u].answers
                      /\ task'[u].stage = "listed" =>
                           task[u].stage = "listed" /\ task'[u].listed = task[u].listed
  BY <1>1, <1>2, <1>3 DEF TypeOK
<1> QED BY <1>4, SteadyStored, TimelyKeep

\* What a task was told is so, or the watch has it to report.
LEMMA TimelyStep ==
  ASSUME TypeOK, WellFormed, Closed, Timely, Next PROVE Timely'
<1>1. ASSUME NEW k \in Key, NEW text \in Text, AgentWrites(k, text)
     PROVE  Timely'
  BY <1>1, SteadyWrite, TimelyKeep DEF AgentWrites
<1>2. ASSUME NEW k \in Key, AgentRemoves(k)
     PROVE  Timely'
  <2>1. CASE muddled' \/ ~up'
    BY <2>1 DEF Timely
  <2>2. CASE ~muddled' /\ up'
    <3>1. Steady
      BY <1>2, <2>2, SteadyRemove DEF AgentRemoves, Unnoticed
    <3> QED BY <1>2, <2>2, <3>1, TimelyKeep DEF AgentRemoves
  <2> QED BY <2>1, <2>2
<1>3. ASSUME NEW t \in Task, WatchRound(t)
     PROVE  Timely'
  <2>1. \A keys : /\ Reading("watch", keys).answers = {} /\ Reading("watch", keys).stage = "reading"
                /\ Idle.answers = {} /\ Idle.stage = "reading"
    BY DEF Reading, Idle
  <2> QED BY <1>3, <2>1, TimelyFresh DEF WatchRound
<1>4. ASSUME NEW t \in Task, StartRefresh(t)
     PROVE  Timely'
  <2>1. Listing("refresh").answers = {} /\ Listing("refresh").stage = "listing"
    BY DEF Listing, Idle
  <2> QED BY <1>4, <2>1, TimelyFresh DEF StartRefresh
<1>5. ASSUME NEW t \in Task, NEW k \in Key, StartLoad(t, k)
     PROVE  Timely'
  <2>1. Reading("load", {k}).answers = {} /\ Reading("load", {k}).stage = "reading"
    BY DEF Reading, Idle
  <2> QED BY <1>5, <2>1, TimelyFresh DEF StartLoad
<1>6. ASSUME NEW t \in Task, NEW k \in Key, StartClear(t, k)
     PROVE  Timely'
  <2>1. Reading("clear", {k}).answers = {} /\ Reading("clear", {k}).stage = "reading"
    BY DEF Reading, Idle
  <2> QED BY <1>6, <2>1, TimelyFresh DEF StartClear
<1>7. ASSUME NEW t \in Task, AnswerListing(t)
     PROVE  Timely'
  <2> DEFINE r == [task[t] EXCEPT !.stage = "listed", !.listed = Listed]
  <2> task[t] \in Running
    BY DEF TypeOK
  <2>1. r.answers = task[t].answers /\ r.listed = Listed
    BY Fields
  <2>2. /\ task' = [task EXCEPT ![t] = r]
        /\ UNCHANGED <<stored, seen, touched, up, muddled>>
    BY <1>7 DEF AnswerListing
  <2> HIDE DEF r
  <2>3. \A j \in Key : j \notin r.listed => stored'[j] = Gone
    BY <2>1, <2>2 DEF Listed
  <2> QED BY <2>1, <2>2, <2>3, SteadyStored, TimelyKeep DEF TypeOK
<1>8. ASSUME NEW t \in Task, NEW k \in task[t].asked, AnswerRead(t, k)
     PROVE  Timely'
  <2> DEFINE r == [task[t] EXCEPT !.asked = task[t].asked \ {k}, !.answers = task[t].answers \cup {<<k, stored[k]>>}]
  <2> task[t] \in Running
    BY DEF TypeOK
  <2>1. k \in Key
    BY FieldsType
  <2>2. /\ r.answers = task[t].answers \cup {<<k, stored[k]>>}
        /\ r.stage = task[t].stage /\ r.listed = task[t].listed
    BY Fields
  <2>3. task' = [task EXCEPT ![t] = r] /\ UNCHANGED up /\ (muddled => muddled')
    BY <1>8 DEF AnswerRead
  <2> HIDE DEF r
  <2>4. stored'[k] = stored[k] /\ stored[k] # Failed
    BY <1>8, <2>1, TextAssumption DEF AnswerRead, Remove, TypeOK, Snapshot, Bytes
  <2>5. CASE ~muddled'
    <3>1. Steady
      BY <1>8, SteadyStored DEF AnswerRead
    <3> QED BY <2>1, <2>2, <2>3, <2>4, <3>1, TimelyKeep DEF TypeOK
  <2>6. CASE muddled'
    BY <2>6 DEF Timely
  <2> QED BY <2>5, <2>6
<1>9. ASSUME NEW t \in Task, NEW k \in task[t].asked, AnswerClear(t, k)
     PROVE  Timely'
  <2> DEFINE r == [task[t] EXCEPT !.asked = task[t].asked \ {k}, !.answers = task[t].answers \cup {<<k, Gone>>}]
  <2> task[t] \in Running
    BY DEF TypeOK
  <2>1. k \in Key
    BY FieldsType
  <2>2. /\ r.answers = task[t].answers \cup {<<k, Gone>>}
        /\ r.stage = task[t].stage /\ r.listed = task[t].listed
    BY Fields
  <2>3. task' = [task EXCEPT ![t] = r] /\ UNCHANGED up /\ (muddled => muddled')
    BY <1>9 DEF AnswerClear
  <2> HIDE DEF r
  <2>4. stored'[k] = Gone /\ Gone # Failed
    BY <1>9, <2>1, TextAssumption DEF AnswerClear, Remove, TypeOK, Snapshot, Bytes
  <2>5. CASE ~muddled'
    <3>1. Steady
      BY <1>9, <2>1, <2>5, SteadyRemove DEF AnswerClear, Unnoticed, Closed, Idle, TypeOK
    <3> QED BY <2>1, <2>2, <2>3, <2>4, <3>1, TimelyKeep DEF TypeOK
  <2>6. CASE muddled'
    BY <2>6 DEF Timely
  <2> QED BY <2>5, <2>6
<1>10. ASSUME NEW t \in Task, FailListing(t)
     PROVE  Timely'
  BY <1>10 DEF Timely, FailListing
<1>11. ASSUME NEW t \in Task, NEW k \in task[t].asked, FailRead(t, k)
     PROVE  Timely'
  BY <1>11 DEF Timely, FailRead
<1>12. ASSUME NEW t \in Task, NEW k \in task[t].asked, FailClear(t, k)
     PROVE  Timely'
  BY <1>12 DEF Timely, FailClear
<1>13. ASSUME NEW t \in Task, NEW k \in Key, NEW text \in Text, HandleText(t, k, text)
     PROVE  Timely'
  BY <1>13, TimelySettle DEF HandleText
<1>14. ASSUME NEW t \in Task, NEW k \in Key, HandleGone(t, k)
     PROVE  Timely'
  BY <1>14, TimelySettle DEF HandleGone
<1>15. ASSUME NEW t \in Task, NEW k \in Key, HandleFailure(t, k)
     PROVE  Timely'
  <2>1. CASE task' = [task EXCEPT ![t] = Idle]
    <3>1. Idle.answers = {} /\ Idle.stage = "reading"
      BY DEF Idle
    <3> QED BY <1>15, <2>1, <3>1, SteadyStored, TimelyKeep DEF HandleFailure, TypeOK
  <2> QED BY <1>15, <2>1, TimelySettle DEF HandleFailure
<1>16. ASSUME NEW t \in Task, HandleListing(t)
     PROVE  Timely'
  <2> DEFINE r == IF task[t].listed = {} THEN [Listing(task[t].kind) EXCEPT !.stage = "root"]
                                       ELSE Reading(task[t].kind, task[t].listed)
  <2>1. r.answers = {} /\ r.stage # "listed"
    BY DEF Listing, Reading, Idle
  <2>2. task' = [task EXCEPT ![t] = r] /\ UNCHANGED <<stored, seen, touched, up, muddled>>
    BY <1>16 DEF HandleListing
  <2> HIDE DEF r
  <2> QED BY <2>1, <2>2, SteadyStored, TimelyKeep DEF TypeOK
<1>17. ASSUME NEW t \in Task, HandleRoot(t)
     PROVE  Timely'
  <2>1. Idle.answers = {} /\ Idle.stage = "reading"
    BY DEF Idle
  <2> QED BY <1>17, <2>1, SteadyStored, TimelyKeep DEF HandleRoot, Finish, TypeOK
<1>18. ASSUME NEW t \in Task, Open(t)
     PROVE  Timely'
  <2>1. Listing("open").answers = {} /\ Listing("open").stage = "listing" /\ ~Beside(t)
    BY <1>18 DEF Listing, Idle, Beside, Closed, Open
  <2> QED BY <1>18, <2>1, TimelyFresh DEF Open
<1>19. ASSUME Save
     PROVE  Timely'
  BY <1>19, SteadyStored, TimelyKeep DEF Save
<1>20. ASSUME FailSave
     PROVE  Timely'
  BY <1>20, SteadyStored, TimelyKeep DEF FailSave
<1>21. ASSUME Close
     PROVE  Timely'
  BY <1>21 DEF Timely, Close
<1> QED BY <1>1, <1>2, <1>3, <1>4, <1>5, <1>6, <1>7, <1>8, <1>9, <1>10, <1>11, <1>12, <1>13, <1>14, <1>15, <1>16, <1>17, <1>18, <1>19, <1>20, <1>21 DEF Next, Agent, Ask, Answer, Refuse, Handle

-------------------------------------------------------------------------------
(* What is shown is current, or will be made so.                             *)

\* A draft is up to date, about to be reported, or about to be handled.
Attended(j) == Agrees(j) \/ j \in Moved \/ \E u \in Task : Accounts(u, j)

\* A task that does nothing brings nothing up to date.
LEMMA IdleAccounts ==
  ASSUME WellFormed, NEW t \in Task, task[t].kind = "idle", NEW j
  PROVE  ~Accounts(t, j)
<1>1. task[t] = Idle
  BY DEF WellFormed, Busy
<1>2. Idle.stage = "reading" /\ Idle.asked = {} /\ Idle.answers = {}
  BY DEF Idle
<1> QED BY <1>1, <1>2 DEF Accounts

\* Only the source, the watch, the projection and the tasks have a say in that.
LEMMA AttendedKeep ==
  ASSUME UNCHANGED <<stored, seen, touched, task, shown>>, NEW j \in Key, Attended(j)
  PROVE  Attended(j)'
BY DEF Attended, Agrees, Moved, Accounts

\* A change of one task keeps attended what that task still accounts for.
LEMMA AttendedTask ==
  ASSUME TypeOK, UNCHANGED <<stored, seen, touched, shown>>,
         NEW t \in Task, NEW r, task' = [task EXCEPT ![t] = r], NEW j \in Key, Attended(j),
         Accounts(t, j) => Accounts(t, j)'
  PROVE  Attended(j)'
<1>1. \A u \in Task : Accounts(u, j) => Accounts(u, j)'
  BY DEF TypeOK, Accounts
<1> QED BY <1>1 DEF Attended, Agrees, Moved

\* The answer about k is handled: every other draft is attended as before.
LEMMA AttendedSettle ==
  ASSUME TypeOK, WellFormed, NEW t \in Task, NEW k \in Key, NEW c, NEW moved,
         <<k, c>> \in task[t].answers, Settle(t, <<k, c>>, moved),
         UNCHANGED <<stored, seen, touched>>,
         NEW j \in Key, j # k, shown'[j] = shown[j], Attended(j)
  PROVE  Attended(j)'
<1> DEFINE r == [task[t] EXCEPT !.answers = task[t].answers \ {<<k, c>>}]
<1> task[t] \in Running
  BY DEF TypeOK
<1>1. /\ r.kind = task[t].kind /\ r.stage = task[t].stage /\ r.asked = task[t].asked
      /\ r.answers = task[t].answers \ {<<k, c>>}
  BY Fields
<1>2. /\ r.asked \cup r.answers = {} /\ task' = [task EXCEPT ![t] = Idle]
      \/ task' = [task EXCEPT ![t] = r]
  BY DEF Settle, Finish
<1> HIDE DEF r
<1>3. task[t].stage = "reading"
  BY DEF WellFormed
<1>4. Accounts(t, j) => Accounts(t, j)'
  <2>1. Accounts(t, j) => /\ \/ j \in r.asked /\ r.kind # "clear"
                             \/ \E d \in Bytes \cup {Failed} : <<j, d>> \in r.answers
                          /\ r.asked \cup r.answers # {}
    <3>1. CASE j \in task[t].asked /\ task[t].kind # "clear"
      BY <1>1, <3>1
    <3>2. CASE \E d \in Bytes \cup {Failed} : <<j, d>> \in task[t].answers
      <4>1. PICK d \in Bytes \cup {Failed} : <<j, d>> \in task[t].answers
        BY <3>2
      <4>2. <<j, d>> # <<k, c>>
        OBVIOUS
      <4>3. <<j, d>> \in r.answers
        BY <1>1, <4>1, <4>2
      <4> QED BY <4>3
    <3> QED BY <1>3, <3>1, <3>2 DEF Accounts
  <2>2. CASE task' = [task EXCEPT ![t] = r]
    BY <2>1, <2>2 DEF TypeOK, Accounts
  <2> QED BY <1>2, <2>1, <2>2
<1>5. \A u \in Task : Accounts(u, j) => Accounts(u, j)'
  BY <1>2, <1>4 DEF TypeOK, Accounts
<1> QED BY <1>5 DEF Attended, Agrees, Moved

\* No step leaves a draft out of date and unattended on a page that is not muddled.
LEMMA AccountedStep ==
  ASSUME TypeOK, WellFormed, Closed, HeldMatchesShown, Timely, Accounted, Next PROVE Accounted'
<1>1. ASSUME NEW k \in Key, NEW text \in Text, AgentWrites(k, text)
     PROVE  Accounted'
  <2> SUFFICES ASSUME up, ~muddled', NEW j \in Key
               PROVE  Attended(j)'
    BY <1>1 DEF Accounted, Attended, AgentWrites
  <2>0. Attended(j)
    BY <1>1 DEF AgentWrites, Accounted, Attended
  <2>1. CASE j = k
    BY <1>1, <2>1, SteadyWrite, TextAssumption DEF AgentWrites, Attended, Moved, TypeOK, Snapshot
  <2>2. CASE j # k
    BY <1>1, <2>0, <2>2 DEF AgentWrites, Attended, Moved, Agrees, Accounts, TypeOK, Snapshot
  <2> QED BY <2>1, <2>2
<1>2. ASSUME NEW k \in Key, AgentRemoves(k)
     PROVE  Accounted'
  <2> SUFFICES ASSUME up, ~muddled', NEW j \in Key
               PROVE  Attended(j)'
    BY <1>2 DEF Accounted, Attended, AgentRemoves
  <2>0. Attended(j)
    BY <1>2 DEF AgentRemoves, Accounted, Attended
  <2>1. CASE j = k
    BY <1>2, <2>1 DEF AgentRemoves, Remove, Unnoticed, Attended, Moved, TypeOK, Snapshot
  <2>2. CASE j # k
    BY <1>2, <2>0, <2>2 DEF AgentRemoves, Remove, Attended, Moved, Agrees, Accounts, TypeOK, Snapshot
  <2> QED BY <2>1, <2>2
<1>3. ASSUME NEW t \in Task, WatchRound(t)
     PROVE  Accounted'
  <2> SUFFICES ASSUME up, ~muddled', NEW j \in Key
               PROVE  Attended(j)'
    BY <1>3 DEF Accounted, Attended, WatchRound
  <2>0. Attended(j)
    BY <1>3 DEF WatchRound, Accounted, Attended
  <2>1. \A u \in Task : ~Accounts(u, j)
    <3>1. \A u \in Task : task[u].kind = "idle"
      BY <1>3 DEF WatchRound, Beside
    <3> QED BY <3>1, IdleAccounts
  <2>2. CASE j \in Moved
    <3>1. task'[t] = Reading("watch", Moved)
      BY <1>3, <2>2 DEF WatchRound, Reported, TypeOK
    <3>2. j \in task'[t].asked /\ task'[t].kind # "clear"
      BY <2>2, <3>1 DEF Reading, Idle
    <3> QED BY <3>2 DEF Attended, Accounts
  <2>3. CASE Agrees(j)
    BY <1>3, <2>3 DEF WatchRound, Attended, Agrees
  <2> QED BY <2>0, <2>1, <2>2, <2>3 DEF Attended
<1>4. ASSUME NEW t \in Task, StartRefresh(t)
     PROVE  Accounted'
  <2>1. task'[t].stage = "listing"
    BY <1>4 DEF StartRefresh, TypeOK, Listing, Idle
  <2> QED BY <2>1 DEF Accounted, Accounts
<1>5. ASSUME NEW t \in Task, NEW k \in Key, StartLoad(t, k)
     PROVE  Accounted'
  <2> SUFFICES ASSUME up, ~muddled', NEW j \in Key
               PROVE  Attended(j)'
    BY <1>5 DEF Accounted, Attended, StartLoad
  <2>0. Attended(j)
    BY <1>5 DEF StartLoad, Accounted, Attended
  <2>1. ~Accounts(t, j)
    BY <1>5, IdleAccounts DEF StartLoad
  <2> QED BY <1>5, <2>0, <2>1, AttendedTask DEF StartLoad
<1>6. ASSUME NEW t \in Task, NEW k \in Key, StartClear(t, k)
     PROVE  Accounted'
  <2> SUFFICES ASSUME up, ~muddled', NEW j \in Key
               PROVE  Attended(j)'
    BY <1>6 DEF Accounted, Attended, StartClear
  <2>0. Attended(j)
    BY <1>6 DEF StartClear, Accounted, Attended
  <2>1. ~Accounts(t, j)
    BY <1>6, IdleAccounts DEF StartClear
  <2> QED BY <1>6, <2>0, <2>1, AttendedTask DEF StartClear
<1>7. ASSUME NEW t \in Task, AnswerListing(t)
     PROVE  Accounted'
  <2> DEFINE r == [task[t] EXCEPT !.stage = "listed", !.listed = Listed]
  <2> task[t] \in Running
    BY DEF TypeOK
  <2>1. r.stage = "listed" /\ task' = [task EXCEPT ![t] = r]
    BY <1>7, Fields DEF AnswerListing
  <2> HIDE DEF r
  <2>2. task'[t].stage = "listed"
    BY <2>1 DEF TypeOK
  <2> QED BY <2>2 DEF Accounted, Accounts
<1>8. ASSUME NEW t \in Task, NEW k \in task[t].asked, AnswerRead(t, k)
     PROVE  Accounted'
  <2> SUFFICES ASSUME up, ~muddled', NEW j \in Key
               PROVE  Attended(j)'
    BY <1>8 DEF Accounted, Attended, AnswerRead
  <2>0. Attended(j)
    BY <1>8 DEF AnswerRead, Accounted, Attended
  <2> DEFINE r == [task[t] EXCEPT !.asked = task[t].asked \ {k}, !.answers = task[t].answers \cup {<<k, stored[k]>>}]
  <2> task[t] \in Running
    BY DEF TypeOK
  <2>1. /\ r.kind = task[t].kind /\ r.stage = task[t].stage /\ r.asked = task[t].asked \ {k}
        /\ r.answers = task[t].answers \cup {<<k, stored[k]>>}
    BY Fields
  <2>2. task' = [task EXCEPT ![t] = r]
    BY <1>8 DEF AnswerRead
  <2> HIDE DEF r
  <2>3. k \in Key /\ stored[k] \in Bytes
    BY FieldsType DEF TypeOK, Snapshot
  <2>4. Accounts(t, j) => Accounts(t, j)'
    BY <2>1, <2>2, <2>3 DEF Accounts, TypeOK
  <2> QED BY <1>8, <2>0, <2>2, <2>4, AttendedTask DEF AnswerRead
<1>9. ASSUME NEW t \in Task, NEW k \in task[t].asked, AnswerClear(t, k)
     PROVE  Accounted'
  <2> SUFFICES ASSUME up, ~muddled', NEW j \in Key
               PROVE  Attended(j)'
    BY <1>9 DEF Accounted, Attended, AnswerClear
  <2>0. Attended(j)
    BY <1>9 DEF AnswerClear, Accounted, Attended
  <2> DEFINE r == [task[t] EXCEPT !.asked = task[t].asked \ {k}, !.answers = task[t].answers \cup {<<k, Gone>>}]
  <2> task[t] \in Running
    BY DEF TypeOK
  <2>1. /\ r.kind = task[t].kind /\ r.stage = task[t].stage
        /\ r.answers = task[t].answers \cup {<<k, Gone>>}
    BY Fields
  <2>2. task' = [task EXCEPT ![t] = r]
    BY <1>9 DEF AnswerClear
  <2> HIDE DEF r
  <2>3. k \in Key
    BY FieldsType
  <2>4. CASE j = k
    <3>1. <<j, Gone>> \in task'[t].answers
      BY <2>1, <2>2, <2>4 DEF TypeOK
    <3> QED BY <3>1 DEF Attended, Accounts, Bytes
  <2>5. CASE j # k
    <3>1. \A u \in Task : Accounts(u, j) => Accounts(u, j)'
      BY <1>9, <2>1, <2>2 DEF AnswerClear, Accounts, TypeOK
    <3> QED BY <1>9, <2>0, <2>3, <2>5, <3>1 DEF AnswerClear, Remove, Attended, Moved, Agrees, TypeOK, Snapshot
  <2> QED BY <2>4, <2>5
<1>10. ASSUME NEW t \in Task, FailListing(t)
     PROVE  Accounted'
  BY <1>10 DEF Accounted, FailListing
<1>11. ASSUME NEW t \in Task, NEW k \in task[t].asked, FailRead(t, k)
     PROVE  Accounted'
  BY <1>11 DEF Accounted, FailRead
<1>12. ASSUME NEW t \in Task, NEW k \in task[t].asked, FailClear(t, k)
     PROVE  Accounted'
  BY <1>12 DEF Accounted, FailClear
<1>13. ASSUME NEW t \in Task, NEW k \in Key, NEW text \in Text, HandleText(t, k, text)
     PROVE  Accounted'
  <2> SUFFICES ASSUME up, ~muddled', NEW j \in Key
               PROVE  Attended(j)'
    BY <1>13 DEF Accounted, Attended, HandleText
  <2>0. Attended(j)
    BY <1>13 DEF HandleText, Accounted, Attended
  <2>1. CASE j # k
    BY <1>13, <2>0, <2>1, AttendedSettle DEF HandleText, TypeOK
  <2>2. CASE j = k
    <3>1. text = stored[k] \/ k \in Moved
      BY <1>13 DEF HandleText, Timely, Bytes
    <3>2. CASE k \in Moved
      BY <1>13, <2>2, <3>2 DEF Attended, Moved, HandleText
    <3>3. CASE text = stored[k]
      BY <1>13, <2>2, <3>3, TextAssumption DEF Attended, Agrees, HandleText, TypeOK, Recorded
    <3> QED BY <3>1, <3>2, <3>3
  <2> QED BY <2>1, <2>2
<1>14. ASSUME NEW t \in Task, NEW k \in Key, HandleGone(t, k)
     PROVE  Accounted'
  <2> SUFFICES ASSUME up, ~muddled', NEW j \in Key
               PROVE  Attended(j)'
    BY <1>14 DEF Accounted, Attended, HandleGone
  <2>0. Attended(j)
    BY <1>14 DEF HandleGone, Accounted, Attended
  <2>1. CASE j # k
    BY <1>14, <2>0, <2>1, AttendedSettle DEF HandleGone, TypeOK
  <2>2. CASE j = k
    <3>1. Gone = stored[k] \/ k \in Moved
      BY <1>14 DEF HandleGone, Timely, Bytes
    <3>2. CASE k \in Moved
      BY <1>14, <2>2, <3>2 DEF Attended, Moved, HandleGone
    <3>3. CASE Gone = stored[k]
      BY <1>14, <2>2, <3>3, TextAssumption DEF Attended, Agrees, HandleGone, TypeOK, Absent
    <3> QED BY <3>1, <3>2, <3>3
  <2> QED BY <2>1, <2>2
<1>15. ASSUME NEW t \in Task, NEW k \in Key, HandleFailure(t, k)
     PROVE  Accounted'
  <2>1. up => muddled
    BY <1>15 DEF HandleFailure, Timely, Bytes
  <2> QED BY <1>15, <2>1 DEF Accounted, HandleFailure
<1>16. ASSUME NEW t \in Task, HandleListing(t)
     PROVE  Accounted'
  <2> SUFFICES ASSUME up, ~muddled', NEW j \in Key
               PROVE  Attended(j)'
    BY <1>16 DEF Accounted, Attended, HandleListing
  <2>1. CASE j \in task[t].listed
    <3>1. task'[t] = Reading(task[t].kind, task[t].listed) /\ task[t].kind # "clear"
      BY <1>16, <2>1 DEF HandleListing, TypeOK, Refreshing
    <3>2. j \in task'[t].asked /\ task'[t].kind # "clear"
      BY <2>1, <3>1 DEF Reading, Idle
    <3> QED BY <3>2 DEF Attended, Accounts
  <2>2. CASE j \notin task[t].listed
    <3>1. stored[j] = Gone \/ j \in Moved
      BY <1>16, <2>2 DEF HandleListing, Timely
    <3>2. shown'[j].problem = "absent"
      BY <1>16, <2>2 DEF HandleListing, Cleared, Absent
    <3> QED BY <1>16, <3>1, <3>2 DEF HandleListing, Attended, Agrees, Moved
  <2> QED BY <2>1, <2>2
<1>17. ASSUME NEW t \in Task, HandleRoot(t)
     PROVE  Accounted'
  <2> SUFFICES ASSUME up, ~muddled', NEW j \in Key
               PROVE  Attended(j)'
    BY <1>17 DEF Accounted, Attended, HandleRoot, Finish
  <2>0. Attended(j)
    BY <1>17 DEF HandleRoot, Finish, Accounted, Attended
  <2>1. ~Accounts(t, j)
    BY <1>17 DEF HandleRoot, Finish, WellFormed, Accounts
  <2> QED BY <1>17, <2>0, <2>1, AttendedTask DEF HandleRoot, Finish
<1>18. ASSUME NEW t \in Task, Open(t)
     PROVE  Accounted'
  <2>1. task'[t].stage = "listing"
    BY <1>18 DEF Open, TypeOK, Listing, Idle
  <2> QED BY <2>1 DEF Accounted, Accounts
<1>19. ASSUME Save
     PROVE  Accounted'
  <2> SUFFICES ASSUME up, ~muddled', NEW j \in Key
               PROVE  Attended(j)'
    BY <1>19 DEF Accounted, Attended, Save
  <2>0. Attended(j)
    BY <1>19 DEF Save, Accounted, Attended
  <2> QED BY <1>19, <2>0, AttendedKeep DEF Save
<1>20. ASSUME FailSave
     PROVE  Accounted'
  <2> SUFFICES ASSUME up, ~muddled', NEW j \in Key
               PROVE  Attended(j)'
    BY <1>20 DEF Accounted, Attended, FailSave
  <2>0. Attended(j)
    BY <1>20 DEF FailSave, Accounted, Attended
  <2> QED BY <1>20, <2>0, AttendedKeep DEF FailSave
<1>21. ASSUME Close
     PROVE  Accounted'
  BY <1>21 DEF Accounted, Close
<1> QED BY <1>1, <1>2, <1>3, <1>4, <1>5, <1>6, <1>7, <1>8, <1>9, <1>10, <1>11, <1>12, <1>13, <1>14, <1>15, <1>16, <1>17, <1>18, <1>19, <1>20, <1>21 DEF Next, Agent, Ask, Answer, Refuse, Handle

-------------------------------------------------------------------------------
(* What is owed.                                                             *)

\* A task that asks, reads or waits is under way.
LEMMA NotAllIdle ==
  ASSUME TypeOK, NEW t \in Task, NEW r, r.kind # "idle", task' = [task EXCEPT ![t] = r]
  PROVE  ~AllIdle'
BY DEF TypeOK, AllIdle

\* An answer that is handled is handled by a task that is under way, and the
\* last one of a task leaves nothing owed.
LEMMA OwedSettle ==
  ASSUME TypeOK, WellFormed, NEW t \in Task, NEW answer \in task[t].answers,
         NEW moved \in BOOLEAN, Settle(t, answer, moved)
  PROVE  ~dirty' \/ ~AllIdle'
<1> DEFINE r == [task[t] EXCEPT !.answers = task[t].answers \ {answer}]
<1> task[t] \in Running
  BY DEF TypeOK
<1>1. r.kind = task[t].kind /\ task[t].kind # "idle"
  BY Fields DEF WellFormed, Busy, Idle
<1>2. ~dirty' \/ task' = [task EXCEPT ![t] = r]
  BY DEF Settle, Persist
<1> HIDE DEF r
<1> QED BY <1>1, <1>2, NotAllIdle

\* What makes a snapshot owed is under way until it has handed one over, or has
\* muddled things by failing.
LEMMA OwedStep ==
  ASSUME TypeOK, WellFormed, Closed, Timely, OwedWhileIdle, Next
  PROVE  OwedWhileIdle'
<1> SUFFICES ASSUME up', AllIdle', ~muddled' PROVE ~dirty'
  BY DEF OwedWhileIdle
<1>1. ASSUME NEW k \in Key, NEW text \in Text, AgentWrites(k, text)
      PROVE  ~dirty'
  BY <1>1 DEF AgentWrites, OwedWhileIdle, AllIdle
<1>2. ASSUME NEW k \in Key, AgentRemoves(k)
      PROVE  ~dirty'
  BY <1>2 DEF AgentRemoves, OwedWhileIdle, AllIdle
<1>3. ASSUME Save \/ FailSave
      PROVE  ~dirty'
  BY <1>3 DEF Save, FailSave, OwedWhileIdle, AllIdle
<1>4. ASSUME NEW t \in Task, WatchRound(t)
      PROVE  ~dirty'
  <2>1. task' = [task EXCEPT ![t] = Reading("watch", Reported)]
    BY <1>4 DEF WatchRound, Reported
  <2>2. Reading("watch", Reported).kind # "idle"
    BY DEF Reading, Idle
  <2> QED BY <2>1, <2>2, NotAllIdle
<1>5. ASSUME NEW t \in Task, StartRefresh(t)
      PROVE  ~dirty'
  <2>1. Listing("refresh").kind # "idle"
    BY DEF Listing, Idle
  <2> QED BY <1>5, <2>1, NotAllIdle DEF StartRefresh
<1>6. ASSUME NEW t \in Task, NEW k \in Key, StartLoad(t, k) \/ StartClear(t, k)
      PROVE  ~dirty'
  <2>1. Reading("load", {k}).kind # "idle" /\ Reading("clear", {k}).kind # "idle"
    BY DEF Reading, Idle
  <2> QED BY <1>6, <2>1, NotAllIdle DEF StartLoad, StartClear
<1>7. ASSUME NEW t \in Task, Open(t)
      PROVE  ~dirty'
  BY <1>7 DEF Open, Closed
<1>8. ASSUME NEW t \in Task, AnswerListing(t)
      PROVE  ~dirty'
  <2> DEFINE r == [task[t] EXCEPT !.stage = "listed", !.listed = Listed]
  <2> task[t] \in Running
    BY DEF TypeOK
  <2>1. r.kind = task[t].kind
    BY Fields
  <2>2. task' = [task EXCEPT ![t] = r] /\ task[t].kind # "idle"
    BY <1>8 DEF AnswerListing, Refreshing
  <2> HIDE DEF r
  <2> QED BY <2>1, <2>2, NotAllIdle
<1>9. ASSUME NEW t \in Task, NEW k \in task[t].asked,
             \/ AnswerRead(t, k) \/ AnswerClear(t, k) \/ FailRead(t, k)
      PROVE  ~dirty'
  <2> task[t] \in Running
    BY DEF TypeOK
  <2>1. task[t].kind # "idle"
    BY <1>9 DEF WellFormed, Busy, Idle
  <2>2. ASSUME NEW asked, NEW answers,
               task' = [task EXCEPT ![t] = [task[t] EXCEPT !.asked = asked, !.answers = answers]]
        PROVE  ~dirty'
    <3> DEFINE r == [task[t] EXCEPT !.asked = asked, !.answers = answers]
    <3>1. r.kind = task[t].kind
      BY Fields
    <3>2. task' = [task EXCEPT ![t] = r]
      BY <2>2
    <3> HIDE DEF r
    <3> QED BY <2>1, <3>1, <3>2, NotAllIdle
  <2> DEFINE asked == task[t].asked \ {k}
  <2>3. CASE AnswerRead(t, k)
    <3> DEFINE answers == task[t].answers \cup {<<k, stored[k]>>}
    <3>1. task' = [task EXCEPT ![t] = [task[t] EXCEPT !.asked = asked, !.answers = answers]]
      BY <2>3 DEF AnswerRead
    <3> HIDE DEF asked, answers
    <3> QED BY <2>2, <3>1
  <2>4. CASE AnswerClear(t, k)
    <3> DEFINE answers == task[t].answers \cup {<<k, Gone>>}
    <3>1. task' = [task EXCEPT ![t] = [task[t] EXCEPT !.asked = asked, !.answers = answers]]
      BY <2>4 DEF AnswerClear
    <3> HIDE DEF asked, answers
    <3> QED BY <2>2, <3>1
  <2>5. CASE FailRead(t, k)
    BY <2>5 DEF FailRead
  <2> QED BY <1>9, <2>3, <2>4, <2>5
<1>10. ASSUME NEW t \in Task, FailListing(t) \/ \E k \in task[t].asked : FailClear(t, k)
       PROVE  ~dirty'
  BY <1>10 DEF FailListing, FailClear
<1>11. ASSUME NEW t \in Task, NEW k \in Key, NEW text \in Text, HandleText(t, k, text)
       PROVE  ~dirty'
  BY <1>11, OwedSettle DEF HandleText
<1>12. ASSUME NEW t \in Task, NEW k \in Key, HandleGone(t, k)
       PROVE  ~dirty'
  BY <1>12, OwedSettle DEF HandleGone, Marks
<1>13. ASSUME NEW t \in Task, NEW k \in Key, HandleFailure(t, k)
       PROVE  ~dirty'
  BY <1>13 DEF HandleFailure, Timely
<1>14. ASSUME NEW t \in Task, HandleListing(t)
       PROVE  ~dirty'
  <2> DEFINE r == IF task[t].listed = {} THEN [Listing(task[t].kind) EXCEPT !.stage = "root"]
                                       ELSE Reading(task[t].kind, task[t].listed)
  <2>1. r.kind = task[t].kind
    BY DEF Listing, Reading, Idle
  <2>2. task' = [task EXCEPT ![t] = r] /\ task[t].kind # "idle"
    BY <1>14 DEF HandleListing, Refreshing
  <2> HIDE DEF r
  <2> QED BY <2>1, <2>2, NotAllIdle
<1>15. ASSUME NEW t \in Task, HandleRoot(t)
       PROVE  ~dirty'
  BY <1>15 DEF HandleRoot, Persist
<1>16. ASSUME Close
       PROVE  ~dirty'
  BY <1>16 DEF Close
<1> QED
  BY <1>1, <1>2, <1>3, <1>4, <1>5, <1>6, <1>7, <1>8, <1>9, <1>10, <1>11, <1>12,
     <1>13, <1>14, <1>15, <1>16
  DEF Next, Agent, Ask, Answer, Refuse, Handle

-------------------------------------------------------------------------------
(* The inductive invariant and what follows from it.                         *)

IInv == /\ TypeOK /\ WellFormed /\ Closed /\ HeldMatchesShown /\ SnapshotKept
        /\ OneTask /\ Timely /\ Accounted /\ OwedWhileIdle

\* A page that was never opened owes nothing and shows nothing.
LEMMA IInvInit == Init => IInv
<1> SUFFICES ASSUME Init PROVE IInv
  OBVIOUS
<1>1. TypeOK
  <2>1. Absent \in Entry
    BY EntryType DEF Bytes
  <2>2. saving \in Seq(Snapshot)
    BY DEF Init
  <2>3. stored \in Snapshot /\ held \in Snapshot /\ disk \in Snapshot
    BY DEF Init, Snapshot, Bytes
  <2> QED BY <2>1, <2>2, <2>3, IdleType DEF Init, TypeOK
<1>2. WellFormed /\ Closed /\ OneTask
  BY DEF Init, WellFormed, Closed, OneTask, Busy, Idle
<1>3. HeldMatchesShown
  BY DEF Init, HeldMatchesShown, Absent
<1>4. SnapshotKept /\ Timely /\ Accounted
  BY DEF Init, SnapshotKept, Timely, Accounted
<1>5. OwedWhileIdle
  BY DEF Init, OwedWhileIdle
<1> QED BY <1>1, <1>2, <1>3, <1>4, <1>5 DEF IInv

\* The parts of the invariant, put together.
LEMMA IInvStep == IInv /\ [Next]_vars => IInv'
<1> SUFFICES ASSUME IInv, [Next]_vars PROVE IInv'
  OBVIOUS
<1>1. CASE Next
  BY <1>1, TypeStep, WellFormedStep, ClosedStep, HeldStep, KeptStep, OneTaskStep,
     TimelyStep, AccountedStep, OwedStep DEF IInv
<1>2. CASE UNCHANGED vars
  <2>1. TypeOK' /\ WellFormed' /\ Closed' /\ HeldMatchesShown'
    BY <1>2 DEF vars, IInv, TypeOK, WellFormed, Busy, Closed, HeldMatchesShown, Refreshing
  <2>2. SnapshotKept' /\ OneTask'
    BY <1>2 DEF vars, IInv, SnapshotKept, Newest, OneTask, Busy
  <2>3. Timely' /\ Accounted'
    BY <1>2 DEF vars, IInv, Timely, Accounted, Agrees, Moved, Accounts
  <2>4. OwedWhileIdle'
    BY <1>2 DEF vars, IInv, OwedWhileIdle, AllIdle
  <2> QED BY <2>1, <2>2, <2>3, <2>4 DEF IInv
<1> QED BY <1>1, <1>2

\* All of it holds whatever overlaps, fails or is closed.
LEMMA Invariant == Spec => []IInv
BY IInvInit, IInvStep, PTL DEF Spec

\* Whatever reads, listings, clears, failures and reloads overlap, every variable
\* of Drafts keeps its type.
THEOREM TypeCorrect == Spec => []TypeOK
<1>1. IInv => TypeOK
  BY DEF IInv
<1> QED BY <1>1, Invariant, PTL

\* The snapshot and the projection never disagree about a draft (drafts.js _record,
\* _hold and _drop are always taken together).
THEOREM HeldMatchesShownAlways == Spec => []HeldMatchesShown
<1>1. IInv => HeldMatchesShown
  BY DEF IInv
<1> QED BY <1>1, Invariant, PTL

\* When none is owed and none was lost, the newest snapshot given to the database
\* is exactly what is held, so the next opening starts from the last good reads.
THEOREM SnapshotKeptAlways == Spec => []SnapshotKept
<1>1. IInv => SnapshotKept
  BY DEF IInv
<1> QED BY <1>1, Invariant, PTL

\* With nothing under way and nothing for the watch to report, what is shown is
\* what the source holds, unless tasks overlapped, something failed or a file came
\* and went unseen since the last refresh that began alone.
THEOREM QuietMeansCurrentAlways == Spec => []QuietMeansCurrent
<1>1. IInv => QuietMeansCurrent
  <2> SUFFICES ASSUME IInv, up, AllIdle, Moved = {}, ~muddled, NEW k \in Key
               PROVE  Agrees(k)
    BY DEF QuietMeansCurrent
  <2>1. \A t \in Task : ~Accounts(t, k)
    BY IdleAccounts DEF IInv, AllIdle
  <2> QED BY <2>1 DEF IInv, Accounted
<1> QED BY <1>1, Invariant, PTL

\* A snapshot that is owed is owed by something under way, while nothing failed
\* and no two tasks ran together.
THEOREM OwedWhileIdleAlways == Spec => []OwedWhileIdle
<1>1. IInv => OwedWhileIdle
  BY DEF IInv
<1> QED BY <1>1, Invariant, PTL
===============================================================================
