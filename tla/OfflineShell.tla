------------------------------ MODULE OfflineShell ------------------------------
(* How the app's own files come: a server that is deployed over, or reads a  *)
(* directory under edit, the browser's five minutes of memory, and a worker  *)
(* that keeps a copy of whatever came, unawaited, for a start without a      *)
(* network. One module stands for all of them: it is named by the document.  *)
EXTENDS Naturals

CONSTANTS
  Page,          \* tabs open on the origin
  MaxChanges,    \* deploys, edits, and changes between the two servers
  MaxLoads, MaxOutages

Bounds == {MaxChanges, MaxLoads, MaxOutages} \subseteq Nat

VARIABLES
  site,          \* what answers there
  up,
  held,          \* the browser's own copy of the module
  worker,        \* the one in charge, and one that is taking over
  caches,        \* by shell name and key, what the workers kept
  page,
  puts,          \* copies on their way into a cache
  loads, outages,
  last,          \* by shell name and key, what came last (history)
  overtaken,     \* a copy was sent while another of its key was on its way (history)
  stored,        \* what was put since the shell in charge was last emptied (history)
  aside          \* a page that is not the app's came under a worker (history)

bounds == <<loads, outages>>
comes == <<last, overtaken, aside>>
history == <<stored, comes>>
vars == <<site, up, held, worker, caches, page, puts, bounds, history>>

DOCUMENT == "/"
Route == {"/", "/review", "/next"}
Key == Route \cup {"/file", "module"}
Name == 1..2

None == [is |-> "none", of |-> 0]
Empty == [n \in Name |-> [k \in Key |-> None]]
App(d) == d.is \in {"app", "dev"}

Unused == [pc |-> "closed"]
NoOne == [script |-> 0, name |-> 0]
NoWorker == [active |-> NoOne, next |-> NoOne, installed |-> FALSE]

Init ==
  /\ \E dev \in BOOLEAN : site = [release |-> 1, whole |-> TRUE, dev |-> dev, script |-> 1, name |-> 1]
  /\ up = TRUE /\ held = None
  /\ worker = NoWorker /\ caches = Empty
  /\ page = [c \in Page |-> Unused] /\ puts = {}
  /\ loads = 0 /\ outages = 0
  /\ last = Empty /\ overtaken = {} /\ stored = {}
  /\ aside = FALSE

Is(c, pc) == page[c].pc = pc
Open(c) == ~Is(c, "closed")
Listening(c) == Open(c) /\ page[c].known # 0

-----------------------------------------------------------------------------
(* The server.                                                               *)

\* An address that names no file is the interface's, and answered with it.
Served(what) ==
  IF what = "module" THEN [is |-> "module", of |-> site.release]
  ELSE IF what = "/file" THEN [is |-> "file", of |-> site.release]
  ELSE [is |-> IF site.dev THEN "dev" ELSE "app", of |-> site.release]

\* Mutant: any tree is served.
Any(whole) == TRUE

\* A tree without what its document names is refused, and what was taking
\* traffic carries on.
Deploys(whole) == whole

\* Who is not listening, or stops, may have read what is replaced.
Replaced(s, listening) ==
  /\ site.release <= MaxChanges
  /\ site' = [s EXCEPT !.release = @ + 1]
  /\ page' = [c \in Page |-> IF ~Open(c) THEN page[c] ELSE
              [page[c] EXCEPT !.known = IF c \in listening THEN @ ELSE 0, !.edited = @ \/ c \notin listening]]
  /\ UNCHANGED <<up, held, worker, caches, puts, bounds, history>>

Deploy ==
  /\ ~site.dev
  /\ \E whole \in BOOLEAN, script, name \in 0..1 :
       /\ Deploys(whole) /\ name <= script /\ site.name + name \in Name
       /\ Replaced([site EXCEPT !.whole = whole, !.script = @ + script, !.name = @ + name], {})

Edit ==
  site.dev /\ \E whole \in BOOLEAN : Replaced([site EXCEPT !.whole = whole], {c \in Page : Listening(c)})

ServeOther ==
  /\ ~site.dev \/ Deploys(site.whole)
  /\ Replaced([site EXCEPT !.dev = ~@], {})

Lose ==
  /\ up /\ outages < MaxOutages /\ up' = FALSE /\ outages' = outages + 1
  /\ page' = [c \in Page |-> IF ~Listening(c) THEN page[c] ELSE
              [page[c] EXCEPT !.known = 0, !.edited = @ \/ page[c].known # site.release]]
  /\ UNCHANGED <<site, held, worker, caches, puts, loads, history>>

Regain ==
  /\ ~up /\ up' = TRUE
  /\ UNCHANGED <<site, held, worker, caches, page, puts, bounds, history>>

\* A module's copy is good for five minutes; the document's and sw.js's are not.
FiveMinutes ==
  /\ held # None /\ held' = None
  /\ UNCHANGED <<site, up, worker, caches, page, puts, bounds, history>>

-----------------------------------------------------------------------------
(* A load: the document, then the module.                                    *)

Loading(to) ==
  [pc |-> "document", to |-> to, by |-> worker.active.name, doc |-> None, module |-> None,
   from |-> site.release, oldest |-> IF held = None THEN site.release ELSE held.of,
   off |-> FALSE, mem |-> FALSE, dev |-> FALSE, known |-> 0, edited |-> FALSE]

Navigate(c, to) ==
  /\ page[c].pc \in {"closed", "shown", "started", "broken"}
  /\ loads < MaxLoads /\ loads' = loads + 1
  /\ page' = [page EXCEPT ![c] = Loading(to)]
  /\ UNCHANGED <<site, up, held, worker, caches, puts, outages, history>>

\* Every address of the interface is kept under the one.
KeyOf(what) == IF what = "module" THEN what ELSE DOCUMENT

Comes(put) ==
  /\ last' = [last EXCEPT ![put.name][put.key] = put.copy]
  /\ overtaken' = overtaken \cup {p.key : p \in {p \in puts : p.key = put.key}}
  /\ aside' = (aside \/ put.copy.is = "file")

\* The copy is not waited for.
Keeps(c, what, copy) ==
  LET put == [name |-> page[c].by, key |-> KeyOf(what), copy |-> copy] IN
  IF page[c].by = 0 THEN UNCHANGED <<puts, comes>>
  ELSE puts' = puts \cup {put} /\ Comes(put)

Kept(c, what) ==
  IF page[c].by = 0 THEN {} ELSE {caches[n][KeyOf(what)] : n \in Name} \ {None}

Becomes(c, to) == page' = [page EXCEPT ![c] = to]

Asked(c, doc) == [page[c] EXCEPT !.pc = IF App(doc) THEN "module" ELSE "shown", !.doc = doc]

GetDocument(c) ==
  /\ Is(c, "document")
  /\ \/ up /\ Keeps(c, page[c].to, Served(page[c].to)) /\ Becomes(c, Asked(c, Served(page[c].to)))
     \/ /\ ~up /\ UNCHANGED <<puts, comes>>
        /\ \/ \E doc \in Kept(c, page[c].to) : Becomes(c, [Asked(c, doc) EXCEPT !.off = TRUE])
           \/ Kept(c, page[c].to) = {} /\ Becomes(c, [page[c] EXCEPT !.pc = "broken", !.off = TRUE])
  /\ UNCHANGED <<site, up, held, worker, caches, bounds, stored>>

Has(c, module, off, mem) == [page[c] EXCEPT !.pc = "loaded", !.module = module, !.off = @ \/ off, !.mem = mem]
Breaks(c, off) == [page[c] EXCEPT !.pc = "broken", !.off = @ \/ off, !.dev = site.dev]

GetModule(c) ==
  /\ Is(c, "module")
  /\ \/ held # None /\ Keeps(c, "module", held) /\ Becomes(c, Has(c, held, FALSE, TRUE)) /\ UNCHANGED held
     \/ /\ held = None /\ up /\ site.whole
        /\ held' = IF site.dev THEN None ELSE Served("module")
        /\ Keeps(c, "module", Served("module")) /\ Becomes(c, Has(c, Served("module"), FALSE, FALSE))
     \/ /\ held = None /\ up /\ ~site.whole
        /\ Becomes(c, Breaks(c, FALSE)) /\ UNCHANGED <<held, puts, comes>>
     \/ /\ held = None /\ ~up /\ UNCHANGED <<held, puts, comes>>
        /\ \/ \E module \in Kept(c, "module") : Becomes(c, Has(c, module, TRUE, FALSE))
           \/ Kept(c, "module") = {} /\ Becomes(c, Breaks(c, TRUE))
  /\ UNCHANGED <<site, up, worker, caches, bounds, stored>>

Land(p) ==
  /\ p \in puts /\ puts' = puts \ {p}
  /\ caches' = [caches EXCEPT ![p.name][p.key] = p.copy]
  /\ stored' = IF p.name = worker.active.name THEN stored \cup {p.copy.is} ELSE stored
  /\ UNCHANGED <<site, up, held, worker, page, bounds, comes>>

-----------------------------------------------------------------------------
(* The worker.                                                               *)

Offered == [script |-> site.script, name |-> site.name]

\* Done when all modules have come, so the first visit's came before any worker.
Register(c) ==
  /\ Is(c, "loaded") /\ page[c].doc.is = "app"
  /\ worker' = IF up /\ ~site.dev /\ worker.active # Offered /\ worker.next # Offered
               THEN [worker EXCEPT !.next = Offered, !.installed = FALSE] ELSE worker
  /\ Becomes(c, [page[c] EXCEPT !.pc = "started", !.from = 0, !.oldest = 0])
  /\ UNCHANGED <<site, up, held, caches, puts, bounds, history>>

Install ==
  /\ worker.next # NoOne /\ ~worker.installed
  /\ \/ /\ up /\ worker' = [worker EXCEPT !.installed = TRUE]
        /\ caches' = [caches EXCEPT ![worker.next.name][DOCUMENT] = Served(DOCUMENT)]
        /\ Comes([name |-> worker.next.name, key |-> DOCUMENT, copy |-> Served(DOCUMENT)])
     \/ ~up /\ worker' = [worker EXCEPT !.next = NoOne] /\ UNCHANGED <<caches, comes>>
  /\ UNCHANGED <<site, up, held, page, puts, bounds, stored>>

\* Shells of other names go, and the tabs that are open are taken over.
Activate ==
  /\ worker.installed
  /\ LET name == worker.next.name IN
     /\ caches' = [n \in Name |-> IF n = name THEN caches[n] ELSE Empty[n]]
     /\ page' = [c \in Page |->
          IF ~Open(c) \/ (Is(c, "document") /\ page[c].by = 0) THEN page[c] ELSE [page[c] EXCEPT !.by = name]]
     /\ stored' = IF name = worker.active.name THEN stored ELSE {}
  /\ worker' = [active |-> worker.next, next |-> NoOne, installed |-> FALSE]
  /\ UNCHANGED <<site, up, held, puts, bounds, comes>>

\* A page of the development server takes the worker out, then what it kept.
Unregister(c) ==
  /\ Is(c, "loaded") /\ page[c].doc.is = "dev"
  /\ worker' = NoWorker /\ stored' = {}
  /\ Becomes(c, [page[c] EXCEPT !.pc = "emptying"])
  /\ UNCHANGED <<site, up, held, caches, puts, bounds, comes>>

EmptyShells(c) ==
  /\ Is(c, "emptying")
  /\ caches' = Empty /\ stored' = {}
  /\ Becomes(c, [page[c] EXCEPT !.pc = "started", !.from = 0, !.oldest = 0])
  /\ UNCHANGED <<site, up, held, worker, puts, bounds, comes>>

-----------------------------------------------------------------------------
(* Reloading on an edit.                                                     *)

\* What is there when the stream is opened is what the page is taken to have.
Listen(c) ==
  /\ Open(c) /\ page[c].doc.is = "dev" /\ ~Listening(c)
  /\ up /\ site.dev
  /\ Becomes(c, [page[c] EXCEPT !.known = site.release])
  /\ UNCHANGED <<site, up, held, worker, caches, puts, bounds, history>>

Tick(c) ==
  /\ Listening(c) /\ page[c].known # site.release
  /\ Becomes(c, Loading(page[c].to))
  /\ UNCHANGED <<site, up, held, worker, caches, puts, bounds, history>>

Next ==
  \/ Deploy \/ Edit \/ ServeOther \/ Lose \/ Regain \/ FiveMinutes \/ Install \/ Activate
  \/ \E p \in puts : Land(p)
  \/ \E c \in Page :
       \/ GetDocument(c) \/ GetModule(c) \/ Register(c) \/ Unregister(c) \/ EmptyShells(c)
       \/ Listen(c) \/ Tick(c)
       \/ \E to \in {"/review", "/file"} : Navigate(c, to)

Spec == Init /\ [][Next]_vars

-----------------------------------------------------------------------------
(* What must hold.                                                           *)

TypeOK ==
  /\ site.release \in 1..MaxChanges + 1 /\ site.name \in Name /\ up \in BOOLEAN
  /\ held.is \in {"none", "module"}
  /\ \A n \in Name : caches[n]["module"].is \in {"none", "module"} /\ caches[n][DOCUMENT].is # "module"
  /\ \A c \in Page : Open(c) => page[c].module.is \in {"none", "module"}
  /\ stored \subseteq {"app", "dev", "file", "module"} /\ loads \in 0..MaxLoads /\ outages \in 0..MaxOutages

\* A page loaded with the network is what the server had since, but for a
\* module the browser may hold for five minutes; and a deploy answers all of it
\* (sw.js fresh, serve.go newSnapshot).
OnlineIsFresh ==
  \A c \in Page : Open(c) /\ ~page[c].off =>
    /\ page[c].doc # None => page[c].doc.of >= page[c].from
    /\ page[c].module # None => page[c].module.of >= page[c].oldest
    /\ Is(c, "broken") => page[c].dev

\* Once a load was kept whole, any address of the app starts without a network,
\* unless another page was opened under the worker (sw.js install, fresh).
StartsOffline ==
  "module" \in stored /\ stored \cap {"app", "dev"} # {} =>
    \/ aside
    \/ /\ \A to \in Route : App(caches[worker.active.name][KeyOf(to)])
       /\ caches[worker.active.name]["module"] # None

\* What the worker in charge keeps is the last that came, unless that is on its
\* way or another copy was when it came (sw.js fresh).
CopyIsLatest ==
  worker.active # NoOne =>
    LET n == worker.active.name IN
    \A k \in Key \ overtaken :
      caches[n][k] \in {None, last[n][k]} \/ \E p \in puts : p.name = n /\ p.key = k

\* A page under development shows what is on the disk, or is about to be
\* reloaded, unless it was edited before the page was listening or the browser
\* still held the other server's module (reload.go reloader).
EditsAreSeen ==
  \A c \in Page : Listening(c) /\ page[c].known = site.release /\ ~page[c].edited =>
    \/ page[c].off
    \/ /\ page[c].doc.of = site.release
       /\ page[c].module \in {None, Served("module")} \/ page[c].mem
===============================================================================
