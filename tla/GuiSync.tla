------------------------------- MODULE GuiSync --------------------------------
(***************************************************************************)
(* The desktop application (SlackSyncGUI/app.go) as its window drives it   *)
(* (frontend/src/App.tsx): logging in starts two background fetches that   *)
(* fill the caches of users and channel names; a sync then stores channels *)
(* or single threads in the database, in a JSON file per channel and in a  *)
(* file per thread, and swallows most of the errors it meets.  The caches  *)
(* are Go maps without a lock: two goroutines on one of them at a time may *)
(* abort the process.  What rows, JSON and files hold is what the current  *)
(* sync put there; the layout of the files is left out.                    *)
(***************************************************************************)
EXTENDS Integers, Sequences, FiniteSets

CONSTANTS
  Channels, Messages,
  Pages,       \* Pages[c]: history pages of c, each a sequence of messages
  Replies,     \* Replies[m]: the replies in the thread of m
  Joins,       \* the messages about joining and leaving, which a sync skips
  Base,        \* Base[m]: file name made from the time and the first line of m
  Listings,    \* what the API may list as the channels of the session
  Requests,    \* syncs the user may ask for
  Dirs,
  Faults,      \* which of "start", "list", "switch", "dir", "json", "history", "limit",
               \* "replies", "save" and "file" may go wrong
  MaxLogins, MaxSyncs, MaxLimits   \* bounds on logins, syncs, rate-limited answers

\* A target is a channel, a thread of a channel, or a link that cannot be read.
Whole(c) == [chan |-> c, root |-> "-"]
BadLink == Whole("-")
Target == [chan : Channels, root : Messages \cup {"-"}] \cup {BadLink}
Request == [mode : {"channel", "url"}, what : Seq(Target), dir : Dirs,
            formats : SUBSET {"json", "sqlite", "file"}]

ASSUME GuiAssumption ==
  /\ Pages \in [Channels -> Seq(Seq(Messages)) \ {<<>>}]
  /\ Replies \in [Messages -> SUBSET Messages] /\ Joins \subseteq Messages
  /\ DOMAIN Base = Messages
  /\ Listings \subseteq SUBSET Channels /\ Requests \subseteq Request
  /\ \A r \in Requests : \A i \in DOMAIN r.what :
       r.mode = "channel" <=> r.what[i].root = "-" /\ r.what[i] # BadLink
  \* the window keeps the channels that are picked in a set
  /\ \A r \in Requests : r.mode = "channel" =>
       \A i, j \in DOMAIN r.what : r.what[i] = r.what[j] => i = j
  /\ "." \in Dirs   \* where the application starts
  /\ MaxLogins \in Nat /\ MaxSyncs \in Nat /\ MaxLimits \in Nat

\* The goroutines that write a cache: two for each login, and whoever calls
\* GetChannels in the foreground (the window after a login, or a sync).
Foreground == <<"names", 0>>
Background == {"names", "users"} \X (1..MaxLogins)
Tasks == Background \cup {Foreground}
Idle == [phase |-> "idle", todo |-> {}]

NoReq == [mode |-> "none", what |-> <<>>, dir |-> ".", formats |-> {}]
NoDb == [dir |-> "-", open |-> FALSE]
NoJson == [state |-> "none", has |-> {}]

VARIABLES
  ui,        \* "login", "listing", "dashboard" or "syncing"
  tasks,     \* the cache writers: phase and entries not yet written
  names,     \* channelNames: the channels whose name is cached
  shown,     \* channels the window lists
  crashed,   \* aborted by the runtime for concurrent use of a map
  db,        \* the connection: whose file, and whether it is open
  req, at, queue,           \* sync: request, control point, what is left of it
  chan, cursor, msgs,       \* syncChannel: channel, page, messages left of it
  visited,                  \* StartSyncURLs: threads seen
  rows, json, files,        \* what the sync has stored, and written
  done, hurt,               \* history: what ended, and where an error was swallowed
  logins, syncs, limits     \* bounded counts

syncVars == <<req, queue, chan, cursor, msgs, visited, rows, json, files, done, hurt>>
counts == <<logins, syncs, limits>>
vars == <<ui, tasks, names, shown, crashed, db, at, syncVars, counts>>

Fault(f) == f \in Faults

Init ==
  /\ ui = "login" /\ tasks = [t \in Tasks |-> Idle]
  /\ names = {} /\ shown = {} /\ crashed = FALSE
  /\ db \in {[dir |-> ".", open |-> TRUE]} \cup (IF Fault("start") THEN {NoDb} ELSE {})
  /\ req = NoReq /\ at = "idle" /\ queue = <<>>
  /\ chan = "-" /\ cursor = 1 /\ msgs = <<>> /\ visited = {}
  /\ rows = {} /\ json = [c \in Channels |-> NoJson] /\ files = {}
  /\ done = {} /\ hurt = {}
  /\ logins = 0 /\ syncs = 0 /\ limits = 0

-----------------------------------------------------------------------------
(* Login and the caches.                                                   *)

Start(t) == [t EXCEPT !.phase = "fetch", !.todo = {}]

\* A login that succeeds starts both prefetches; the window then asks for channels.
Login ==
  /\ ui = "login" /\ logins < MaxLogins
  /\ ui' = "listing" /\ logins' = logins + 1
  /\ tasks' = [t \in Tasks |-> IF t = Foreground \/ t[2] = logins + 1 THEN Start(tasks[t])
                               ELSE tasks[t]]
  /\ UNCHANGED <<names, shown, crashed, db, at, syncVars, syncs, limits>>

\* The API answers a task of GetChannels or fetchAllUsers, or the call fails.
Fetched(t) ==
  /\ tasks[t].phase = "fetch"
  /\ \/ \E got \in (IF t[1] = "names" THEN Listings ELSE {{"users"}}) :
          /\ tasks' = [tasks EXCEPT ![t] = [phase |-> IF got = {} THEN "done" ELSE "write",
                                            todo |-> got]]
          /\ shown' = IF t = Foreground /\ ui = "listing" THEN got ELSE shown
     \/ /\ Fault("list")
        /\ tasks' = [tasks EXCEPT ![t].phase = "failed"]
        /\ UNCHANGED shown
  /\ UNCHANGED <<ui, names, crashed, db, at, syncVars, counts>>

\* One of the tasks among others is writing the map.
Writing(map, others) == \E t \in others : t[1] = map /\ tasks[t].phase = "write"

\* One assignment to a cache.
WriteEntry(t) ==
  /\ tasks[t].phase = "write"
  /\ \/ \E c \in tasks[t].todo :
          /\ names' = IF t[1] = "names" THEN names \cup {c} ELSE names
          /\ tasks' = [tasks EXCEPT ![t] =
                         [phase |-> IF @.todo = {c} THEN "done" ELSE "write",
                          todo |-> @.todo \ {c}]]
          /\ UNCHANGED crashed
     \/ /\ Writing(t[1], Tasks \ {t})
        /\ crashed' = TRUE
        /\ UNCHANGED <<names, tasks>>
  /\ UNCHANGED <<ui, shown, db, at, syncVars, counts>>

\* Mutation of ListReturns: the window does not await the list of channels.
ListNotAwaited ==
  /\ ui = "listing"
  /\ ui' = "dashboard"
  /\ UNCHANGED <<tasks, names, shown, crashed, db, at, syncVars, counts>>

\* await getChannels() in handleLogin
ListReturns ==
  /\ ui = "listing"
  /\ \/ tasks[Foreground].phase = "done" /\ ui' = "dashboard"
     \/ tasks[Foreground].phase = "failed" /\ ui' = "login"
  /\ UNCHANGED <<tasks, names, shown, crashed, db, at, syncVars, counts>>

-----------------------------------------------------------------------------
(* A sync: StartSync or StartSyncURLs.                                     *)

\* The button is disabled while a sync is running; channels are picked from the list.
HandleSync(r) ==
  /\ ui = "dashboard" /\ syncs < MaxSyncs
  /\ r.mode = "channel" => \A i \in DOMAIN r.what : r.what[i].chan \in shown
  /\ ui' = "syncing" /\ at' = "setup" /\ syncs' = syncs + 1
  /\ req' = r /\ queue' = r.what
  /\ visited' = {} /\ done' = {} /\ hurt' = {}
  /\ rows' = {} /\ files' = {} /\ json' = [c \in Channels |-> NoJson]
  /\ UNCHANGED <<tasks, names, shown, crashed, db, chan, cursor, msgs, logins, limits>>

\* setupDB: the connection is closed before the new file is opened, and stays in place,
\* closed, when that fails.
SetupDB ==
  /\ at = "setup"
  /\ \/ "sqlite" \notin req.formats /\ at' = "cache" /\ UNCHANGED <<ui, db>>
     \/ /\ "sqlite" \in req.formats
        /\ db' = [dir |-> req.dir, open |-> TRUE] /\ at' = "cache" /\ UNCHANGED ui
     \/ /\ "sqlite" \in req.formats /\ Fault("switch")
        /\ db' = [db EXCEPT !.open = FALSE] /\ at' = "idle" /\ ui' = "dashboard"
  /\ UNCHANGED <<tasks, names, shown, crashed, syncVars, counts>>

\* The cache of names is filled if it is empty, whatever comes of it.
FillCache ==
  /\ at = "cache"
  /\ IF names # {} THEN at' = "next" /\ UNCHANGED tasks
     ELSE at' = "listing" /\ tasks' = [tasks EXCEPT ![Foreground] = Start(@)]
  /\ UNCHANGED <<ui, names, shown, crashed, db, syncVars, counts>>

CacheFilled ==
  /\ at = "listing" /\ tasks[Foreground].phase \in {"done", "failed"}
  /\ at' = "next"
  /\ UNCHANGED <<ui, tasks, names, shown, crashed, db, syncVars, counts>>

\* syncChannel up to its loop: the directory, and the JSON file if it is asked for
BeginChannel ==
  /\ at = "next" /\ req.mode = "channel" /\ queue # <<>>
  /\ queue' = Tail(queue)
  /\ \/ Fault("dir") /\ UNCHANGED <<at, chan, cursor, json, hurt>>
     \/ /\ chan' = Head(queue).chan /\ cursor' = 1 /\ at' = "page"
        /\ \/ /\ "json" \in req.formats
              /\ json' = [json EXCEPT ![Head(queue).chan] = [state |-> "open", has |-> {}]]
              /\ UNCHANGED hurt
           \/ /\ "json" \in req.formats /\ Fault("json")
              /\ hurt' = hurt \cup {Head(queue)} /\ UNCHANGED json
           \/ "json" \notin req.formats /\ UNCHANGED <<json, hurt>>
  /\ UNCHANGED <<ui, tasks, names, shown, crashed, db, req, msgs, visited, rows, files,
                 done, counts>>

\* The page of the next attempt after a rate-limited one.
\* Mutation of AfterLimit: the cursor has moved on.
NextPageAfterLimit(p) == IF p < Len(Pages[chan]) THEN p + 1 ELSE p
AfterLimit(p) == p

\* A page of the history: it arrives, is rate limited, or ends the channel (for
\* history behind a paid plan without an error).
FetchPage ==
  /\ at = "page"
  /\ \/ /\ msgs' = Pages[chan][cursor] /\ at' = "message"
        /\ UNCHANGED <<cursor, limits>>
     \/ /\ Fault("limit") /\ limits < MaxLimits
        /\ limits' = limits + 1 /\ cursor' = AfterLimit(cursor)
        /\ UNCHANGED <<msgs, at>>
     \/ Fault("history") /\ at' = "next" /\ UNCHANGED <<cursor, limits, msgs>>
  /\ UNCHANGED <<ui, tasks, names, shown, crashed, db, req, queue, chan, visited, rows,
                 json, files, done, hurt, logins, syncs>>

\* The thread of m as fetchReplies returns it when nothing fails; a rate-limited call is
\* repeated with the same cursor.
ThreadOf(m) == {m} \cup Replies[m]

\* What saveMessagesToDB may store of ms: its errors are dropped, and a closed
\* connection stores nothing.
Stored(ms) ==
  IF ~db.open THEN {{}} ELSE IF Fault("save") THEN SUBSET ms ELSE {ms}

\* saveThreadFiles: the file of the thread replaces one of the same name.
WriteFile(c, root, ms) ==
  LET named == c \in names
      same == {f \in files : f.chan = c /\ f.named = named /\ f.base = Base[root]}
  IN (files \ same) \cup {[chan |-> c, named |-> named, base |-> Base[root],
                           root |-> root, has |-> ms]}

\* The messages ms of a thread, fetched in whole or not, go to the database, to the
\* JSON file and to the file of the thread; errors are dropped.
Save(target, root, ms, whole) ==
  LET c == target.chan IN
  \E stored \in Stored(ms), ok \in {TRUE} \cup (IF Fault("file") THEN {FALSE} ELSE {}) :
    /\ rows' = rows \cup stored
    /\ json' = IF json[c].state = "open" THEN [json EXCEPT ![c].has = @ \cup ms] ELSE json
    /\ files' = IF ok /\ "file" \in req.formats THEN WriteFile(c, root, ms) ELSE files
    /\ hurt' = IF whole /\ ok /\ (db = NoDb \/ stored = ms) THEN hurt
               ELSE hurt \cup {target}

\* saveThreadFiles looks channel names up, and the writers of the files users.
MapInUse ==
  Writing("names", Tasks) \/ ("file" \in req.formats /\ Writing("users", Tasks))

NextMessage ==
  /\ at = "message" /\ msgs # <<>>
  /\ LET m == Head(msgs) IN
     \/ /\ m \in Joins
        /\ msgs' = Tail(msgs) /\ UNCHANGED <<rows, json, files, hurt, crashed>>
     \/ /\ m \notin Joins
        /\ Save(Whole(chan), m, ThreadOf(m), TRUE)
        /\ msgs' = Tail(msgs) /\ UNCHANGED crashed
     \/ /\ m \notin Joins /\ Replies[m] # {} /\ Fault("replies")
        /\ Save(Whole(chan), m, {m}, FALSE)
        /\ msgs' = Tail(msgs) /\ UNCHANGED crashed
     \/ /\ m \notin Joins /\ MapInUse
        /\ crashed' = TRUE /\ UNCHANGED <<msgs, rows, json, files, hurt>>
  /\ UNCHANGED <<ui, tasks, names, shown, db, at, req, queue, chan, cursor, visited, done,
                 counts>>

\* The cursor of the response names the next page.
SameCursor(p) == p                       \* mutations of NextCursor
SkippedCursor(p) == p + 2
NextCursor(p) == p + 1

EndPage ==
  /\ at = "message" /\ msgs = <<>>
  /\ IF cursor < Len(Pages[chan])
     THEN cursor' = NextCursor(cursor) /\ at' = "page" /\ UNCHANGED <<json, done>>
     ELSE /\ at' = "next" /\ done' = done \cup {Whole(chan)}
          /\ json' = IF json[chan].state = "open" THEN [json EXCEPT ![chan].state = "closed"]
                     ELSE json
          /\ UNCHANGED cursor
  /\ UNCHANGED <<ui, tasks, names, shown, crashed, db, req, queue, chan, msgs, visited, rows,
                 files, hurt, counts>>

\* One link of StartSyncURLs: the whole thread or nothing; links that cannot be read,
\* repeat or fail are skipped.
NextUrl ==
  /\ at = "next" /\ req.mode = "url" /\ queue # <<>>
  /\ LET u == Head(queue) IN
     \/ /\ u = BadLink \/ u \in visited
        /\ queue' = Tail(queue) /\ UNCHANGED <<visited, rows, json, files, hurt, done, crashed>>
     \/ /\ u # BadLink /\ u \notin visited /\ Fault("replies")
        /\ queue' = Tail(queue) /\ visited' = visited \cup {u}
        /\ UNCHANGED <<rows, json, files, hurt, done, crashed>>
     \/ /\ u # BadLink /\ u \notin visited
        /\ Save(u, u.root, ThreadOf(u.root), TRUE)
        /\ queue' = Tail(queue) /\ visited' = visited \cup {u} /\ done' = done \cup {u}
        /\ UNCHANGED crashed
     \/ /\ u # BadLink /\ u \notin visited /\ MapInUse
        /\ crashed' = TRUE /\ UNCHANGED <<queue, visited, rows, json, files, hurt, done>>
  /\ UNCHANGED <<ui, tasks, names, shown, db, at, req, chan, cursor, msgs, counts>>

\* The sync returns nil, whatever its channels and links met.
EndSync ==
  /\ at = "next" /\ queue = <<>>
  /\ at' = "idle" /\ ui' = "dashboard"
  /\ UNCHANGED <<tasks, names, shown, crashed, db, syncVars, counts>>

-----------------------------------------------------------------------------

Sync ==
  \/ SetupDB \/ FillCache \/ CacheFilled \/ BeginChannel \/ FetchPage
  \/ NextMessage \/ EndPage \/ NextUrl \/ EndSync

Next ==
  /\ ~crashed
  /\ \/ Login \/ ListReturns \/ Sync
     \/ \E t \in Tasks : Fetched(t) \/ WriteEntry(t)
     \/ \E r \in Requests : HandleSync(r)

Spec == Init /\ [][Next]_vars

\* Goroutines run and API calls return; rate limits do not last for ever (MaxLimits).
\* Nothing is assumed of the user.
Fairness ==
  /\ WF_vars(~crashed /\ Sync)
  /\ \A t \in Tasks : WF_vars(~crashed /\ (Fetched(t) \/ WriteEntry(t)))

FairSpec == Spec /\ Fairness

-----------------------------------------------------------------------------
(* Properties.                                                             *)

\* Every variable has its type; the page a channel is at exists.
TypeOK ==
  /\ ui \in {"login", "listing", "dashboard", "syncing"}
  /\ tasks \in [Tasks -> [phase : {"idle", "fetch", "write", "done", "failed"},
                          todo : SUBSET (Channels \cup {"users"})]]
  /\ names \subseteq Channels /\ shown \subseteq Channels /\ crashed \in BOOLEAN
  /\ db \in [dir : Dirs, open : BOOLEAN] \cup {NoDb}
  /\ req \in Requests \cup {NoReq}
  /\ at \in {"idle", "setup", "cache", "listing", "next", "page", "message"}
  /\ ui = "syncing" <=> at # "idle"
  /\ chan \in Channels \cup {"-"}
  /\ chan \in Channels => cursor \in 1..Len(Pages[chan])
  /\ msgs \in Seq(Messages)
  /\ rows \subseteq Messages
  /\ json \in [Channels -> [state : {"none", "open", "closed"}, has : SUBSET Messages]]
  /\ logins \in 0..MaxLogins /\ syncs \in 0..MaxSyncs /\ limits \in 0..MaxLimits

\* The thread of root is in the database, if there is one, and in a file, unless
\* another thread of the channel has the same file name.
ThreadKept(c, root) ==
  LET ms == ThreadOf(root) IN
  /\ db # NoDb => ms \subseteq rows
  /\ "file" \in req.formats =>
       \E f \in files : f.chan = c /\ f.base = Base[root] /\ (f.root = root => f.has = ms)

\* A channel whose sync met no error, and a link that was followed, is kept whole: all
\* pages, all replies, in each of the places asked for, through rate limits, page
\* boundaries, skipped messages and failures of its neighbours; the JSON file is closed.
KeptWhole ==
  /\ \A c \in Channels : Whole(c) \in done \ hurt =>
       LET roots == (UNION {{Pages[c][p][i] : i \in DOMAIN Pages[c][p]} : p \in DOMAIN Pages[c]})
                      \ Joins
       IN \A m \in roots :
            /\ ThreadKept(c, m)
            /\ "json" \in req.formats =>
                 json[c].state = "closed" /\ ThreadOf(m) \subseteq json[c].has
  /\ \A u \in done \ hurt : u.root # "-" => ThreadKept(u.chan, u.root)

\* The maps are safe among the foreground calls, which the window makes one at a time:
\* the process is aborted only while a prefetch of Login is writing.
CrashNeedsPrefetch == crashed => \E t \in Background : tasks[t].phase = "write"

\* A sync returns to the window whatever fails in it, unless the process is aborted.
SyncReturns == (ui = "syncing") ~> (ui # "syncing" \/ crashed)
=============================================================================
