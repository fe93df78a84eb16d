------------------------------ MODULE Host_proofs ------------------------------
(***************************************************************************)
(* Proofs about what outlives a single run, for any channels, requests,    *)
(* processes, credentials and faults.  The desktop application: what the   *)
(* race on its caches needs, and that a sync keeps what it has met no      *)
(* error with.  The workspaces: a command works in the one that was        *)
(* chosen.  The login: what each point of it knows of the credentials at   *)
(* hand.  Then the four together, with the archive of Archive_proofs.      *)
(***************************************************************************)
EXTENDS MCHost, TLAPS

AP == INSTANCE Archive_proofs

-----------------------------------------------------------------------------
(* The race.  The one foreground writer runs while the window waits for it *)
(* or while the sync does, so it never meets the sync at a map.            *)

Phases == {"idle", "fetch", "write", "done", "failed"}

Calls ==
  /\ tasks \in [Tasks -> [phase : Phases, todo : SUBSET (Channels \cup {"users"})]]
  /\ at # "idle" => ui = "syncing"
  /\ tasks[Foreground].phase \in {"fetch", "write"} => ui = "listing" \/ at = "listing"
  /\ CrashNeedsPrefetch

\* A listed entry is of a channel, or the users.
LEMMA ListedTypes ==
  ASSUME NEW t, NEW got \in (IF t[1] = "names" THEN Listings ELSE {{"users"}})
  PROVE  got \in SUBSET (Channels \cup {"users"})
BY GuiAssumption

LEMMA ForegroundApart == Foreground \in Tasks /\ Foreground \notin Background /\ Tasks \ {Foreground} \subseteq Background
BY GuiAssumption DEF Foreground, Tasks, Background

LEMMA InitCalls == Init => Calls
BY ForegroundApart DEF Init, Calls, Idle, Phases, CrashNeedsPrefetch

LEMMA StepCalls == ASSUME Calls, [Next]_vars PROVE Calls'
<1> USE ForegroundApart DEF Calls, CrashNeedsPrefetch, Phases
<1>1. CASE UNCHANGED vars
  BY <1>1 DEF vars
<1> SUFFICES ASSUME Next PROVE Calls'
  BY <1>1
<1>2. ~crashed
  BY DEF Next
<1>3. CASE Login
  BY <1>2, <1>3 DEF Login, Start
<1>4. CASE ListReturns
  BY <1>2, <1>4 DEF ListReturns
<1>5. ASSUME NEW t \in Tasks, Fetched(t) PROVE Calls'
  <2>1. CASE /\ tasks[t].phase = "fetch" /\ Fault("list")
             /\ tasks' = [tasks EXCEPT ![t].phase = "failed"] /\ UNCHANGED <<ui, at, crashed>>
    BY <1>2, <2>1
  <2>2. ASSUME NEW got \in (IF t[1] = "names" THEN Listings ELSE {{"users"}}), tasks[t].phase = "fetch",
               tasks' = [tasks EXCEPT ![t] = [phase |-> IF got = {} THEN "done" ELSE "write", todo |-> got]],
               UNCHANGED <<ui, at, crashed>>
        PROVE  Calls'
    <3>1. got \in SUBSET (Channels \cup {"users"})
      BY ListedTypes
    <3> QED
      BY <1>2, <2>2, <3>1
  <2> QED
    BY <1>5, <2>1, <2>2 DEF Fetched
<1>6. ASSUME NEW t \in Tasks, WriteEntry(t) PROVE Calls'
  <2>1. CASE /\ Writing(t[1], Tasks \ {t}) /\ crashed' = TRUE /\ UNCHANGED tasks
    <3>1. PICK u \in Tasks \ {t} : tasks[u].phase = "write"
      BY <2>1 DEF Writing
    <3>2. tasks[t].phase = "write" /\ UNCHANGED <<ui, at>>
      BY <1>6 DEF WriteEntry
    <3>3. t \in Background \/ u \in Background
      BY <3>1
    <3> QED
      BY <2>1, <3>1, <3>2, <3>3
  <2>2. ASSUME NEW c \in tasks[t].todo, UNCHANGED crashed,
               tasks' = [tasks EXCEPT ![t] = [phase |-> IF @.todo = {c} THEN "done" ELSE "write",
                                              todo |-> @.todo \ {c}]]
        PROVE  Calls'
    <3>1. tasks[t].phase = "write" /\ UNCHANGED <<ui, at>>
      BY <1>6 DEF WriteEntry
    <3> QED
      BY <1>2, <2>2, <3>1
  <2> QED
    BY <1>6, <2>1, <2>2 DEF WriteEntry
<1>7. ASSUME NEW r \in Requests, HandleSync(r) PROVE Calls'
  BY <1>2, <1>7 DEF HandleSync
<1>8. CASE SetupDB
  BY <1>2, <1>8 DEF SetupDB
<1>9. CASE FillCache
  BY <1>2, <1>9 DEF FillCache, Start
<1>10. CASE CacheFilled
  BY <1>2, <1>10 DEF CacheFilled
<1>11. CASE BeginChannel
  BY <1>2, <1>11 DEF BeginChannel
<1>12. CASE FetchPage
  BY <1>2, <1>12 DEF FetchPage
<1>13. MapInUse /\ at \in {"next", "message"} => \E t \in Background : tasks[t].phase = "write"
  BY DEF MapInUse, Writing
<1>14. CASE NextMessage
  <2>1. at = "message" /\ UNCHANGED <<ui, tasks, at>> /\ (UNCHANGED crashed \/ MapInUse)
    BY <1>14 DEF NextMessage
  <2> QED
    BY <1>2, <1>13, <2>1
<1>15. CASE EndPage
  BY <1>2, <1>15 DEF EndPage
<1>16. CASE NextUrl
  <2>1. at = "next" /\ UNCHANGED <<ui, tasks, at>> /\ (UNCHANGED crashed \/ MapInUse)
    BY <1>16 DEF NextUrl
  <2> QED
    BY <1>2, <1>13, <2>1
<1>17. CASE EndSync
  BY <1>2, <1>17 DEF EndSync
<1> QED
  BY <1>3, <1>4, <1>5, <1>6, <1>7, <1>8, <1>9, <1>10, <1>11, <1>12, <1>14, <1>15, <1>16, <1>17 DEF Next, Sync

\* For any workspace, number of logins and faults: the process is aborted for concurrent use of a map
\* only while a prefetch of Login is writing it; the calls of the window never meet each other there.
THEOREM CrashTakesPrefetch == Spec => []CrashNeedsPrefetch
<1>1. Calls => CrashNeedsPrefetch
  BY DEF Calls
<1>2. Calls /\ [Next]_vars => Calls'
  BY StepCalls
<1> QED
  BY <1>1, <1>2, InitCalls, PTL DEF Spec

-----------------------------------------------------------------------------
(* What a sync keeps.                                                      *)

In(s, x) == \E i \in 1..Len(s) : s[i] = x
Distinct(s) == \A i, j \in 1..Len(s) : s[i] = s[j] => i = j

LEMMA InTail ==
  ASSUME NEW S, NEW s \in Seq(S), s # <<>>
  PROVE  /\ Head(s) \in S /\ Tail(s) \in Seq(S) /\ In(s, Head(s))
         /\ \A x : In(s, x) => In(Tail(s), x) \/ x = Head(s)
         /\ \A x : In(Tail(s), x) => In(s, x)
         /\ Distinct(s) => Distinct(Tail(s)) /\ ~In(Tail(s), Head(s))
<1>1. /\ Head(s) = s[1] /\ s[1] \in S /\ Tail(s) \in Seq(S)
      /\ Len(s) \in Nat \ {0} /\ Len(Tail(s)) = Len(s) - 1
      /\ \A i \in 1..Len(s) - 1 : Tail(s)[i] = s[i + 1]
  OBVIOUS
<1>2. ASSUME NEW x, In(s, x) PROVE In(Tail(s), x) \/ x = Head(s)
  <2>1. PICK i \in 1..Len(s) : s[i] = x
    BY <1>2 DEF In
  <2>2. CASE i # 1
    <3>1. i - 1 \in 1..Len(Tail(s)) /\ Tail(s)[i - 1] = x
      BY <1>1, <2>1, <2>2
    <3> QED
      BY <3>1 DEF In
  <2> QED
    BY <1>1, <2>1, <2>2
<1>3. ASSUME NEW x, In(Tail(s), x) PROVE In(s, x)
  <2>1. PICK i \in 1..Len(Tail(s)) : Tail(s)[i] = x
    BY <1>3 DEF In
  <2>2. i + 1 \in 1..Len(s) /\ s[i + 1] = x
    BY <1>1, <2>1
  <2> QED
    BY <2>2 DEF In
<1>4. ASSUME Distinct(s) PROVE Distinct(Tail(s)) /\ ~In(Tail(s), Head(s))
  <2>1. \A i \in 1..Len(Tail(s)) : i + 1 \in 1..Len(s) /\ i + 1 # 1 /\ Tail(s)[i] = s[i + 1]
    BY <1>1
  <2>2. \A i, j \in 1..Len(Tail(s)) : Tail(s)[i] = Tail(s)[j] => i + 1 = j + 1
    BY <1>4, <2>1 DEF Distinct
  <2>3. \A i \in 1..Len(Tail(s)) : Tail(s)[i] # Head(s)
    BY <1>1, <1>4, <2>1 DEF Distinct
  <2> QED
    BY <1>1, <2>2, <2>3 DEF Distinct, In
<1> QED
  BY <1>1, <1>2, <1>3, <1>4 DEF In

LEMMA InEmpty == \A x : ~In(<<>>, x)
BY DEF In

\* The thread of m is wherever it was asked for.
Wanted(c, m) == ThreadKept(c, m) /\ ("json" \in req.formats => ThreadOf(m) \subseteq json[c].has)

Message(c, p, i) == Pages[c][p][i]
AllWanted(c) ==
  \A p \in 1..Len(Pages[c]) : \A i \in 1..Len(Pages[c][p]) :
    Message(c, p, i) \notin Joins => Wanted(c, Message(c, p, i))

\* KeptWhole, and the file closed of a channel without messages too.
Kept ==
  /\ \A c \in Channels : Whole(c) \in done \ hurt =>
       AllWanted(c) /\ ("json" \in req.formats => json[c].state = "closed")
  /\ \A u \in done \ hurt : u.root # "-" => ThreadKept(u.chan, u.root)

JsonOK == json \in [Channels -> [state : {"none", "open", "closed"}, has : SUBSET Messages]]

Fetching == at \in {"page", "message"}

\* Types, and what is at hand in each kind of sync.
SyncTypes ==
  /\ at \in {"idle", "setup", "cache", "listing", "next", "page", "message"}
  /\ at # "idle" => req \in Requests
  /\ queue \in Seq(Target)
  /\ \A x : In(queue, x) => (req.mode = "channel" <=> x.root = "-" /\ x # BadLink)
  /\ JsonOK
  /\ at \in {"setup", "cache", "listing"} => done = {}
  /\ Fetching => req.mode = "channel" /\ chan \in Channels /\ cursor \in 1..Len(Pages[chan])
  /\ at = "message" => msgs \in Seq(Messages)
  /\ req.mode = "channel" => \A u \in done : u.root = "-"

\* A channel is synced once.
Once ==
  req.mode = "channel" =>
    /\ Distinct(queue)
    /\ \A u \in done : ~In(queue, u)
    /\ Fetching => ~In(queue, Whole(chan)) /\ Whole(chan) \notin done

\* What has been passed of the channel that is being synced is kept, unless an error was met.
Progress ==
  Fetching /\ Whole(chan) \notin hurt =>
    /\ "json" \in req.formats => json[chan].state = "open"
    /\ \A p \in 1..cursor - 1 : \A i \in 1..Len(Pages[chan][p]) :
         Message(chan, p, i) \notin Joins => Wanted(chan, Message(chan, p, i))
    /\ at = "message" => \A i \in 1..Len(Pages[chan][cursor]) :
         LET m == Message(chan, cursor, i) IN m \notin Joins => Wanted(chan, m) \/ In(msgs, m)

KInv == SyncTypes /\ Once /\ Progress /\ Kept

LEMMA KeptEnough == ASSUME Kept PROVE KeptWhole
<1>1. ASSUME NEW c \in Channels, Whole(c) \in done \ hurt,
             NEW p \in DOMAIN Pages[c], NEW i \in DOMAIN Pages[c][p], Pages[c][p][i] \notin Joins
      PROVE  /\ ThreadKept(c, Pages[c][p][i])
             /\ "json" \in req.formats =>
                  json[c].state = "closed" /\ ThreadOf(Pages[c][p][i]) \subseteq json[c].has
  <2>1. DOMAIN Pages[c] = 1..Len(Pages[c]) /\ Pages[c][p] \in Seq(Messages)
    BY GuiAssumption
  <2>2. DOMAIN Pages[c][p] = 1..Len(Pages[c][p])
    BY <2>1
  <2> QED
    BY <1>1, <2>1, <2>2 DEF Kept, AllWanted, Wanted, Message
<1>2. \A u \in done \ hurt : u.root # "-" => ThreadKept(u.chan, u.root)
  BY DEF Kept
<1>3. ASSUME NEW c \in Channels, Whole(c) \in done \ hurt,
             NEW m \in (UNION {{Pages[c][p][i] : i \in DOMAIN Pages[c][p]} : p \in DOMAIN Pages[c]}) \ Joins
      PROVE  /\ ThreadKept(c, m)
             /\ "json" \in req.formats => json[c].state = "closed" /\ ThreadOf(m) \subseteq json[c].has
  <2>1. PICK p \in DOMAIN Pages[c] : m \in {Pages[c][p][i] : i \in DOMAIN Pages[c][p]}
    OBVIOUS
  <2>2. PICK i \in DOMAIN Pages[c][p] : m = Pages[c][p][i]
    BY <2>1
  <2>3. m \notin Joins
    BY <1>3
  <2>4. /\ ThreadKept(c, Pages[c][p][i])
        /\ "json" \in req.formats =>
             json[c].state = "closed" /\ ThreadOf(Pages[c][p][i]) \subseteq json[c].has
    BY <1>1, <1>3, <2>1, <2>2, <2>3
  <2> QED
    BY <2>2, <2>4
<1> QED
  BY <1>2, <1>3, Zenon DEF KeptWhole

LEMMA InitKept == Init => KInv
<1> SUFFICES ASSUME Init PROVE KInv
  OBVIOUS
<1>1. /\ at = "idle" /\ queue = <<>> /\ done = {} /\ req.mode = "none"
      /\ json = [c \in Channels |-> NoJson]
  BY DEF Init, NoReq
<1>2. JsonOK
  BY <1>1 DEF JsonOK, NoJson
<1> QED
  BY <1>1, <1>2, InEmpty DEF KInv, SyncTypes, Once, Progress, Kept, Fetching

\* A step outside of the sync.
LEMMA OtherStep == ASSUME KInv, UNCHANGED <<db, at, syncVars>> PROVE KInv'
BY DEF KInv, SyncTypes, Once, Progress, Kept, Fetching, JsonOK, syncVars, AllWanted, Wanted, ThreadKept

\* What Save does: nothing that is kept is lost except the thread that is replaced by a part of it,
\* and the thread is kept or the error remembered.
LEMMA SaveKeeps ==
  ASSUME JsonOK, NEW target, target.chan \in Channels, NEW root, NEW ms \in SUBSET Messages,
         NEW whole \in BOOLEAN, Save(target, root, ms, whole), UNCHANGED <<db, req>>,
         whole => ms = ThreadOf(root)
  PROVE  /\ JsonOK'
         /\ \A c \in Channels : json'[c].state = json[c].state /\ json[c].has \subseteq json'[c].has
         /\ (hurt' = hurt \/ hurt' = hurt \cup {target})
         /\ \A c, m : ThreadKept(c, m) => ThreadKept(c, m)' \/ (~whole /\ c = target.chan)
         /\ target \in hurt' \/
              /\ whole /\ ThreadKept(target.chan, root)'
              /\ json[target.chan].state = "open" => ms \subseteq json'[target.chan].has
<1>1. PICK held \in Stored(ms), ok \in BOOLEAN :
        /\ rows' = rows \cup held
        /\ json' = IF json[target.chan].state = "open"
                   THEN [json EXCEPT ![target.chan].has = @ \cup ms] ELSE json
        /\ files' = IF ok /\ "file" \in req.formats THEN WriteFile(target.chan, root, ms) ELSE files
        /\ hurt' = IF whole /\ ok /\ (db = NoDb \/ held = ms) THEN hurt ELSE hurt \cup {target}
  BY DEF Save
<1>2. /\ JsonOK'
      /\ \A c \in Channels : json'[c].state = json[c].state /\ json[c].has \subseteq json'[c].has
      /\ json[target.chan].state = "open" => ms \subseteq json'[target.chan].has
  BY <1>1 DEF JsonOK
<1>3. \A f \in files : f \in files' \/ \E g \in files' :
        /\ f.chan = target.chan /\ f.base = Base[root]
        /\ g.chan = target.chan /\ g.base = Base[root] /\ g.root = root /\ g.has = ms
  <2>1. CASE ok /\ "file" \in req.formats
    <3> DEFINE named == target.chan \in names
               new == [chan |-> target.chan, named |-> named, base |-> Base[root], root |-> root, has |-> ms]
               same == {f \in files : f.chan = target.chan /\ f.named = named /\ f.base = Base[root]}
    <3>1. files' = (files \ same) \cup {new}
      BY <1>1, <2>1 DEF WriteFile
    <3>2. /\ new.chan = target.chan /\ new.base = Base[root] /\ new.root = root /\ new.has = ms
          /\ new \in files'
      BY <3>1
    <3> QED
      BY <3>1, <3>2
  <2>2. CASE ~(ok /\ "file" \in req.formats)
    BY <1>1, <2>2
  <2> QED
    BY <2>1, <2>2
<1>4. ASSUME NEW c, NEW m, ThreadKept(c, m), whole \/ c # target.chan PROVE ThreadKept(c, m)'
  <2>1. db' # NoDb => ThreadOf(m) \subseteq rows'
    BY <1>1, <1>4 DEF ThreadKept
  <2>2. ASSUME "file" \in req.formats
        PROVE  \E g \in files' : g.chan = c /\ g.base = Base[m] /\ (g.root = m => g.has = ThreadOf(m))
    <3>1. PICK f \in files : f.chan = c /\ f.base = Base[m] /\ (f.root = m => f.has = ThreadOf(m))
      BY <1>4, <2>2 DEF ThreadKept
    <3>2. CASE f \in files'
      BY <3>1, <3>2
    <3>3. CASE f \notin files'
      <4>1. PICK g \in files' : /\ f.chan = target.chan /\ f.base = Base[root]
                                /\ g.chan = target.chan /\ g.base = Base[root]
                                /\ g.root = root /\ g.has = ms
        BY <1>3, <3>3
      <4>2. g.root = m => g.has = ThreadOf(m)
        BY <1>4, <3>1, <4>1
      <4> QED
        BY <3>1, <4>1, <4>2
    <3> QED
      BY <3>2, <3>3
  <2> QED
    BY <2>1, <2>2 DEF ThreadKept, ThreadOf
<1>5. ASSUME target \notin hurt' PROVE whole /\ ThreadKept(target.chan, root)'
  <2>1. whole /\ ok /\ (db = NoDb \/ held = ms) /\ ms = ThreadOf(root)
    BY <1>1, <1>5
  <2>2. db' # NoDb => ThreadOf(root) \subseteq rows'
    BY <1>1, <2>1
  <2>3. ASSUME "file" \in req.formats
        PROVE  \E g \in files' : g.chan = target.chan /\ g.base = Base[root] /\ g.has = ThreadOf(root)
    <3> DEFINE new == [chan |-> target.chan, named |-> target.chan \in names, base |-> Base[root],
                       root |-> root, has |-> ms]
    <3>1. new \in files'
      BY <1>1, <2>1, <2>3 DEF WriteFile
    <3>2. new.chan = target.chan /\ new.base = Base[root] /\ new.has = ms
      OBVIOUS
    <3> QED
      BY <2>1, <3>1, <3>2
  <2> QED
    BY <2>1, <2>2, <2>3 DEF ThreadKept, ThreadOf
<1> QED
  BY <1>1, <1>2, <1>4, <1>5

\* A step that ends with no channel at hand.
LEMMA Aside ==
  ASSUME KInv, at' \in {"idle", "cache", "listing", "next"}, at' # "idle" => at # "idle",
         at' \in {"cache", "listing"} => done = {},
         UNCHANGED <<req, queue, rows, json, files, done, hurt>>, UNCHANGED db \/ done = {}
  PROVE  KInv'
<1>1. ~Fetching' /\ Progress'
  BY DEF Fetching, Progress
<1>2. SyncTypes' /\ Once'
  BY <1>1 DEF KInv, SyncTypes, Once, JsonOK, Fetching
<1>3. CASE done = {}
  BY <1>1, <1>2, <1>3 DEF KInv, Kept
<1>4. CASE UNCHANGED db
  <2>1. \A c, m : ThreadKept(c, m)' <=> ThreadKept(c, m)
    BY <1>4 DEF ThreadKept
  <2>2. Kept'
    BY <2>1 DEF KInv, Kept, AllWanted, Wanted
  <2> QED
    BY <1>1, <1>2, <2>2 DEF KInv
<1> QED
  BY <1>3, <1>4

LEMMA HandleSyncKept == ASSUME KInv, NEW r \in Requests, HandleSync(r) PROVE KInv'
<1>1. /\ at' = "setup" /\ req' = r /\ queue' = r.what /\ done' = {} /\ json' = [c \in Channels |-> NoJson]
  BY DEF HandleSync
<1>2. r.what \in Seq(Target)
  BY GuiAssumption DEF Request
<1>3. \A x : In(r.what, x) => (r.mode = "channel" <=> x.root = "-" /\ x # BadLink)
  BY <1>2, GuiAssumption DEF In
<1>4. r.mode = "channel" => Distinct(r.what)
  BY <1>2, GuiAssumption DEF Distinct
<1>5. JsonOK'
  BY <1>1 DEF JsonOK, NoJson
<1>6. ~Fetching'
  BY <1>1 DEF Fetching
<1>7. SyncTypes'
  BY <1>1, <1>2, <1>3, <1>5, <1>6 DEF SyncTypes
<1> QED
  BY <1>1, <1>4, <1>6, <1>7 DEF KInv, Once, Progress, Kept

\* The next channel or link leaves the queue.
LEMMA QueueTail ==
  ASSUME KInv, queue # <<>>
  PROVE  /\ Head(queue) \in Target /\ Tail(queue) \in Seq(Target)
         /\ req.mode = "channel" <=> Head(queue).root = "-" /\ Head(queue) # BadLink
         /\ \A x : In(Tail(queue), x) => In(queue, x)
         /\ req.mode = "channel" => /\ Distinct(Tail(queue)) /\ ~In(Tail(queue), Head(queue))
                                    /\ Head(queue) \notin done
BY InTail DEF KInv, SyncTypes, Once

LEMMA BeginChannelKept == ASSUME KInv, BeginChannel PROVE KInv'
<1> DEFINE c == Head(queue).chan
<1>1. /\ at = "next" /\ req.mode = "channel" /\ queue # <<>> /\ queue' = Tail(queue)
      /\ UNCHANGED <<db, req, msgs, rows, files, done>>
  BY DEF BeginChannel
<1>2. Head(queue) = Whole(c) /\ c \in Channels
  BY <1>1, QueueTail DEF Target, Whole, BadLink
<1>3. \A d, m : ThreadKept(d, m)' <=> ThreadKept(d, m)
  BY <1>1 DEF ThreadKept
<1>4. CASE UNCHANGED <<at, chan, cursor, json, hurt>>
  <2>1. ~Fetching' /\ SyncTypes' /\ Once'
    BY <1>1, <1>4, QueueTail DEF KInv, SyncTypes, Once, JsonOK, Fetching
  <2>2. Kept'
    BY <1>1, <1>3, <1>4 DEF KInv, Kept, AllWanted, Wanted
  <2> QED
    BY <2>1, <2>2 DEF KInv, Progress
<1>5. CASE /\ chan' = c /\ cursor' = 1 /\ at' = "page"
           /\ \/ /\ "json" \in req.formats
                 /\ json' = [json EXCEPT ![c] = [state |-> "open", has |-> {}]] /\ UNCHANGED hurt
              \/ hurt' = hurt \cup {Head(queue)} /\ UNCHANGED json
              \/ "json" \notin req.formats /\ UNCHANGED <<json, hurt>>
  <2>1. JsonOK'
    BY <1>2, <1>5 DEF KInv, SyncTypes, JsonOK
  <2>2. cursor' \in 1..Len(Pages[chan'])
    BY <1>2, <1>5, GuiAssumption
  <2>3. SyncTypes'
    BY <1>1, <1>2, <1>5, <2>1, <2>2, QueueTail DEF KInv, SyncTypes, Fetching
  <2>4. Once'
    BY <1>1, <1>2, <1>5, QueueTail DEF KInv, Once
  <2>5. Progress'
    BY <1>1, <1>2, <1>5, <2>1 DEF KInv, SyncTypes, JsonOK, Progress
  <2>6. Whole(c) \notin done /\ \A d \in Channels : Whole(d) = Whole(c) => d = c
    BY <1>1, <1>2, QueueTail DEF Whole
  <2>7. \A d \in Channels : Whole(d) \in done => json'[d] = json[d]
    BY <1>5, <2>6 DEF KInv, SyncTypes, JsonOK
  <2>8. Kept'
    BY <1>1, <1>3, <1>5, <2>7 DEF KInv, Kept, AllWanted, Wanted
  <2> QED
    BY <2>3, <2>4, <2>5, <2>8 DEF KInv
<1> QED
  BY <1>4, <1>5 DEF BeginChannel

LEMMA FetchPageKept == ASSUME KInv, FetchPage PROVE KInv'
<1>1. at = "page" /\ UNCHANGED <<db, req, queue, chan, rows, json, files, done, hurt>>
  BY DEF FetchPage
<1>2. \A c, m : Wanted(c, m)' <=> Wanted(c, m)
  BY <1>1 DEF Wanted, ThreadKept
<1>3. Kept'
  BY <1>1, <1>2 DEF KInv, Kept, AllWanted, ThreadKept
<1>4. CASE msgs' = Pages[chan][cursor] /\ at' = "message" /\ UNCHANGED cursor
  <2>1. chan \in Channels /\ cursor \in 1..Len(Pages[chan]) /\ Pages[chan][cursor] \in Seq(Messages)
    BY <1>1, GuiAssumption DEF KInv, SyncTypes, Fetching
  <2>2. SyncTypes' /\ Once'
    BY <1>1, <1>4, <2>1 DEF KInv, SyncTypes, Once, JsonOK, Fetching
  <2>3. \A i \in 1..Len(Pages[chan][cursor]) : In(msgs', Message(chan, cursor, i))
    BY <1>4 DEF In, Message
  <2>4. Progress'
    BY <1>1, <1>2, <1>4, <2>3 DEF KInv, Progress, Fetching
  <2> QED
    BY <1>3, <2>2, <2>4 DEF KInv
<1>5. CASE cursor' = AfterLimit(cursor) /\ UNCHANGED <<msgs, at>>
  <2>1. UNCHANGED <<cursor, msgs, at>>
    BY <1>5 DEF AfterLimit
  <2>2. SyncTypes' /\ Once' /\ Progress'
    BY <1>1, <1>2, <2>1 DEF KInv, SyncTypes, Once, JsonOK, Fetching, Progress
  <2> QED
    BY <1>3, <2>2 DEF KInv
<1>6. CASE at' = "next"
  BY <1>1, <1>6, Aside
<1> QED
  BY <1>4, <1>5, <1>6 DEF FetchPage

LEMMA NextMessageKept == ASSUME KInv, NextMessage PROVE KInv'
<1>1. /\ at = "message" /\ msgs # <<>>
      /\ UNCHANGED <<db, at, req, queue, chan, cursor, visited, done>>
  BY DEF NextMessage
<1>2. chan \in Channels /\ cursor \in 1..Len(Pages[chan]) /\ msgs \in Seq(Messages)
      /\ req.mode = "channel" /\ JsonOK
  BY <1>1 DEF KInv, SyncTypes, Fetching
<1>3. PICK m \in Messages : m = Head(msgs)
  BY <1>1, <1>2, InTail
<1>4. PICK c \in Channels : c = chan /\ c = chan'
  BY <1>1, <1>2
<1>5. Tail(msgs) \in Seq(Messages) /\ \A x : In(msgs, x) => In(Tail(msgs), x) \/ x = m
  BY <1>3, <1>1, <1>2, InTail
<1>6. Once'
  BY <1>1 DEF KInv, Once, Fetching
<1>7. CASE m \in Joins /\ msgs' = Tail(msgs) /\ UNCHANGED <<rows, json, files, hurt>>
  <2>1. \A d, x : Wanted(d, x)' <=> Wanted(d, x)
    BY <1>1, <1>7 DEF Wanted, ThreadKept
  <2>2. SyncTypes'
    BY <1>1, <1>5, <1>7 DEF KInv, SyncTypes, JsonOK, Fetching
  <2>3. Progress'
    BY <1>1, <1>5, <1>7, <2>1 DEF KInv, Progress, Fetching
  <2>4. Kept'
    BY <1>1, <1>7, <2>1 DEF KInv, Kept, AllWanted, ThreadKept
  <2> QED
    BY <1>6, <2>2, <2>3, <2>4 DEF KInv
<1>8. CASE UNCHANGED <<msgs, rows, json, files, hurt>>
  BY <1>1, <1>8, OtherStep DEF syncVars
<1>9. ASSUME NEW ms \in SUBSET Messages, NEW whole \in BOOLEAN, Save(Whole(c), m, ms, whole),
             whole => ms = ThreadOf(m), msgs' = Tail(msgs)
      PROVE  KInv'
  <2>0. Whole(c).chan = c
    BY DEF Whole
  <2>1. PICK target : target = Whole(c) /\ target.chan = c
    BY <2>0
  <2>2. /\ JsonOK'
        /\ \A d \in Channels : json'[d].state = json[d].state /\ json[d].has \subseteq json'[d].has
        /\ (hurt' = hurt \/ hurt' = hurt \cup {target})
        /\ \A d, x : ThreadKept(d, x) => ThreadKept(d, x)' \/ (~whole /\ d = c)
        /\ target \in hurt' \/
             /\ whole /\ ThreadKept(c, m)'
             /\ json[c].state = "open" => ms \subseteq json'[c].has
    <3>1. Save(target, m, ms, whole)
      BY <1>9, <2>1
    <3>2. target.chan \in Channels /\ JsonOK /\ (UNCHANGED <<db, req>>) /\ (whole => ms = ThreadOf(m))
      BY <1>1, <1>2, <1>9, <2>1
    <3>3. JsonOK' /\ (hurt' = hurt \/ hurt' = hurt \cup {target})
      BY <3>1, <3>2, SaveKeeps
    <3>4. \A d \in Channels : json'[d].state = json[d].state /\ json[d].has \subseteq json'[d].has
      BY <3>1, <3>2, SaveKeeps
    <3>5. \A d, x : ThreadKept(d, x) => ThreadKept(d, x)' \/ (~whole /\ d = target.chan)
      BY <3>1, <3>2, SaveKeeps
    <3>6. target \in hurt' \/
             /\ whole /\ ThreadKept(target.chan, m)'
             /\ json[target.chan].state = "open" => ms \subseteq json'[target.chan].has
      BY <3>1, <3>2, SaveKeeps
    <3> QED
      BY <2>1, <3>3, <3>4, <3>5, <3>6
  <2>3. SyncTypes'
    BY <1>1, <1>5, <1>9, <2>2 DEF KInv, SyncTypes, Fetching
  <2>4. ASSUME NEW d \in Channels, NEW x, Wanted(d, x), whole \/ d # c PROVE Wanted(d, x)'
    BY <1>1, <2>2, <2>4 DEF Wanted, ThreadOf
  <2>5. ASSUME target \notin hurt' PROVE Progress'
    <3>1. whole /\ target \notin hurt
      BY <2>2, <2>5
    <3>2. "json" \in req.formats => json[c].state = "open" /\ json'[c].state = "open"
      BY <1>1, <1>4, <2>1, <2>2, <3>1 DEF KInv, Progress, Fetching
    <3>3. Wanted(c, m)'
      BY <1>1, <1>9, <2>2, <2>5, <3>1, <3>2 DEF Wanted, ThreadOf
    <3>4. \A x : Wanted(c, x) => Wanted(c, x)'
      BY <2>4, <3>1
    <3>5. \A p \in 1..cursor - 1 : \A i \in 1..Len(Pages[c][p]) :
            Message(c, p, i) \notin Joins => Wanted(c, Message(c, p, i))'
      BY <1>1, <1>4, <2>1, <3>1, <3>4 DEF KInv, Progress, Fetching, Message
    <3>6. \A i \in 1..Len(Pages[c][cursor]) :
            Message(c, cursor, i) \notin Joins =>
              Wanted(c, Pages[c][cursor][i])' \/ In(Tail(msgs), Message(c, cursor, i))
      BY <1>1, <1>4, <1>5, <2>1, <3>1, <3>3, <3>4 DEF KInv, Progress, Fetching, Message
    <3> QED
      BY <1>1, <1>9, <1>4, <3>2, <3>5, <3>6 DEF Progress, Message
  <2>6. Progress'
    BY <1>4, <2>1, <2>5 DEF Progress
  <2>7. ASSUME NEW d \in Channels, Whole(d) \in done' \ hurt'
        PROVE  AllWanted(d)' /\ ("json" \in req'.formats => json'[d].state = "closed")
    <3>1. Whole(d) \in done \ hurt /\ d # c
      BY <1>1, <1>2, <1>4, <2>1, <2>2, <2>7 DEF KInv, Once, Fetching
    <3>2. AllWanted(d) /\ ("json" \in req.formats => json[d].state = "closed")
      BY <3>1 DEF KInv, Kept
    <3> QED
      BY <1>1, <2>2, <2>4, <3>1, <3>2 DEF AllWanted, Message
  <2>8. Kept'
    BY <1>1, <1>2, <2>7 DEF KInv, SyncTypes, Kept
  <2> QED
    BY <1>6, <2>3, <2>6, <2>8 DEF KInv
<1>10. ThreadOf(m) \in SUBSET Messages /\ {m} \in SUBSET Messages
  BY GuiAssumption DEF ThreadOf
<1> QED
  BY <1>3, <1>7, <1>8, <1>9, <1>10, <1>4 DEF NextMessage

LEMMA EndPageKept == ASSUME KInv, EndPage PROVE KInv'
<1>1. /\ at = "message" /\ msgs = <<>>
      /\ UNCHANGED <<db, req, queue, chan, msgs, rows, files, hurt>>
  BY DEF EndPage
<1>2. chan \in Channels /\ cursor \in 1..Len(Pages[chan]) /\ req.mode = "channel" /\ JsonOK
      /\ Len(Pages[chan]) \in Nat
  BY <1>1, GuiAssumption DEF KInv, SyncTypes, Fetching
<1>3. \A c, x : ThreadKept(c, x)' <=> ThreadKept(c, x)
  BY <1>1 DEF ThreadKept
<1>4. ASSUME Whole(chan) \notin hurt
      PROVE  \A p \in 1..cursor : \A i \in 1..Len(Pages[chan][p]) :
               Message(chan, p, i) \notin Joins => Wanted(chan, Message(chan, p, i))
  <2>1. \A i \in 1..Len(Pages[chan][cursor]) :
          Message(chan, cursor, i) \notin Joins => Wanted(chan, Message(chan, cursor, i))
    BY <1>1, <1>4, InEmpty DEF KInv, Progress, Fetching
  <2>2. \A p \in 1..cursor - 1 : \A i \in 1..Len(Pages[chan][p]) :
          Message(chan, p, i) \notin Joins => Wanted(chan, Message(chan, p, i))
    BY <1>1, <1>4 DEF KInv, Progress, Fetching
  <2>3. \A p \in 1..cursor : p = cursor \/ p \in 1..cursor - 1
    BY <1>2
  <2> QED
    BY <2>1, <2>2, <2>3
<1>5. CASE /\ cursor < Len(Pages[chan]) /\ cursor' = NextCursor(cursor) /\ at' = "page"
           /\ UNCHANGED <<json, done>>
  <2>1. cursor' = cursor + 1 /\ cursor' - 1 = cursor /\ cursor' \in 1..Len(Pages[chan])
    BY <1>2, <1>5 DEF NextCursor
  <2>2. \A c, x : Wanted(c, x)' <=> Wanted(c, x)
    BY <1>1, <1>3, <1>5 DEF Wanted
  <2>3. SyncTypes' /\ Once'
    BY <1>1, <1>5, <2>1 DEF KInv, SyncTypes, Once, JsonOK, Fetching
  <2>4. Progress'
    BY <1>1, <1>4, <1>5, <2>1, <2>2 DEF KInv, Progress, Fetching
  <2>5. Kept'
    BY <1>1, <1>3, <1>5, <2>2 DEF KInv, Kept, AllWanted
  <2> QED
    BY <2>3, <2>4, <2>5 DEF KInv
<1>6. CASE /\ cursor >= Len(Pages[chan]) /\ at' = "next" /\ done' = done \cup {Whole(chan)}
           /\ json' = IF json[chan].state = "open" THEN [json EXCEPT ![chan].state = "closed"] ELSE json
  <2>1. /\ JsonOK' /\ \A c \in Channels : json'[c].has = json[c].has
        /\ \A c \in Channels \ {chan} : json'[c] = json[c]
        /\ json[chan].state = "open" => json'[chan].state = "closed"
    BY <1>2, <1>6 DEF JsonOK
  <2>2. \A c \in Channels : \A x : Wanted(c, x)' <=> Wanted(c, x)
    BY <1>1, <1>3, <2>1 DEF Wanted
  <2>3. ~Fetching' /\ Progress'
    BY <1>6 DEF Fetching, Progress
  <2>4. SyncTypes'
    BY <1>1, <1>6, <2>1, <2>3 DEF KInv, SyncTypes, Whole
  <2>5. Once'
    BY <1>1, <1>6, <2>3 DEF KInv, Once, Fetching
  <2>6. cursor = Len(Pages[chan])
    BY <1>2, <1>6
  <2>7. Whole(chan) \notin hurt => AllWanted(chan)' /\ ("json" \in req.formats => json'[chan].state = "closed")
    BY <1>1, <1>2, <1>4, <2>1, <2>2, <2>6 DEF AllWanted, KInv, Progress, Fetching
  <2>8. ASSUME NEW c \in Channels, Whole(c) \in done \ hurt, c # chan
        PROVE  AllWanted(c)' /\ ("json" \in req.formats => json'[c].state = "closed")
    BY <2>1, <2>2, <2>8 DEF KInv, Kept, AllWanted
  <2>9. \A c \in Channels : Whole(c) = Whole(chan) => c = chan
    BY DEF Whole
  <2>10. Whole(chan).root = "-"
    BY DEF Whole
  <2>11. Kept'
    BY <1>1, <1>3, <1>6, <2>7, <2>8, <2>9, <2>10 DEF KInv, Kept
  <2> QED
    BY <2>3, <2>4, <2>5, <2>11 DEF KInv
<1> QED
  BY <1>2, <1>5, <1>6 DEF EndPage

LEMMA NextUrlKept == ASSUME KInv, NextUrl PROVE KInv'
<1>1. at = "next" /\ req.mode = "url" /\ queue # <<>> /\ UNCHANGED <<db, at, req, chan, cursor, msgs>>
  BY DEF NextUrl
<1>2. ~Fetching' /\ Progress'
  BY <1>1 DEF Fetching, Progress
<1>3. Once'
  BY <1>1 DEF Once
<1>4. PICK u \in Target : u = Head(queue)
  BY <1>1, QueueTail
<1>5. /\ Tail(queue) \in Seq(Target) /\ \A x : In(Tail(queue), x) => In(queue, x)
      /\ u # BadLink => u.chan \in Channels /\ u.root \in Messages /\ u.root # "-"
  BY <1>1, <1>4, QueueTail DEF Target
<1>6. CASE queue' = Tail(queue) /\ UNCHANGED <<rows, json, files, hurt, done>>
  <2>1. \A c, x : ThreadKept(c, x)' <=> ThreadKept(c, x)
    BY <1>1, <1>6 DEF ThreadKept
  <2>2. SyncTypes'
    BY <1>1, <1>2, <1>5, <1>6 DEF KInv, SyncTypes, JsonOK
  <2>3. Kept'
    BY <1>1, <1>6, <2>1 DEF KInv, Kept, AllWanted, Wanted
  <2> QED
    BY <1>2, <1>3, <2>2, <2>3 DEF KInv
<1>7. CASE /\ u # BadLink /\ Save(u, u.root, ThreadOf(u.root), TRUE)
           /\ queue' = Tail(queue) /\ done' = done \cup {u}
  <2>1. ThreadOf(u.root) \in SUBSET Messages
    BY <1>5, <1>7, GuiAssumption DEF ThreadOf
  <2>2. /\ JsonOK'
        /\ \A c \in Channels : json'[c].state = json[c].state /\ json[c].has \subseteq json'[c].has
        /\ (hurt' = hurt \/ hurt' = hurt \cup {u})
        /\ \A c, x : ThreadKept(c, x) => ThreadKept(c, x)'
        /\ u \in hurt' \/ ThreadKept(u.chan, u.root)'
    BY <1>1, <1>5, <1>7, <2>1, SaveKeeps DEF KInv, SyncTypes
  <2>3. SyncTypes'
    BY <1>1, <1>2, <1>5, <1>7, <2>2 DEF KInv, SyncTypes
  <2>4. \A c \in Channels : \A x : Wanted(c, x) => Wanted(c, x)'
    BY <1>1, <2>2 DEF Wanted, ThreadOf
  <2>5. \A c : Whole(c) # u
    BY <1>5, <1>7 DEF Whole
  <2>6. \A c \in Channels : AllWanted(c) => AllWanted(c)'
    BY <2>4 DEF AllWanted
  <2>7. Kept'
    BY <1>1, <1>7, <2>2, <2>5, <2>6 DEF KInv, Kept
  <2> QED
    BY <1>2, <1>3, <2>3, <2>7 DEF KInv
<1>8. CASE UNCHANGED <<queue, visited, rows, json, files, hurt, done>>
  BY <1>1, <1>8, OtherStep DEF syncVars
<1> QED
  BY <1>6, <1>7, <1>8, <1>4 DEF NextUrl

LEMMA StepKept == ASSUME KInv, [Next]_vars PROVE KInv'
<1>1. CASE UNCHANGED vars
  BY <1>1, OtherStep DEF vars
<1>2. CASE Login
  BY <1>2, OtherStep DEF Login
<1>3. CASE ListReturns
  BY <1>3, OtherStep DEF ListReturns
<1>4. ASSUME NEW t \in Tasks, Fetched(t) \/ WriteEntry(t) PROVE KInv'
  BY <1>4, OtherStep DEF Fetched, WriteEntry
<1>5. CASE SetupDB
  BY <1>5, Aside DEF SetupDB, KInv, SyncTypes, syncVars
<1>6. CASE FillCache
  BY <1>6, Aside DEF FillCache, KInv, SyncTypes, syncVars
<1>7. CASE CacheFilled
  BY <1>7, Aside DEF CacheFilled, KInv, SyncTypes, syncVars
<1>8. CASE EndSync
  BY <1>8, Aside DEF EndSync, KInv, SyncTypes, syncVars
<1> QED
  BY <1>1, <1>2, <1>3, <1>4, <1>5, <1>6, <1>7, <1>8, HandleSyncKept, BeginChannelKept, FetchPageKept,
     NextMessageKept, EndPageKept, NextUrlKept DEF Next, Sync

\* For any workspace, requests and faults: a channel whose sync met no error, and a link that was
\* followed without one, is kept whole in each of the places asked for, whatever happens to its
\* neighbours (app.go:362-446, 223-283).
THEOREM SyncKeepsWhole == Spec => []KeptWhole
<1>1. KInv => KeptWhole
  BY KeptEnough DEF KInv
<1>2. KInv /\ [Next]_vars => KInv'
  BY StepKept
<1> QED
  BY <1>1, <1>2, InitKept, PTL DEF Spec

-----------------------------------------------------------------------------
(* The types of the desktop application.                                   *)

\* What Calls and SyncTypes leave open.
Caches ==
  /\ ui \in {"login", "listing", "dashboard", "syncing"} /\ (ui = "syncing" => at # "idle")
  /\ \A t \in Tasks : t[1] = "names" => tasks[t].todo \subseteq Channels
  /\ names \subseteq Channels /\ shown \subseteq Channels /\ crashed \in BOOLEAN
Sizes == logins \in 0..MaxLogins /\ syncs \in 0..MaxSyncs /\ limits \in 0..MaxLimits
AtHand ==
  /\ db \in [dir : Dirs, open : BOOLEAN] \cup {NoDb}
  /\ req \in Requests \cup {NoReq}
  /\ chan \in Channels \cup {"-"} /\ (chan \in Channels => cursor \in 1..Len(Pages[chan]))
  /\ msgs \in Seq(Messages) /\ rows \subseteq Messages
Kinds == Caches /\ Sizes /\ AtHand

LEMMA InitKinds == Init => Kinds
<1> SUFFICES ASSUME Init PROVE Kinds
  OBVIOUS
<1>1. Caches
  BY DEF Init, Idle, Caches
<1>2. Sizes
  BY GuiAssumption DEF Init, Sizes
<1>3. AtHand
  <2>1. [dir |-> ".", open |-> TRUE] \in [dir : Dirs, open : BOOLEAN]
    BY GuiAssumption
  <2>2. db \in [dir : Dirs, open : BOOLEAN] \cup {NoDb}
    BY <2>1 DEF Init
  <2>3. msgs \in Seq(Messages)
    BY DEF Init
  <2>4. chan = "-" /\ cursor = 1 /\ req = NoReq /\ rows = {}
    BY DEF Init
  <2>5. chan \in Channels => cursor \in 1..Len(Pages[chan])
    BY <2>4, GuiAssumption
  <2> QED
    BY <2>2, <2>3, <2>4, <2>5 DEF AtHand
<1> QED
  BY <1>1, <1>2, <1>3 DEF Kinds

\* The caches, and whoever looks at them.
LEMMA StepCaches == ASSUME Calls, Caches, [Next]_vars PROVE Caches'
<1>1. CASE UNCHANGED vars
  BY <1>1 DEF vars, Caches
<1> SUFFICES ASSUME Next PROVE Caches'
  BY <1>1
<1>2. CASE Login
  <2>1. /\ ui' = "listing" /\ ui = "login" /\ UNCHANGED <<names, shown, crashed, at>>
        /\ tasks' = [t \in Tasks |-> IF t = Foreground \/ t[2] = logins + 1 THEN Start(tasks[t]) ELSE tasks[t]]
    BY <1>2 DEF Login
  <2>2. \A t \in Tasks : tasks'[t].todo = {} \/ tasks'[t] = tasks[t]
    BY <2>1 DEF Start, Calls
  <2> QED
    BY <2>1, <2>2 DEF Caches
<1>3. CASE ListReturns
  BY <1>3 DEF ListReturns, Caches, Calls
<1>4. ASSUME NEW t \in Tasks, Fetched(t) PROVE Caches'
  <2>1. UNCHANGED <<ui, names, crashed, at>>
    BY <1>4 DEF Fetched
  <2>2. CASE tasks' = [tasks EXCEPT ![t].phase = "failed"] /\ UNCHANGED shown
    BY <2>1, <2>2 DEF Caches, Calls
  <2>3. ASSUME NEW got \in (IF t[1] = "names" THEN Listings ELSE {{"users"}}),
               tasks' = [tasks EXCEPT ![t] = [phase |-> IF got = {} THEN "done" ELSE "write", todo |-> got]],
               shown' = IF t = Foreground /\ ui = "listing" THEN got ELSE shown
        PROVE  Caches'
    <3>1. t[1] = "names" => got \subseteq Channels
      BY GuiAssumption
    <3>2. t = Foreground => t[1] = "names"
      BY DEF Foreground
    <3>3. \A u \in Tasks : u[1] = "names" => tasks'[u].todo \subseteq Channels
      BY <2>3, <3>1 DEF Caches, Calls
    <3>4. shown' \subseteq Channels
      BY <2>3, <3>1, <3>2 DEF Caches
    <3> QED
      BY <2>1, <3>3, <3>4 DEF Caches
  <2> QED
    BY <1>4, <2>2, <2>3 DEF Fetched
<1>5. ASSUME NEW t \in Tasks, WriteEntry(t) PROVE Caches'
  <2>1. UNCHANGED <<ui, shown, at>>
    BY <1>5 DEF WriteEntry
  <2>2. CASE crashed' = TRUE /\ UNCHANGED <<names, tasks>>
    BY <2>1, <2>2 DEF Caches
  <2>3. ASSUME NEW c \in tasks[t].todo, UNCHANGED crashed,
               names' = IF t[1] = "names" THEN names \cup {c} ELSE names,
               tasks' = [tasks EXCEPT ![t] = [phase |-> IF @.todo = {c} THEN "done" ELSE "write",
                                              todo |-> @.todo \ {c}]]
        PROVE  Caches'
    <3>1. t[1] = "names" => c \in Channels
      BY DEF Caches
    <3>2. \A u \in Tasks : tasks'[u].todo \subseteq tasks[u].todo
      BY <2>3 DEF Calls
    <3>3. names' \subseteq Channels
      BY <2>3, <3>1 DEF Caches
    <3>4. \A u \in Tasks : u[1] = "names" => tasks'[u].todo \subseteq Channels
      BY <3>2 DEF Caches
    <3> QED
      BY <2>1, <2>3, <3>3, <3>4 DEF Caches
  <2> QED
    BY <1>5, <2>2, <2>3 DEF WriteEntry
<1>6. ASSUME NEW r \in Requests, HandleSync(r) PROVE Caches'
  BY <1>6 DEF HandleSync, Caches
<1>7. CASE FillCache
  <2>1. UNCHANGED <<ui, names, shown, crashed>> /\ at' # "idle"
        /\ (UNCHANGED tasks \/ tasks' = [tasks EXCEPT ![Foreground] = Start(@)])
    BY <1>7 DEF FillCache
  <2>2. \A t \in Tasks : tasks'[t].todo = {} \/ tasks'[t] = tasks[t]
    BY <2>1 DEF Start, Calls
  <2> QED
    BY <2>1, <2>2 DEF Caches
<1>8. CASE SetupDB \/ CacheFilled \/ BeginChannel \/ FetchPage \/ NextMessage \/ EndPage \/ NextUrl \/ EndSync
  <2>1. UNCHANGED <<tasks, names, shown>> /\ (UNCHANGED crashed \/ crashed' = TRUE)
    BY <1>8 DEF SetupDB, CacheFilled, BeginChannel, FetchPage, NextMessage, EndPage, NextUrl, EndSync
  <2>2. (UNCHANGED ui /\ (at' # "idle" \/ UNCHANGED at)) \/ ui' = "dashboard"
    BY <1>8 DEF SetupDB, CacheFilled, BeginChannel, FetchPage, NextMessage, EndPage, NextUrl, EndSync
  <2> QED
    BY <2>1, <2>2 DEF Caches
<1> QED
  BY <1>2, <1>3, <1>4, <1>5, <1>6, <1>7, <1>8 DEF Next, Sync

LEMMA StepSizes == ASSUME Sizes, [Next]_vars PROVE Sizes'
<1>1. CASE Login
  BY <1>1, GuiAssumption DEF Login, Sizes
<1>2. ASSUME NEW r \in Requests, HandleSync(r) PROVE Sizes'
  BY <1>2, GuiAssumption DEF HandleSync, Sizes
<1>3. CASE FetchPage
  <2>1. UNCHANGED <<logins, syncs>> /\ (UNCHANGED limits \/ (limits < MaxLimits /\ limits' = limits + 1))
    BY <1>3 DEF FetchPage
  <2> QED
    BY <2>1, GuiAssumption DEF Sizes
<1>4. CASE UNCHANGED counts
  BY <1>4 DEF counts, Sizes
<1>5. ASSUME NEW t \in Tasks, Fetched(t) \/ WriteEntry(t) PROVE UNCHANGED counts
  BY <1>5 DEF Fetched, WriteEntry
<1>6. ListReturns \/ SetupDB \/ FillCache \/ CacheFilled \/ BeginChannel \/ NextMessage \/ EndPage \/ NextUrl
        \/ EndSync \/ UNCHANGED vars => UNCHANGED counts
  BY DEF ListReturns, SetupDB, FillCache, CacheFilled, BeginChannel, NextMessage, EndPage, NextUrl, EndSync, vars
<1> QED
  BY <1>1, <1>2, <1>3, <1>4, <1>5, <1>6 DEF Next, Sync

\* What the sync has at hand.
LEMMA SaveTypes ==
  ASSUME NEW target, NEW root, NEW ms \in SUBSET Messages, NEW whole, Save(target, root, ms, whole), rows \subseteq Messages
  PROVE  rows' \subseteq Messages
<1>1. PICK held \in Stored(ms) : rows' = rows \cup held
  BY DEF Save
<1>2. held \subseteq ms
  BY DEF Stored
<1> QED
  BY <1>1, <1>2

LEMMA SameRecord ==
  ASSUME NEW f, NEW d, NEW r, r = [dir |-> d, open |-> f]
  PROVE  [r EXCEPT !.open = f] = r
<1>1. [r EXCEPT !.open = f] = [dir |-> d, open |-> f]
  OBVIOUS
<1> QED
  BY <1>1

LEMMA StepAtHand == ASSUME KInv, AtHand, [Next]_vars PROVE AtHand'
<1>1. CASE UNCHANGED <<db, req, chan, cursor, msgs, rows>>
  BY <1>1 DEF AtHand
<1>2. ASSUME NEW t \in Tasks, Fetched(t) \/ WriteEntry(t) PROVE UNCHANGED <<db, req, chan, cursor, msgs, rows>>
  BY <1>2 DEF Fetched, WriteEntry, syncVars
<1>3. Login \/ ListReturns \/ FillCache \/ CacheFilled \/ EndSync \/ UNCHANGED vars
        => UNCHANGED <<db, req, chan, cursor, msgs, rows>>
  BY DEF Login, ListReturns, FillCache, CacheFilled, EndSync, vars, syncVars
<1>4. ASSUME NEW r \in Requests, HandleSync(r) PROVE AtHand'
  BY <1>4 DEF HandleSync, AtHand
<1>5. CASE SetupDB
  <2>1. UNCHANGED <<req, chan, cursor, msgs, rows>>
    BY <1>5 DEF SetupDB, syncVars
  <2>2. at = "setup" => req.dir \in Dirs
    BY GuiAssumption DEF KInv, SyncTypes, Request
  <2>3. db' \in [dir : Dirs, open : BOOLEAN] \cup {NoDb}
    <3>1. CASE UNCHANGED db
      BY <3>1 DEF AtHand
    <3>2. CASE db' = [dir |-> req.dir, open |-> TRUE]
      BY <1>5, <2>2, <3>2 DEF SetupDB
    <3>3. CASE db' = [db EXCEPT !.open = FALSE]
      <4>1. [NoDb EXCEPT !.open = FALSE] = NoDb
        BY SameRecord DEF NoDb
      <4>2. db \in [dir : Dirs, open : BOOLEAN] => [db EXCEPT !.open = FALSE] \in [dir : Dirs, open : BOOLEAN]
        OBVIOUS
      <4> QED
        BY <3>3, <4>1, <4>2 DEF AtHand
    <3> QED
      BY <1>5, <3>1, <3>2, <3>3 DEF SetupDB
  <2> QED
    BY <2>1, <2>3 DEF AtHand
<1>6. CASE BeginChannel
  <2>1. UNCHANGED <<db, req, msgs, rows>>
    BY <1>6 DEF BeginChannel
  <2>2. CASE UNCHANGED chan
    <3>1. UNCHANGED cursor \/ cursor' = 1
      BY <1>6 DEF BeginChannel
    <3> QED
      BY <2>1, <2>2, <3>1, GuiAssumption DEF AtHand, BeginChannel
  <2>3. CASE chan' = Head(queue).chan /\ cursor' = 1
    <3>1. queue \in Seq(Target) /\ queue # <<>> /\ req.mode = "channel"
      BY <1>6 DEF BeginChannel, KInv, SyncTypes
    <3>2. Head(queue) \in Target /\ Head(queue) # BadLink
      BY <3>1, InTail DEF KInv, SyncTypes
    <3>3. chan' \in Channels
      BY <2>3, <3>2 DEF Target
    <3>4. Pages[chan'] \in Seq(Seq(Messages)) \ {<<>>}
      BY <3>3, GuiAssumption
    <3>5. cursor' \in 1..Len(Pages[chan'])
      BY <2>3, <3>4
    <3> QED
      BY <2>1, <3>3, <3>5 DEF AtHand
  <2> QED
    BY <1>6, <2>1, <2>2, <2>3 DEF BeginChannel
<1>7. CASE FetchPage
  <2>1. chan \in Channels /\ cursor \in 1..Len(Pages[chan]) /\ Pages[chan] \in Seq(Seq(Messages))
    BY <1>7, GuiAssumption DEF FetchPage, KInv, SyncTypes, Fetching
  <2>2. Pages[chan][cursor] \in Seq(Messages)
    BY <2>1
  <2>3. UNCHANGED <<db, req, chan, cursor, rows>> /\ (UNCHANGED msgs \/ msgs' = Pages[chan][cursor])
    BY <1>7 DEF FetchPage, AfterLimit
  <2> QED
    BY <2>2, <2>3 DEF AtHand
<1>8. CASE NextMessage
  <2>1. UNCHANGED <<db, req, chan, cursor>> /\ msgs # <<>> /\ msgs' \in {msgs, Tail(msgs)}
    BY <1>8 DEF NextMessage
  <2>2. msgs \in Seq(Messages) /\ Head(msgs) \in Messages /\ Tail(msgs) \in Seq(Messages)
    BY <2>1 DEF AtHand
  <2>3. ThreadOf(Head(msgs)) \in SUBSET Messages /\ {Head(msgs)} \in SUBSET Messages
    BY <2>2, GuiAssumption DEF ThreadOf
  <2>4. \/ UNCHANGED rows \/ Save(Whole(chan), Head(msgs), ThreadOf(Head(msgs)), TRUE)
        \/ Save(Whole(chan), Head(msgs), {Head(msgs)}, FALSE)
    BY <1>8 DEF NextMessage
  <2>5. rows' \subseteq Messages
    BY <2>3, <2>4, SaveTypes DEF AtHand
  <2> QED
    BY <2>1, <2>2, <2>5 DEF AtHand
<1>9. CASE EndPage
  <2>1. UNCHANGED <<db, req, chan, msgs, rows>>
    BY <1>9 DEF EndPage
  <2>2. UNCHANGED cursor \/ (cursor < Len(Pages[chan]) /\ cursor' = cursor + 1)
    BY <1>9 DEF EndPage, NextCursor
  <2>3. chan \in Channels => Pages[chan] \in Seq(Seq(Messages))
    BY GuiAssumption
  <2>4. chan \in Channels => cursor' \in 1..Len(Pages[chan])
    BY <2>2, <2>3 DEF AtHand
  <2> QED
    BY <2>1, <2>4 DEF AtHand
<1>10. CASE NextUrl
  <2> DEFINE u == Head(queue)
  <2>1. UNCHANGED <<db, req, chan, cursor, msgs>> /\ queue # <<>> /\ req.mode # "channel"
    BY <1>10 DEF NextUrl
  <2>2. u \in Target /\ In(queue, u)
    BY <2>1, InTail DEF KInv, SyncTypes
  <2>3. u # BadLink => u.root \in Messages
    BY <2>1, <2>2 DEF KInv, SyncTypes, Target
  <2>4. u # BadLink => ThreadOf(u.root) \in SUBSET Messages
    BY <2>3, GuiAssumption DEF ThreadOf
  <2>5. UNCHANGED rows \/ (u # BadLink /\ Save(u, u.root, ThreadOf(u.root), TRUE))
    BY <1>10 DEF NextUrl
  <2>6. rows' \subseteq Messages
    BY <2>4, <2>5, SaveTypes DEF AtHand
  <2> QED
    BY <2>1, <2>6 DEF AtHand
<1> QED
  BY <1>1, <1>2, <1>3, <1>4, <1>5, <1>6, <1>7, <1>8, <1>9, <1>10 DEF Next, Sync

LEMMA GuiTypes == Spec => []TypeOK
<1> DEFINE I == Calls /\ KInv /\ Kinds
<1>1. Init => I
  BY InitCalls, InitKept, InitKinds
<1>2. I /\ [Next]_vars => I'
  BY StepCalls, StepKept, StepCaches, StepSizes, StepAtHand DEF Kinds
<1>3. I => TypeOK
  BY DEF Calls, Phases, KInv, SyncTypes, JsonOK, Kinds, Caches, Sizes, AtHand, TypeOK
<1> QED
  BY <1>1, <1>2, <1>3, PTL DEF Spec

-----------------------------------------------------------------------------
(* The workspaces.  Exactly who is alone has no other command beside it; a *)
(* choice that is known is written down, or about to be.                   *)

WProcs ==
  [pc : {"idle", "new", "del", "current", "select", "name", "auth", "load", "login", "save", "write"},
   cmd : {"none", "new", "import", "select", "del", "use", "useas"}, name : W!Wsps \cup {""}, alone : BOOLEAN]
WTypes ==
  /\ creds \in [W!Wsps -> {"none", "partial", "expired", "valid"}]
  /\ current \in W!Wsps \cup {"absent", ""} /\ chosen \in W!Wsps \cup {"?"}
  /\ proc \in [Procs -> WProcs]
  /\ \A p \in Procs : proc[p].pc \in {"idle", "current"} \/ proc[p].name \in W!Wsps
  /\ \A p \in Procs : proc[p].pc = "new" => proc[p].cmd = "new"
Choice ==
  /\ \A p \in Procs : W!Busy(p) /\ proc[p].alone => W!Alone(p)
  /\ \A p \in Procs : proc[p].pc = "name" /\ proc[p].alone => W!Exists(proc[p].name)
  /\ chosen # "?" =>
       W!Exists(chosen) /\ (current = chosen \/ \E p \in Procs : proc[p].pc = "name")
  /\ W!UsesTheChosen
WInv == WTypes /\ Choice

LEMMA WNames ==
  /\ \A n \in W!Wsps : n \notin {"", "absent", "?"}
  /\ "default" \in W!Wsps
BY HostAssumption DEF W!Wsps

LEMMA WInit == W!Init => WInv
<1> SUFFICES ASSUME W!Init PROVE WInv
  OBVIOUS
<1>1. W!Idle \in WProcs /\ W!Idle.pc = "idle" /\ W!Idle.cmd = "none"
  BY DEF W!Idle, WProcs
<1>2. proc = [p \in Procs |-> W!Idle]
  BY DEF W!Init
<1>3. WTypes
  BY <1>1, <1>2 DEF W!Init, WTypes
<1>4. \A p \in Procs : proc[p].pc = "idle"
  BY <1>1, <1>2
<1> QED
  BY <1>3, <1>4 DEF W!Init, WInv, Choice, W!UsesTheChosen, W!Busy

\* A step of p takes it to another point with the same command.
LEMMA GoTypes ==
  ASSUME WTypes, NEW p \in Procs, W!Busy(p), NEW l \in {"new", "del", "select", "name", "auth", "load", "login", "save", "write"},
         proc[p].name \in W!Wsps, W!Go(p, l)
  PROVE  /\ proc' \in [Procs -> WProcs] /\ proc'[p].pc = l /\ proc'[p].cmd = proc[p].cmd
         /\ proc'[p].name = proc[p].name /\ proc'[p].alone = proc[p].alone
         /\ \A q \in Procs \ {p} : proc'[q] = proc[q]
         /\ \A q \in Procs : proc'[q].pc \in {"idle", "current"} \/ proc'[q].name \in W!Wsps
BY DEF WTypes, WProcs, W!Go, W!Busy

LEMMA DoneTypes ==
  ASSUME WTypes, NEW p \in Procs, W!Done(p)
  PROVE  /\ proc' \in [Procs -> WProcs] /\ proc'[p].pc = "idle" /\ proc'[p].cmd = "none"
         /\ \A q \in Procs \ {p} : proc'[q] = proc[q]
         /\ \A q \in Procs : proc'[q].pc \in {"idle", "current"} \/ proc'[q].name \in W!Wsps
<1>1. W!Idle \in WProcs /\ W!Idle.pc = "idle" /\ W!Idle.cmd = "none"
  BY DEF W!Idle, WProcs
<1> QED
  BY <1>1 DEF WTypes, W!Done

LEMMA BeginKept ==
  ASSUME WInv, NEW p \in Procs, NEW cmd \in {"new", "import", "select", "del", "use", "useas"},
         NEW l \in {"new", "del", "current", "select", "auth", "save"}, NEW n, W!Begin(p, cmd, n, l),
         (n = "" /\ l = "current" /\ cmd = "use") \/ (n \in W!Wsps /\ cmd # "use" /\ l # "current"),
         l = "new" => cmd = "new"
  PROVE  WInv'
<1>1. /\ ~W!Busy(p) /\ UNCHANGED <<creds, current, chosen>>
      /\ proc' = [q \in Procs |->
           IF q = p THEN [pc |-> l, cmd |-> cmd, name |-> n, alone |-> W!Alone(p)]
           ELSE IF W!Busy(q) THEN [proc[q] EXCEPT !.alone = FALSE] ELSE proc[q]]
  BY DEF W!Begin
<1>2. W!Alone(p) \in BOOLEAN
  BY DEF W!Alone
<1>3. [pc |-> l, cmd |-> cmd, name |-> n, alone |-> W!Alone(p)] \in WProcs
  BY <1>2 DEF WProcs
<1>4. \A q \in Procs : proc[q] \in WProcs /\ [proc[q] EXCEPT !.alone = FALSE] \in WProcs
  BY DEF WInv, WTypes, WProcs
<1>5. /\ proc' \in [Procs -> WProcs]
      /\ proc'[p].pc = l /\ proc'[p].cmd = cmd /\ proc'[p].name = n /\ proc'[p].alone = W!Alone(p)
      /\ \A q \in Procs \ {p} : proc'[q].pc = proc[q].pc /\ proc'[q].cmd = proc[q].cmd
           /\ proc'[q].name = proc[q].name /\ (proc'[q].alone => ~W!Busy(q))
  BY <1>1, <1>3, <1>4 DEF WProcs
<1>6. WTypes'
  BY <1>1, <1>5 DEF WInv, WTypes, W!Wsps
<1>7. \A q \in Procs : W!Busy(q)' <=> W!Busy(q) \/ q = p
  BY <1>5 DEF W!Busy
<1>8. \A q \in Procs : W!Busy(q)' /\ proc'[q].alone => W!Alone(q)'
  BY <1>5, <1>7 DEF W!Alone
<1>9. \A q \in Procs : proc'[q].alone => q = p \/ ~W!Busy(q)
  BY <1>5
<1>10. Choice'
  BY <1>1, <1>5, <1>7, <1>8, <1>9 DEF WInv, Choice, W!UsesTheChosen, W!Exists, W!Busy
<1> QED
  BY <1>6, <1>10 DEF WInv

\* While p is busy nobody else is alone, and what is to be shown is about p.
LEMMA OwnStep ==
  ASSUME WInv, NEW p \in Procs, W!Busy(p), \A q \in Procs \ {p} : proc'[q] = proc[q],
         \/ proc'[p].pc = "idle"
         \/ /\ proc'[p].alone = proc[p].alone
            /\ proc'[p].pc = "name" /\ proc'[p].alone => W!Exists(proc[p].name)'
            /\ proc'[p].cmd = "use" /\ proc'[p].alone /\ proc'[p].pc \in {"auth", "load", "login"} =>
                 /\ chosen' # "?" => proc'[p].name = chosen'
                 /\ (\E n \in W!Wsps : W!Exists(n)') => W!Exists(proc[p].name)',
         chosen' # "?" =>
           W!Exists(chosen)' /\ (current' = chosen' \/ \E q \in Procs : proc'[q].pc = "name")
  PROVE  Choice'
<1>1. \A q \in Procs \ {p} : W!Busy(q) => ~proc[q].alone
  BY DEF WInv, Choice, W!Alone
<1>2. \A q \in Procs : W!Busy(q)' => W!Busy(q)
  BY DEF W!Busy
<1>3. ASSUME NEW q \in Procs, W!Busy(q)', proc'[q].alone PROVE q = p /\ proc[p].alone /\ W!Alone(p)'
  <2>1. q = p /\ proc[p].alone
    BY <1>1, <1>2, <1>3 DEF W!Busy
  <2> QED
    BY <1>2, <2>1 DEF WInv, Choice, W!Alone
<1>4. \A q \in Procs : proc'[q].pc = "name" /\ proc'[q].alone => W!Exists(proc[q].name)'
  BY <1>3 DEF W!Busy
<1>5. W!UsesTheChosen'
  BY <1>3 DEF W!Busy, W!UsesTheChosen, W!Exists
<1> QED
  BY <1>3, <1>4, <1>5 DEF Choice

LEMMA BeginsKept ==
  ASSUME WInv, NEW p \in Procs, W!New(p) \/ W!Import(p) \/ W!SelectCmd(p) \/ W!Del(p) \/ W!Use(p)
  PROVE  WInv'
BY BeginKept DEF W!New, W!Import, W!SelectCmd, W!Del, W!Use

\* A step that goes on or ends, and touches the credentials of its own workspace at most.
LEMMA PlainStep ==
  ASSUME WInv, NEW p \in Procs, W!Busy(p), UNCHANGED <<creds, current, chosen>>,
         \/ W!Done(p) /\ proc[p].pc # "name"
         \/ \E l \in {"new", "del", "select", "auth", "load", "login", "save", "write"} :
              /\ W!Go(p, l) /\ proc[p].name \in W!Wsps /\ proc[p].pc # "name"
              /\ l = "new" => proc[p].cmd = "new"
              /\ proc[p].pc \notin {"auth", "load", "login"} /\ proc[p].cmd = "use" => l \notin {"auth", "load", "login"}
  PROVE  WInv'
<1>1. CASE W!Done(p) /\ proc[p].pc # "name"
  <2>1. WTypes'
    BY <1>1, DoneTypes DEF WInv, WTypes, W!Wsps
  <2>2. Choice'
    BY <1>1, DoneTypes, OwnStep DEF WInv, Choice, W!Exists
  <2> QED
    BY <2>1, <2>2 DEF WInv
<1>2. ASSUME NEW l \in {"new", "del", "select", "auth", "load", "login", "save", "write"}, W!Go(p, l),
             proc[p].name \in W!Wsps, proc[p].pc # "name", l = "new" => proc[p].cmd = "new",
             proc[p].pc \notin {"auth", "load", "login"} /\ proc[p].cmd = "use" => l \notin {"auth", "load", "login"}
      PROVE  WInv'
  <2>1. /\ proc' \in [Procs -> WProcs] /\ proc'[p].pc = l /\ proc'[p].cmd = proc[p].cmd
        /\ proc'[p].name = proc[p].name /\ proc'[p].alone = proc[p].alone
        /\ \A q \in Procs \ {p} : proc'[q] = proc[q]
        /\ \A q \in Procs : proc'[q].pc \in {"idle", "current"} \/ proc'[q].name \in W!Wsps
    BY <1>2, GoTypes DEF WInv
  <2>2. WTypes'
    BY <1>2, <2>1 DEF WInv, WTypes, W!Wsps
  <2>3. proc[p].cmd = "use" /\ proc[p].alone /\ l \in {"auth", "load", "login"} =>
          /\ chosen # "?" => proc[p].name = chosen
          /\ (\E n \in W!Wsps : W!Exists(n)) => W!Exists(proc[p].name)
    BY <1>2 DEF WInv, Choice, W!UsesTheChosen
  <2>4. Choice'
    BY <1>2, <2>1, <2>3, OwnStep DEF WInv, Choice, W!Exists
  <2> QED
    BY <2>2, <2>4 DEF WInv
<1> QED
  BY <1>1, <1>2

LEMMA PlainKept ==
  ASSUME WInv, NEW p \in Procs, W!AuthWsp(p) \/ W!Load(p) \/ W!Login(p)
  PROVE  WInv'
<1>1. W!Busy(p) /\ proc[p].pc \in {"auth", "load", "login"} /\ proc[p].name \in W!Wsps
      /\ UNCHANGED <<creds, current, chosen>>
  BY DEF W!AuthWsp, W!Load, W!Login, W!Busy, WInv, WTypes
<1>2. W!Done(p) \/ W!Go(p, "load") \/ W!Go(p, "select") \/ W!Go(p, "login") \/ W!Go(p, "save")
  BY DEF W!AuthWsp, W!Load, W!Login, W!Authenticated
<1> QED
  BY <1>1, <1>2, PlainStep

LEMMA DeleteKept ==
  ASSUME WInv, NEW p \in Procs, proc[p].pc \in {"new", "del"}, UNCHANGED current,
         creds' = [creds EXCEPT ![proc[p].name] = "none"],
         chosen' = IF chosen = proc[p].name THEN "?" ELSE chosen,
         W!Done(p) \/ (W!Go(p, "load") /\ proc[p].cmd = "new")
  PROVE  WInv'
<1>1. W!Busy(p) /\ proc[p].name \in W!Wsps
  BY DEF W!Busy, WInv, WTypes
<1>2. /\ creds' \in [W!Wsps -> {"none", "partial", "expired", "valid"}] /\ chosen' \in W!Wsps \cup {"?"}
      /\ \A n \in W!Wsps \ {proc[p].name} : creds'[n] = creds[n]
  BY <1>1 DEF WInv, WTypes
<1>3. /\ proc' \in [Procs -> WProcs] /\ \A q \in Procs \ {p} : proc'[q] = proc[q]
      /\ \A q \in Procs : proc'[q].pc \in {"idle", "current"} \/ proc'[q].name \in W!Wsps
      /\ \/ proc'[p].pc = "idle"
         \/ proc'[p].pc = "load" /\ proc'[p].cmd = "new" /\ proc'[p].alone = proc[p].alone
  BY <1>1, DoneTypes, GoTypes DEF WInv
<1>4. WTypes'
  <2>1. \A q \in Procs : proc'[q].pc = "new" => proc'[q].cmd = "new"
    BY <1>3 DEF WInv, WTypes
  <2>2. current' \in W!Wsps \cup {"absent", ""}
    BY DEF WInv, WTypes
  <2> QED
    BY <1>2, <1>3, <2>1, <2>2 DEF WTypes, W!Wsps
<1>5. chosen' # "?" => W!Exists(chosen)' /\ chosen' = chosen
  <2>1. chosen' # "?" => chosen' = chosen /\ chosen # proc[p].name /\ chosen \in W!Wsps
    BY DEF WInv, WTypes
  <2> QED
    BY <1>2, <2>1 DEF WInv, Choice, W!Exists
<1>6. chosen' # "?" => current' = chosen' \/ \E q \in Procs : proc'[q].pc = "name"
  BY <1>3, <1>5 DEF WInv, Choice
<1>7. Choice'
  BY <1>1, <1>3, <1>5, <1>6, OwnStep
<1> QED
  BY <1>4, <1>7 DEF WInv

LEMMA CreateKept == ASSUME WInv, NEW p \in Procs, W!CreateWsp(p) \/ W!DelWsp(p) PROVE WInv'
<1>1. CASE W!DelWsp(p)
  BY <1>1, DeleteKept DEF W!DelWsp
<1>2. CASE W!CreateWsp(p)
  <2>1. proc[p].pc = "new" /\ proc[p].cmd = "new" /\ W!Busy(p) /\ proc[p].name \in W!Wsps
        /\ UNCHANGED current
    BY <1>2 DEF W!CreateWsp, W!Busy, WInv, WTypes
  <2>2. CASE (W!Go(p, "load") \/ W!Done(p)) /\ UNCHANGED <<creds, chosen>>
    BY <2>1, <2>2, PlainStep
  <2>3. CASE /\ W!Go(p, "load") /\ creds' = [creds EXCEPT ![proc[p].name] = "none"]
             /\ chosen' = IF chosen = proc[p].name THEN "?" ELSE chosen
    BY <2>1, <2>3, DeleteKept
  <2> QED
    BY <1>2, <2>2, <2>3 DEF W!CreateWsp
<1> QED
  BY <1>1, <1>2

LEMMA SaveKept == ASSUME WInv, NEW p \in Procs, W!Save(p) \/ W!WriteCreds(p) PROVE WInv'
<1>1. /\ W!Busy(p) /\ proc[p].pc \in {"save", "write"} /\ proc[p].name \in W!Wsps
      /\ UNCHANGED <<current, chosen>>
  BY DEF W!Save, W!WriteCreds, W!Busy, WInv, WTypes
<1>2. W!Done(p) \/ W!Go(p, "select") \/ W!Go(p, "write")
  BY DEF W!Save, W!WriteCreds, W!Authenticated
<1>3. CASE UNCHANGED creds
  BY <1>1, <1>2, <1>3, PlainStep
<1>4. ASSUME NEW v \in {"partial", "valid"}, creds' = [creds EXCEPT ![proc[p].name] = v] PROVE WInv'
  <2>1. /\ creds' \in [W!Wsps -> {"none", "partial", "expired", "valid"}]
        /\ \A n \in W!Wsps : W!Exists(n) => creds'[n] # "none"
    BY <1>1, <1>4 DEF WInv, WTypes, W!Exists
  <2>2. /\ proc' \in [Procs -> WProcs] /\ \A q \in Procs \ {p} : proc'[q] = proc[q]
        /\ \A q \in Procs : proc'[q].pc \in {"idle", "current"} \/ proc'[q].name \in W!Wsps
        /\ \/ proc'[p].pc = "idle"
           \/ proc'[p].pc \in {"select", "write"} /\ proc'[p].alone = proc[p].alone
    BY <1>1, <1>2, DoneTypes, GoTypes DEF WInv
  <2>3. WTypes'
    BY <1>1, <2>1, <2>2 DEF WInv, WTypes, W!Wsps
  <2>4. chosen # "?" => chosen \in W!Wsps /\ creds'[chosen] # "none"
    BY <2>1 DEF WInv, WTypes, Choice
  <2>5. chosen # "?" => current = chosen \/ \E q \in Procs : proc'[q].pc = "name"
    BY <1>1, <2>2 DEF WInv, Choice
  <2>6. Choice'
    BY <1>1, <2>2, <2>4, <2>5, OwnStep DEF W!Exists
  <2> QED
    BY <2>3, <2>6 DEF WInv
<1> QED
  BY <1>3, <1>4 DEF W!Save, W!WriteCreds

LEMMA SelectKept == ASSUME WInv, NEW p \in Procs, W!Select(p) PROVE WInv'
<1>1. W!Busy(p) /\ proc[p].pc = "select" /\ proc[p].name \in W!Wsps /\ UNCHANGED <<creds, chosen>>
  BY DEF W!Select, W!Busy, WInv, WTypes
<1>2. CASE W!Done(p) /\ UNCHANGED current
  BY <1>1, <1>2, PlainStep
<1>3. CASE W!Exists(proc[p].name) /\ W!Go(p, "name") /\ current' = ""
  <2>1. /\ proc' \in [Procs -> WProcs] /\ \A q \in Procs \ {p} : proc'[q] = proc[q]
        /\ \A q \in Procs : proc'[q].pc \in {"idle", "current"} \/ proc'[q].name \in W!Wsps
        /\ proc'[p].pc = "name" /\ proc'[p].alone = proc[p].alone /\ proc'[p].name = proc[p].name
    BY <1>1, <1>3, GoTypes DEF WInv
  <2>2. WTypes'
    BY <1>1, <1>3, <2>1 DEF WInv, WTypes, W!Wsps
  <2>3. Choice'
    BY <1>1, <1>3, <2>1, OwnStep DEF WInv, Choice, W!Exists
  <2> QED
    BY <2>2, <2>3 DEF WInv
<1> QED
  BY <1>2, <1>3 DEF W!Select

LEMMA WriteNameKept == ASSUME WInv, NEW p \in Procs, W!WriteName(p) PROVE WInv'
<1>1. /\ W!Busy(p) /\ proc[p].pc = "name" /\ proc[p].name \in W!Wsps /\ current' = proc[p].name
      /\ chosen' = (IF proc[p].alone THEN proc[p].name ELSE "?") /\ UNCHANGED creds
      /\ (W!Go(p, "auth") \/ W!Done(p))
  BY DEF W!WriteName, W!Busy, WInv, WTypes
<1>2. /\ proc' \in [Procs -> WProcs] /\ \A q \in Procs \ {p} : proc'[q] = proc[q]
      /\ \A q \in Procs : proc'[q].pc \in {"idle", "current"} \/ proc'[q].name \in W!Wsps
      /\ \/ proc'[p].pc = "idle"
         \/ proc'[p].pc = "auth" /\ proc'[p].alone = proc[p].alone /\ proc'[p].name = proc[p].name
  BY <1>1, DoneTypes, GoTypes DEF WInv
<1>3. WTypes'
  BY <1>1, <1>2 DEF WInv, WTypes, W!Wsps
<1>4. proc[p].alone => W!Exists(proc[p].name)
  BY <1>1 DEF WInv, Choice
<1>5. Choice'
  BY <1>1, <1>2, <1>4, OwnStep DEF W!Exists
<1> QED
  BY <1>3, <1>5 DEF WInv

LEMMA KillKept == ASSUME WInv, NEW p \in Procs, W!Kill(p) PROVE WInv'
<1>1. /\ W!Busy(p) /\ W!Done(p) /\ UNCHANGED <<creds, current>>
      /\ chosen' = IF proc[p].pc = "name" THEN "?" ELSE chosen
  BY DEF W!Kill
<1>2. /\ proc' \in [Procs -> WProcs] /\ proc'[p].pc = "idle" /\ \A q \in Procs \ {p} : proc'[q] = proc[q]
      /\ \A q \in Procs : proc'[q].pc \in {"idle", "current"} \/ proc'[q].name \in W!Wsps
  BY <1>1, DoneTypes DEF WInv
<1>3. chosen' = "?" \/ (chosen' = chosen /\ proc[p].pc # "name")
  BY <1>1
<1>4. WTypes'
  <2>1. \A q \in Procs : proc'[q].pc = "new" => proc'[q].cmd = "new"
    BY <1>2 DEF WInv, WTypes
  <2>2. chosen' \in W!Wsps \cup {"?"}
    BY <1>3 DEF WInv, WTypes
  <2> QED
    BY <1>1, <1>2, <2>1, <2>2 DEF WInv, WTypes, W!Wsps
<1>5. chosen' # "?" => W!Exists(chosen)' /\ (current' = chosen' \/ \E q \in Procs : proc'[q].pc = "name")
  BY <1>1, <1>2, <1>3 DEF WInv, Choice, W!Exists
<1>6. Choice'
  BY <1>1, <1>2, <1>5, OwnStep
<1> QED
  BY <1>4, <1>6 DEF WInv

LEMMA ExpireKept == ASSUME WInv, NEW n \in W!Wsps, W!Expire(n) PROVE WInv'
<1>1. /\ creds[n] = "valid" /\ creds' = [creds EXCEPT ![n] = "expired"] /\ UNCHANGED <<current, proc, chosen>>
  BY DEF W!Expire
<1>2. /\ creds' \in [W!Wsps -> {"none", "partial", "expired", "valid"}]
      /\ \A m \in W!Wsps : creds'[m] # "none" <=> creds[m] # "none"
  BY <1>1 DEF WInv, WTypes
<1>3. WTypes'
  BY <1>1, <1>2 DEF WInv, WTypes, W!Wsps
<1>4. \A q \in Procs : proc[q].pc \in {"name", "auth", "load", "login"} => proc[q].name \in W!Wsps
  BY DEF WInv, WTypes
<1>5. Choice'
  BY <1>1, <1>2, <1>4 DEF WInv, WTypes, Choice, W!UsesTheChosen, W!Exists, W!Busy, W!Alone
<1> QED
  BY <1>3, <1>5 DEF WInv

\* The first of the workspaces there are.
LEMMA FirstIsThere ==
  ASSUME NEW n \in W!Wsps, W!Exists(n)
  PROVE  W!FirstAvailable \in W!Wsps /\ W!Exists(W!FirstAvailable)
<1> DEFINE S == {i \in 1..Len(Names) : W!Exists(Names[i])}
<1>1. Len(Names) \in Nat
  <2>1. PICK T : Names \in Seq(T)
    BY HostAssumption
  <2> QED
    BY <2>1
<1>2. S \subseteq Nat /\ S # {}
  BY <1>1 DEF W!Wsps
<1>3. PICK i \in S : \A j \in S : i <= j
  BY <1>2, AP!MinIn
<1>4. \E k \in 1..Len(Names) : W!Exists(Names[k]) /\ \A j \in 1..(k - 1) : ~W!Exists(Names[j])
  <2>1. ASSUME NEW j \in 1..(i - 1) PROVE ~W!Exists(Names[j])
    BY <1>1, <1>3
  <2> QED
    BY <1>3, <2>1
<1> DEFINE first == CHOOSE k \in 1..Len(Names) : W!Exists(Names[k]) /\ \A j \in 1..(k - 1) : ~W!Exists(Names[j])
<1>5. first \in 1..Len(Names) /\ W!Exists(Names[first])
  BY <1>4
<1> QED
  BY <1>5 DEF W!FirstAvailable, W!Wsps

LEMMA CurrentKept == ASSUME WInv, NEW p \in Procs, W!Current(p) PROVE WInv'
<1>1. W!Busy(p) /\ proc[p].pc = "current" /\ UNCHANGED <<creds, current, chosen>>
  BY DEF W!Current, W!Busy
<1>2. PICK l \in {"auth", "select"}, n \in W!Wsps :
        /\ proc' = [proc EXCEPT ![p] = [@ EXCEPT !.pc = l, !.name = n]]
        /\ \/ l = "select"
           \/ ~\E m \in W!Wsps : W!Exists(m)
           \/ n = current /\ W!Exists(n)
  <2>1. CASE ~\E m \in W!Wsps : W!Exists(m)
    BY <2>1, WNames DEF W!Current, W!Default
  <2>2. CASE (\E m \in W!Wsps : W!Exists(m)) /\ current \in W!Wsps /\ W!Exists(current)
    BY <2>2 DEF W!Current
  <2>3. CASE (\E m \in W!Wsps : W!Exists(m)) /\ ~(current \in W!Wsps /\ W!Exists(current))
    BY <2>3, WNames, FirstIsThere DEF W!Current, W!Default
  <2> QED
    BY <2>1, <2>2, <2>3
<1>3. proc[p] \in WProcs
  BY DEF WInv, WTypes
<1>4. [proc[p] EXCEPT !.pc = l, !.name = n] \in WProcs
  BY <1>2, <1>3 DEF WProcs
<1>5. /\ proc' \in [Procs -> WProcs] /\ \A q \in Procs \ {p} : proc'[q] = proc[q]
      /\ proc'[p].pc = l /\ proc'[p].name = n /\ proc'[p].alone = proc[p].alone
  BY <1>2, <1>3, <1>4 DEF WInv, WTypes, WProcs
<1>6. WTypes'
  BY <1>1, <1>2, <1>5 DEF WInv, WTypes, W!Wsps
<1>7. ASSUME proc[p].alone, l = "auth"
      PROVE  /\ chosen # "?" => n = chosen
             /\ (\E m \in W!Wsps : W!Exists(m)) => W!Exists(n)
  <2>1. \A q \in Procs : proc[q].pc # "name"
    BY <1>1, <1>7 DEF WInv, Choice, W!Alone, W!Busy
  <2>2. chosen # "?" => W!Exists(chosen) /\ chosen = current /\ chosen \in W!Wsps
    BY <2>1 DEF WInv, WTypes, Choice
  <2> QED
    BY <1>2, <1>7, <2>2
<1>8. chosen # "?" => W!Exists(chosen) /\ (current = chosen \/ \E q \in Procs : proc'[q].pc = "name")
  BY <1>1, <1>5 DEF WInv, Choice
<1>9. Choice'
  BY <1>1, <1>5, <1>7, <1>8, OwnStep DEF W!Exists
<1> QED
  BY <1>6, <1>9 DEF WInv

LEMMA WStep == WInv /\ [W!Next]_(W!vars) => WInv'
<1> SUFFICES ASSUME WInv, [W!Next]_(W!vars) PROVE WInv'
  OBVIOUS
<1>1. CASE UNCHANGED W!vars
  BY <1>1 DEF W!vars, WInv, WTypes, Choice, W!UsesTheChosen, W!Exists, W!Busy, W!Alone, W!Wsps
<1> QED
  BY <1>1, BeginsKept, CreateKept, CurrentKept, SelectKept, WriteNameKept, PlainKept, SaveKept, KillKept,
     ExpireKept DEF W!Next

-----------------------------------------------------------------------------
(* The login: what each point of it knows of the credentials at hand.      *)

Forms == {"token", "cookie", "tokenfile", "secrets"}
LTypes ==
  /\ L!TypeOK
  /\ method \in Forms \cup {"browser", "none", "flags", "again"}
  /\ pc \in {"auth", "menu", "form", "provider", "create", "save", "select", "retry", "note", "type", "guard",
            "ready", "failed", "left"}
LKnown ==
  /\ pc = "form" => method \in Forms
  /\ pc \in {"type", "guard"} => method \in {"browser", "again"}
  /\ pc = "provider" =>
       /\ method \in Forms /\ (method \in {"token", "cookie"} => L!Works(input) /\ confirmed)
       /\ L!IsEmpty(input) => gaveUp
  /\ pc = "create" =>
       /\ method \in Forms \cup {"browser"} /\ (method \in {"token", "cookie"} => confirmed)
       /\ method \in {"tokenfile", "secrets"} \/ L!Works(input)
  /\ pc = "retry" => method \in {"token", "cookie", "tokenfile"}
  /\ pc = "save" => (method = "flags" \/ L!Works(input)) /\ (method \in {"token", "cookie"} => confirmed)
  /\ pc = "select" => L!Works(store) /\ store = input
  /\ "closed" \in gate => gaveUp
  /\ "timeout" \in gate => faults > 0
  /\ pc = "auth" /\ rounds > 0 /\ store = L!Nothing => gaveUp
LGoals == L!SuccessIsTrue /\ L!GoesOnLoggedIn /\ L!FailsForAReason /\ L!NothingSpoiled
LInv == LTypes /\ LKnown /\ LGoals

\* Credentials that work are not empty.
LEMMA Working ==
  ASSUME NEW p \in L!Providers \cup {L!Nothing, L!Partial}, L!Works(p)
  PROVE  p \in L!Providers /\ ~L!IsEmpty(p) /\ p # L!Nothing
BY DEF L!Works, L!IsEmpty, L!Nothing, L!Partial, L!Providers

LEMMA Fresh == L!Works([token |-> "client", cookie |-> "right"]) /\ [token |-> "client", cookie |-> "right"] \in L!Providers
BY DEF L!Works, L!Providers

LEMMA LInit == L!Init => LInv
<1> SUFFICES ASSUME L!Init PROVE LInv
  OBVIOUS
<1>1. command \in L!Commands /\ method = "none" /\ input = L!Nothing /\ confirmed = FALSE /\ gate = {}
      /\ savedBy = <<"before", TRUE>> /\ gaveUp = FALSE /\ rounds = 0 /\ faults = 0 /\ pc \in {"auth", "menu"}
  BY DEF L!Init
<1>2. store \in L!Providers \cup {L!Nothing, L!Partial} /\ selected \in BOOLEAN
  BY DEF L!Init, L!Providers
<1>3. LTypes
  <2>0. MaxRounds \in Nat /\ MaxFaults \in Nat
    BY HostAssumption
  <2>1. rounds \in 0..MaxRounds /\ faults \in 0..MaxFaults
    BY <1>1, <2>0
  <2>2. gate \subseteq {"token", "closed", "timeout"}
    BY <1>1
  <2>3. L!TypeOK
    BY <1>1, <1>2, <2>1, <2>2, Zenon DEF L!TypeOK
  <2> QED
    BY <1>1, <2>3 DEF LTypes
<1>4. LKnown /\ LGoals
  BY <1>1 DEF LKnown, LGoals, L!SuccessIsTrue, L!GoesOnLoggedIn, L!FailsForAReason, L!NothingSpoiled
<1> QED
  BY <1>3, <1>4 DEF LInv

\* A move to another point: what it must know there.
LEMMA MoveKept ==
  ASSUME LInv, NEW l, L!Goto(l), gaveUp' \in BOOLEAN, gaveUp => gaveUp',
         faults' = faults \/ (faults < MaxFaults /\ faults' = faults + 1),
         \/ l \in {"menu", "left"}
         \/ l = "auth" /\ (gaveUp' \/ store # L!Nothing)
         \/ l = "failed" /\ (gaveUp' \/ faults' > 0 \/ method = "secrets")
         \/ l = "retry" /\ method \in {"token", "cookie", "tokenfile"} /\ (faults' > 0 \/ method = "tokenfile")
         \/ l = "form" /\ method \in Forms
         \/ l = "save" /\ L!Works(input) /\ (method \in {"token", "cookie"} => confirmed)
  PROVE  LInv'
<1>1. pc' = l /\ UNCHANGED <<command, method, input, confirmed, gate, store, selected, savedBy, rounds>>
  BY DEF L!Goto
<1>2. faults \in 0..MaxFaults /\ MaxFaults \in Nat
  BY HostAssumption DEF LInv, LTypes, L!TypeOK
<1>3. faults' \in 0..MaxFaults /\ (faults > 0 => faults' > 0)
  BY <1>2
<1>4. LTypes'
  BY <1>1, <1>3 DEF LInv, LTypes, L!TypeOK, Forms, L!Commands, L!Providers, L!Nothing, L!Partial
<1>5. LKnown'
  BY <1>1, <1>3 DEF LInv, LKnown, Forms, L!Works, L!IsEmpty, L!Nothing
<1>6. L!SuccessIsTrue' /\ L!GoesOnLoggedIn'
  BY <1>1 DEF L!SuccessIsTrue, L!GoesOnLoggedIn
<1>7. L!FailsForAReason'
  BY <1>1, <1>2, <1>3 DEF L!FailsForAReason
<1>8. L!NothingSpoiled'
  <2>1. store' = store /\ savedBy' = savedBy /\ L!NothingSpoiled
    BY <1>1 DEF LInv, LGoals
  <2>2. L!Works(store)' = L!Works(store)
    BY <1>1 DEF L!Works
  <2>3. pc' = "retry" /\ faults' = 0 => method' = "tokenfile"
    BY <1>1, <1>3
  <2> QED
    BY <1>3, <2>1, <2>2, <2>3 DEF L!NothingSpoiled
<1> QED
  BY <1>4, <1>5, <1>6, <1>7, <1>8 DEF LInv, LGoals

LEMMA FaultsCount ==
  ASSUME LInv
  PROVE  /\ faults \in 0..MaxFaults /\ MaxFaults \in Nat /\ rounds \in 0..MaxRounds /\ MaxRounds \in Nat
         /\ L!Fault => faults' \in 0..MaxFaults /\ faults' > 0 /\ faults < MaxFaults /\ faults' = faults + 1
<1>1. MaxFaults \in Nat /\ MaxRounds \in Nat
  BY HostAssumption
<1>2. faults \in 0..MaxFaults /\ rounds \in 0..MaxRounds
  BY DEF LInv, LTypes, L!TypeOK
<1> QED
  BY <1>1, <1>2 DEF L!Fault

\* A step that leaves the saved credentials alone.
LEMMA StoreKept ==
  ASSUME LInv, UNCHANGED <<command, store, selected, savedBy>>,
         pc' \in {"auth", "menu", "form", "provider", "create", "save", "type", "guard", "ready", "failed"},
         method' \in Forms \cup {"browser", "none", "flags", "again"},
         input' \in L!Providers \cup {L!Nothing}, confirmed' \in BOOLEAN,
         gate' \subseteq {"token", "closed", "timeout"}, gaveUp' \in BOOLEAN,
         rounds' \in 0..MaxRounds, faults' \in 0..MaxFaults, faults > 0 => faults' > 0,
         LKnown', L!GoesOnLoggedIn', L!FailsForAReason'
  PROVE  LInv'
<1>1. L!Works(store)' = L!Works(store)
  BY DEF L!Works
<1>2. faults \in 0..MaxFaults /\ MaxFaults \in Nat
  BY FaultsCount
<1>3. LTypes'
  BY DEF LInv, LTypes, L!TypeOK, L!Commands, L!Providers, L!Nothing, L!Partial
<1>4. L!SuccessIsTrue'
  BY DEF L!SuccessIsTrue
<1>5. L!NothingSpoiled'
  BY <1>1, <1>2 DEF LInv, LGoals, L!NothingSpoiled
<1> QED
  BY <1>3, <1>4, <1>5 DEF LInv, LGoals

LEMMA TryLoadKept == ASSUME LInv, L!TryLoad PROVE LInv'
<1>1. /\ L!IsEmpty(command.flags) /\ UNCHANGED <<command, confirmed, gate, store, selected, savedBy, gaveUp, rounds>>
      /\ \/ L!Works(store) /\ input' = store /\ pc' = "ready" /\ UNCHANGED <<method, faults>>
         \/ /\ L!Fault \/ UNCHANGED faults
            /\ pc' = "type" \/ (pc' = "failed" /\ command.os # "tested")
            /\ method' = "again" /\ UNCHANGED input
  BY DEF L!TryLoad, L!AuthType
<1>2. /\ method \in Forms \cup {"browser", "none", "flags", "again"} /\ input \in L!Providers \cup {L!Nothing}
      /\ confirmed \in BOOLEAN /\ gate \subseteq {"token", "closed", "timeout"} /\ gaveUp \in BOOLEAN
      /\ store \in L!Providers \cup {L!Nothing, L!Partial}
  BY DEF LInv, LTypes, L!TypeOK
<1>3. faults' \in 0..MaxFaults /\ (faults > 0 => faults' > 0)
  BY <1>1, FaultsCount
<1>4. input' \in L!Providers \cup {L!Nothing}
  BY <1>1, <1>2, Working
<1>5. L!GoesOnLoggedIn' /\ L!FailsForAReason'
  BY <1>1 DEF L!GoesOnLoggedIn, L!FailsForAReason, L!Works
<1>6. LKnown'
  BY <1>1, <1>3, FaultsCount DEF LInv, LKnown
<1> QED
  BY <1>1, <1>2, <1>3, <1>4, <1>5, <1>6, StoreKept, FaultsCount

LEMMA AuthProviderKept == ASSUME LInv, L!AuthProvider PROVE LInv'
<1>1. /\ ~L!IsEmpty(command.flags) /\ UNCHANGED <<command, confirmed, gate, store, selected, savedBy, gaveUp, rounds, faults>>
      /\ input' = command.flags /\ method' = "flags" /\ pc' = "save"
  BY DEF L!AuthProvider, L!AuthType
<1>2. command.flags \in L!Providers
  <2>1. command.flags \in Given
    BY DEF LInv, LTypes, L!TypeOK, L!Commands
  <2>2. command.flags \in [token : {"client", "bot", "none"}, cookie : {"right", "wrong", "none"}]
    BY <2>1, HostAssumption
  <2> QED
    BY <1>1, <2>2 DEF L!IsEmpty, L!Providers
<1>3. confirmed \in BOOLEAN /\ gate \subseteq {"token", "closed", "timeout"} /\ gaveUp \in BOOLEAN
  BY DEF LInv, LTypes, L!TypeOK
<1>4. L!GoesOnLoggedIn' /\ L!FailsForAReason'
  BY <1>1 DEF L!GoesOnLoggedIn, L!FailsForAReason
<1>5. LKnown'
  BY <1>1 DEF LInv, LKnown
<1> QED
  BY <1>1, <1>2, <1>3, <1>4, <1>5, StoreKept, FaultsCount

LEMMA ShowUIKept == ASSUME LInv, L!ShowUI PROVE LInv'
<1>1. pc = "auth" /\ store = L!Nothing /\ UNCHANGED <<gaveUp, faults>>
      /\ L!Goto(IF rounds = 0 THEN "menu" ELSE "failed")
  BY DEF L!ShowUI, L!Move
<1>2. gaveUp \in BOOLEAN /\ (rounds # 0 => gaveUp)
  BY <1>1, FaultsCount DEF LInv, LTypes, L!TypeOK, LKnown
<1>3. CASE rounds = 0
  BY <1>1, <1>2, <1>3, MoveKept
<1>4. CASE rounds # 0
  BY <1>1, <1>2, <1>4, MoveKept
<1> QED
  BY <1>3, <1>4

LEMMA LeaveKept ==
  ASSUME LInv, NEW l \in {"menu", "left", "auth", "failed"}, L!Leave(l)
  PROVE  LInv'
BY MoveKept DEF L!Leave

LEMMA ErrorKept == ASSUME LInv, L!Fault, L!Error PROVE LInv'
<1>1. gaveUp \in BOOLEAN
  BY DEF LInv, LTypes, L!TypeOK
<1> QED
  BY <1>1, FaultsCount, MoveKept DEF L!Error

LEMMA MenuKept == ASSUME LInv, L!Menu PROVE LInv'
<1>1. CASE L!Leave(IF command.quick THEN IF store = L!Nothing THEN "failed" ELSE "auth" ELSE "left")
  BY <1>1, LeaveKept
<1>2. CASE L!Fault /\ L!Error
  BY <1>2, ErrorKept
<1>3. CASE rounds < MaxRounds /\ rounds' = rounds + 1
           /\ (\E m \in {"token", "cookie", "tokenfile", "secrets", "browser"} :
                 method' = m /\ pc' = IF m = "browser" THEN "type" ELSE "form")
           /\ input' = L!Nothing /\ confirmed' = FALSE
           /\ UNCHANGED <<command, gate, store, selected, savedBy, gaveUp, faults>>
  <2>1. rounds' \in 0..MaxRounds
    BY <1>3, FaultsCount
  <2>2. gate \subseteq {"token", "closed", "timeout"} /\ gaveUp \in BOOLEAN
    BY DEF LInv, LTypes, L!TypeOK
  <2>3. \/ pc' = "type" /\ method' = "browser"
        \/ pc' = "form" /\ method' \in Forms
    BY <1>3 DEF Forms
  <2>4. LKnown'
    BY <1>3, <2>3 DEF LInv, LKnown
  <2>5. L!GoesOnLoggedIn' /\ L!FailsForAReason'
    BY <2>3 DEF L!GoesOnLoggedIn, L!FailsForAReason
  <2> QED
    BY <1>3, <2>1, <2>2, <2>3, <2>4, <2>5, StoreKept, FaultsCount
<1> QED
  BY <1>1, <1>2, <1>3 DEF L!Menu

\* A form: what is dropped was not confirmed, and what goes on unconfirmed may be empty.
LEMMA FilledKept ==
  ASSUME LInv, NEW m \in {"token", "cookie", "tokenfile"}, NEW p \in L!Providers, NEW c \in BOOLEAN,
         NEW g \in BOOLEAN, L!Filled(m, p, c, g), (m = "tokenfile" /\ g) \/ g = c
  PROVE  LInv'
<1>1. /\ method = m /\ input' = p /\ confirmed' = c /\ gaveUp' = (gaveUp \/ ~c)
      /\ pc' = (IF g THEN "provider" ELSE L!Returned)
      /\ UNCHANGED <<command, method, gate, store, selected, savedBy, rounds, faults>>
      /\ (c => ~L!IsEmpty(p) /\ L!Works(p))
  BY DEF L!Filled, L!Validated
<1>2. gate \subseteq {"token", "closed", "timeout"} /\ gaveUp \in BOOLEAN /\ method \in Forms
  BY <1>1 DEF LInv, LTypes, L!TypeOK, Forms
<1>3. pc' \in {"provider", "auth", "menu"} /\ (pc' = "provider" <=> g)
  BY <1>1 DEF L!Returned
<1>4. gaveUp' \in BOOLEAN /\ (gaveUp => gaveUp') /\ (~c => gaveUp') /\ (g \/ gaveUp')
  BY <1>1, <1>2
<1>5. LKnown'
  <2>0. (L!Works(input)' <=> L!Works(p)) /\ (L!IsEmpty(input)' <=> L!IsEmpty(p))
    BY <1>1 DEF L!Works, L!IsEmpty
  <2>1. pc' = "provider" => method' \in Forms /\ (method' \in {"token", "cookie"} => L!Works(input)' /\ confirmed')
                            /\ (L!IsEmpty(input)' => gaveUp')
    BY <1>1, <1>2, <1>3, <1>4, <2>0
  <2>2. CASE pc' = "auth"
    BY <1>1, <1>3, <1>4, <2>2 DEF LInv, LKnown
  <2>3. CASE pc' # "auth"
    BY <1>1, <1>3, <1>4, <2>1, <2>3 DEF LInv, LKnown
  <2> QED
    BY <2>2, <2>3
<1>6. L!GoesOnLoggedIn' /\ L!FailsForAReason'
  BY <1>3 DEF L!GoesOnLoggedIn, L!FailsForAReason
<1> QED
  BY <1>1, <1>2, <1>3, <1>4, <1>5, <1>6, StoreKept, FaultsCount

LEMMA AbortKept == ASSUME LInv, L!Abort PROVE LInv'
<1>1. L!Leave("failed") \/ L!Leave("menu") \/ L!Leave(L!Returned)
  BY DEF L!Abort
<1>2. L!Returned \in {"auth", "menu"}
  BY DEF L!Returned
<1> QED
  BY <1>1, <1>2, LeaveKept

LEMMA FileWithSecretsKept == ASSUME LInv, L!FileWithSecrets PROVE LInv'
<1>1. /\ method = "secrets" /\ UNCHANGED <<command, method, confirmed, gate, store, selected, savedBy, rounds>>
      /\ \/ input' \in L!Providers /\ ~L!IsEmpty(input') /\ pc' = "provider" /\ UNCHANGED <<gaveUp, faults>>
         \/ UNCHANGED <<input, gaveUp>> /\ pc' = "failed" /\ L!Fault
  BY DEF L!FileWithSecrets
<1>2. /\ gate \subseteq {"token", "closed", "timeout"} /\ gaveUp \in BOOLEAN /\ confirmed \in BOOLEAN
      /\ method \in Forms /\ input \in L!Providers \cup {L!Nothing}
  BY <1>1 DEF LInv, LTypes, L!TypeOK, Forms
<1>3. faults' \in 0..MaxFaults /\ (faults > 0 => faults' > 0)
  BY <1>1, FaultsCount
<1>4. LKnown'
  BY <1>1, <1>2, <1>3 DEF LInv, LKnown, L!IsEmpty
<1>5. L!GoesOnLoggedIn' /\ L!FailsForAReason'
  BY <1>1 DEF L!GoesOnLoggedIn, L!FailsForAReason
<1> QED
  BY <1>1, <1>2, <1>3, <1>4, <1>5, StoreKept, FaultsCount

LEMMA NewValueAuthKept == ASSUME LInv, L!NewValueAuth PROVE LInv'
<1>1. pc = "provider" /\ method \in Forms /\ (method \in {"token", "cookie"} => L!Works(input) /\ confirmed)
      /\ (L!IsEmpty(input) => gaveUp)
  BY DEF L!NewValueAuth, LInv, LKnown
<1>2. gate \subseteq {"token", "closed", "timeout"} /\ gaveUp \in BOOLEAN /\ confirmed \in BOOLEAN
      /\ input \in L!Providers \cup {L!Nothing}
  BY DEF LInv, LTypes, L!TypeOK
<1>3. CASE L!IsEmpty(input) /\ L!Move("failed")
  BY <1>1, <1>2, <1>3, MoveKept DEF L!Move
<1>4. CASE method = "cookie" /\ L!Fault /\ L!Error
  BY <1>4, ErrorKept
<1>5. CASE /\ ~L!IsEmpty(input) /\ pc' = "create"
           /\ input' = IF method = "tokenfile" THEN [input EXCEPT !.cookie = "wrong"] ELSE input
           /\ UNCHANGED <<command, method, confirmed, gate, store, selected, savedBy, gaveUp, rounds, faults>>
  <2>1. input \in L!Providers
    BY <1>2, <1>5 DEF L!IsEmpty, L!Nothing
  <2>2. input' \in L!Providers
    BY <1>5, <2>1 DEF L!Providers
  <2>3. LKnown'
    <3>1. method \in {"token", "cookie"} => L!Works(input)'
      BY <1>1, <1>5 DEF L!Works
    <3> QED
      BY <1>1, <1>5, <3>1 DEF LInv, LKnown, Forms
  <2>4. L!GoesOnLoggedIn' /\ L!FailsForAReason'
    BY <1>5 DEF L!GoesOnLoggedIn, L!FailsForAReason
  <2> QED
    BY <1>1, <1>2, <1>5, <2>2, <2>3, <2>4, StoreKept, FaultsCount
<1> QED
  BY <1>3, <1>4, <1>5 DEF L!NewValueAuth

LEMMA CreateAndSelectKept == ASSUME LInv, L!CreateAndSelect PROVE LInv'
<1>1. /\ pc = "create" /\ (method \in {"token", "cookie"} => confirmed)
      /\ method \in {"tokenfile", "secrets"} \/ L!Works(input)
      /\ method \in Forms \cup {"browser"} /\ gaveUp \in BOOLEAN
  BY DEF L!CreateAndSelect, LInv, LKnown, LTypes, L!TypeOK
<1>2. \/ L!Rejected = "retry" /\ method \in {"token", "cookie", "tokenfile"}
      \/ L!Rejected = "failed" /\ method \notin {"token", "cookie", "tokenfile"}
  BY DEF L!Rejected
<1>3. CASE L!Works(input) /\ L!Move("save")
  BY <1>1, <1>3, MoveKept DEF L!Move
<1>4. CASE ~L!Works(input) /\ L!Move(L!Rejected)
  BY <1>1, <1>2, <1>4, MoveKept DEF L!Move
<1>5. CASE L!Works(input) /\ L!Fault /\ L!Goto(L!Rejected) /\ UNCHANGED gaveUp
  BY <1>1, <1>2, <1>5, MoveKept, FaultsCount
<1> QED
  BY <1>3, <1>4, <1>5 DEF L!CreateAndSelect

LEMMA SavedAs ==
  ASSUME savedBy' = <<method, confirmed>>, L!Works(store)' \/ method = "flags" \/ faults' > 0,
         method \in {"token", "cookie"} => confirmed, pc' = "retry" /\ faults' = 0 => method' = "tokenfile"
  PROVE  L!NothingSpoiled'
<1>1. savedBy'[1] = method /\ savedBy'[2] = confirmed
  OBVIOUS
<1> QED
  BY <1>1 DEF L!NothingSpoiled

LEMMA SaveCredsKept == ASSUME LInv, L!SaveCreds PROVE LInv'
<1>1. /\ pc = "save" /\ (method = "flags" \/ L!Works(input))
      /\ UNCHANGED <<command, method, input, confirmed, gate, selected, gaveUp, rounds>>
  BY DEF L!SaveCreds, LInv, LKnown
<1>2. method \in {"token", "cookie"} => confirmed
  BY <1>1 DEF LInv, LKnown
<1>3. /\ \/ UNCHANGED faults /\ pc' \in {"ready", "select"}
         \/ L!Fault /\ pc' \in {"ready", "failed", "retry"}
      /\ pc' = "ready" => L!Own
      /\ pc' = "retry" => method \in {"token", "cookie", "tokenfile"}
      /\ \/ store' = input /\ savedBy' = <<method, confirmed>> /\ UNCHANGED faults
         \/ L!Fault /\ store' = L!Partial /\ savedBy' = <<method, confirmed>>
         \/ L!Fault /\ UNCHANGED <<store, savedBy>>
  BY DEF L!SaveCreds, L!Rejected
<1>4. faults' \in 0..MaxFaults /\ (faults > 0 => faults' > 0)
  BY <1>3, FaultsCount
<1>5. pc' \in {"failed", "retry"} => faults' > 0
  BY <1>3, FaultsCount
<1>6. L!Works(input)' = L!Works(input)
  BY <1>1 DEF L!Works
<1>7. LTypes'
  <2>1. L!TypeOK /\ method' = method /\ pc' \in {"ready", "select", "failed", "retry"}
    BY <1>1, <1>3 DEF LInv, LTypes
  <2>2. store' \in L!Providers \cup {L!Nothing, L!Partial}
    BY <1>3, <2>1 DEF L!TypeOK
  <2>3. L!TypeOK'
    BY <1>1, <1>4, <2>1, <2>2 DEF L!TypeOK, L!Commands, L!Providers, L!Nothing, L!Partial
  <2> QED
    BY <2>1, <2>3 DEF LInv, LTypes, Forms
<1>8. LKnown'
  <2>1. pc' = "select" => L!Works(store)' /\ store' = input'
    <3>1. CASE pc' = "select"
      <4>1. store' = input /\ ~L!Own
        BY <1>3, <3>1, FaultsCount DEF L!SaveCreds
      <4> QED
        BY <1>1, <1>6, <4>1 DEF L!Own, L!Works
    <3> QED
      BY <3>1
  <2> QED
    BY <1>1, <1>3, <1>4, <2>1 DEF LInv, LKnown
<1>9. L!SuccessIsTrue' /\ L!GoesOnLoggedIn' /\ L!FailsForAReason'
  BY <1>1, <1>3, <1>5, <1>6 DEF L!SuccessIsTrue, L!GoesOnLoggedIn, L!FailsForAReason
<1>10. L!NothingSpoiled'
  <2>1. pc' = "retry" /\ faults' = 0 => method' = "tokenfile"
    BY <1>3, <1>5
  <2>2. CASE store' = input /\ savedBy' = <<method, confirmed>>
    <3>1. L!Works(store)' <=> L!Works(input)
      BY <2>2 DEF L!Works
    <3> QED
      BY <1>1, <1>2, <2>1, <2>2, <3>1, SavedAs
  <2>3. CASE L!Fault /\ savedBy' = <<method, confirmed>>
    BY <1>2, <2>1, <2>3, FaultsCount, SavedAs
  <2>4. CASE L!Fault /\ UNCHANGED <<store, savedBy>>
    <3>1. faults' > 0
      BY <2>4, FaultsCount
    <3>2. savedBy' = savedBy /\ (savedBy[1] \in {"token", "cookie"} => savedBy[2])
      BY <2>4 DEF LInv, LGoals, L!NothingSpoiled
    <3> QED
      BY <2>1, <3>1, <3>2 DEF L!NothingSpoiled
  <2> QED
    BY <1>3, <2>2, <2>3, <2>4
<1> QED
  BY <1>7, <1>8, <1>9, <1>10 DEF LInv, LGoals

LEMMA SelectsKept == ASSUME LInv, L!Select PROVE LInv'
<1>1. /\ L!Works(store) /\ store = input
      /\ UNCHANGED <<command, method, input, confirmed, gate, store, savedBy, gaveUp, rounds>>
      /\ \/ selected' = TRUE /\ pc' = "note" /\ UNCHANGED faults
         \/ L!Fault /\ pc' = L!Rejected /\ UNCHANGED selected
  BY DEF L!Select, LInv, LKnown
<1>2. \/ L!Rejected = "retry" /\ method \in {"token", "cookie", "tokenfile"}
      \/ L!Rejected = "failed"
  BY DEF L!Rejected
<1>3. faults' \in 0..MaxFaults /\ (faults > 0 => faults' > 0) /\ (pc' \in {"failed", "retry"} => faults' > 0)
  BY <1>1, FaultsCount
<1>4. L!Works(store)' = L!Works(store)
  BY <1>1 DEF L!Works
<1>5. LTypes'
  <2>1. L!TypeOK /\ pc' \in {"note", "failed", "retry"} /\ selected' \in BOOLEAN
    BY <1>1, <1>2 DEF LInv, LTypes, L!TypeOK
  <2>2. L!TypeOK'
    BY <1>1, <1>3, <2>1 DEF L!TypeOK, L!Commands, L!Providers, L!Nothing, L!Partial
  <2> QED
    BY <1>1, <2>1, <2>2 DEF LInv, LTypes, Forms
<1>6. LKnown'
  BY <1>1, <1>2, <1>3 DEF LInv, LKnown
<1>7. L!SuccessIsTrue' /\ L!GoesOnLoggedIn' /\ L!FailsForAReason'
  BY <1>1, <1>2, <1>3, <1>4 DEF L!SuccessIsTrue, L!GoesOnLoggedIn, L!FailsForAReason
<1>8. L!NothingSpoiled'
  BY <1>1, <1>3, <1>4 DEF LInv, LGoals, L!NothingSpoiled
<1> QED
  BY <1>5, <1>6, <1>7, <1>8 DEF LInv, LGoals

LEMMA AskRetryKept == ASSUME LInv, L!AskRetry PROVE LInv'
<1>1. method \in Forms /\ gaveUp \in BOOLEAN
  BY DEF L!AskRetry, LInv, LKnown, LTypes, L!TypeOK, Forms
<1>2. L!Returned \in {"auth", "menu"}
  BY DEF L!Returned
<1>3. CASE L!Move("form")
  BY <1>1, <1>3, MoveKept DEF L!Move
<1> QED
  BY <1>2, <1>3, LeaveKept DEF L!AskRetry

LEMMA SuccessKept == ASSUME LInv, L!Success PROVE LInv'
<1>1. L!Works(store) /\ store \in L!Providers \cup {L!Nothing, L!Partial} /\ gaveUp \in BOOLEAN
  BY DEF L!Success, LInv, LGoals, L!SuccessIsTrue, LTypes, L!TypeOK
<1>2. store # L!Nothing
  BY <1>1, Working
<1>3. L!Goto(L!Returned) /\ UNCHANGED <<gaveUp, faults>> /\ L!Returned \in {"auth", "menu"}
  BY DEF L!Success, L!Move, L!Returned
<1> QED
  BY <1>1, <1>2, <1>3, MoveKept

\* The browser's credentials work.
LEMMA LoggedInKept ==
  ASSUME LInv, pc \in {"type", "guard"}, L!LoggedIn(L!Entered)
  PROVE  LInv'
<1>1. /\ method \in {"browser", "again"} /\ input' \in L!Providers /\ L!Works(input')
      /\ UNCHANGED <<command, method, confirmed, gate, store, selected, savedBy, gaveUp, rounds, faults>>
      /\ \/ pc' = "save" /\ method = "again"
         \/ pc' = "create" /\ method = "browser"
  BY Fresh DEF LInv, LKnown, L!LoggedIn, L!Entered
<1>2. gate \subseteq {"token", "closed", "timeout"} /\ gaveUp \in BOOLEAN /\ confirmed \in BOOLEAN
  BY DEF LInv, LTypes, L!TypeOK
<1>3. LKnown'
  <2>1. L!Works(input)'
    BY <1>1 DEF L!Works
  <2> QED
    BY <1>1, <2>1 DEF LInv, LKnown
<1>4. L!GoesOnLoggedIn' /\ L!FailsForAReason'
  BY <1>1 DEF L!GoesOnLoggedIn, L!FailsForAReason
<1> QED
  BY <1>1, <1>2, <1>3, <1>4, StoreKept, FaultsCount

LEMMA NewRODAuthKept == ASSUME LInv, L!NewRODAuth PROVE LInv'
<1>1. L!Returned \in {"auth", "menu"}
  BY DEF L!Returned
<1> QED
  BY <1>1, LoggedInKept, LeaveKept, ErrorKept DEF L!NewRODAuth

LEMMA NewPlaywrightAuthKept == ASSUME LInv, L!NewPlaywrightAuth PROVE LInv'
<1>1. /\ pc = "type" /\ pc' = "guard" /\ gate' = {}
      /\ UNCHANGED <<command, method, input, confirmed, store, selected, savedBy, gaveUp, rounds, faults>>
  BY DEF L!NewPlaywrightAuth
<1>2. method \in {"browser", "again"} /\ gaveUp \in BOOLEAN /\ confirmed \in BOOLEAN
      /\ input \in L!Providers \cup {L!Nothing}
  BY <1>1 DEF LInv, LKnown, LTypes, L!TypeOK
<1>3. LKnown'
  BY <1>1, <1>2 DEF LKnown
<1>4. L!GoesOnLoggedIn' /\ L!FailsForAReason'
  BY <1>1 DEF L!GoesOnLoggedIn, L!FailsForAReason
<1> QED
  BY <1>1, <1>2, <1>3, <1>4, StoreKept, FaultsCount

LEMMA HappensKept == ASSUME LInv, L!Happens PROVE LInv'
<1>1. /\ pc = "guard" /\ UNCHANGED <<command, pc, method, input, confirmed, store, selected, savedBy, rounds>>
      /\ \/ gate' = gate \cup {"token"} /\ UNCHANGED <<gaveUp, faults>>
         \/ gate' = gate \cup {"closed"} /\ gaveUp' = TRUE /\ UNCHANGED faults
         \/ gate' = gate \cup {"timeout"} /\ L!Fault /\ UNCHANGED gaveUp
  BY DEF L!Happens
<1>2. method \in {"browser", "again"} /\ gaveUp \in BOOLEAN /\ confirmed \in BOOLEAN
      /\ input \in L!Providers \cup {L!Nothing} /\ gate \subseteq {"token", "closed", "timeout"}
  BY <1>1 DEF LInv, LKnown, LTypes, L!TypeOK
<1>3. faults' \in 0..MaxFaults /\ (faults > 0 => faults' > 0)
  BY <1>1, FaultsCount
<1>4. gaveUp' \in BOOLEAN /\ gate' \subseteq {"token", "closed", "timeout"}
  BY <1>1, <1>2
<1>5. ("closed" \in gate' => gaveUp') /\ ("timeout" \in gate' => faults' > 0)
  BY <1>1, <1>3, FaultsCount DEF LInv, LKnown
<1>6. LKnown'
  BY <1>1, <1>2, <1>5 DEF LKnown
<1>7. L!GoesOnLoggedIn' /\ L!FailsForAReason'
  BY <1>1 DEF L!GoesOnLoggedIn, L!FailsForAReason
<1> QED
  BY <1>1, <1>2, <1>3, <1>4, <1>6, <1>7, StoreKept, FaultsCount

LEMMA WithBrowserGuardKept == ASSUME LInv, L!WithBrowserGuard PROVE LInv'
<1>1. CASE L!LoggedIn(L!Entered)
  BY <1>1, LoggedInKept DEF L!WithBrowserGuard
<1>2. CASE gate \cap {"closed", "timeout"} # {} /\ L!Move("failed")
  <2>1. (gaveUp \/ faults > 0) /\ gaveUp \in BOOLEAN
    BY <1>2 DEF LInv, LKnown, LTypes, L!TypeOK
  <2> QED
    BY <1>2, <2>1, MoveKept DEF L!Move
<1> QED
  BY <1>1, <1>2 DEF L!WithBrowserGuard

LEMMA LStep == LInv /\ [L!Next]_(L!vars) => LInv'
<1> SUFFICES ASSUME LInv, [L!Next]_(L!vars) PROVE LInv'
  OBVIOUS
<1>1. CASE UNCHANGED L!vars
  <2>1. UNCHANGED <<command, pc, method, input, confirmed, gate, store, selected, savedBy, gaveUp, rounds, faults>>
    BY <1>1 DEF L!vars
  <2>2. LTypes'
    BY <2>1 DEF LInv, LTypes, L!TypeOK, L!Commands, L!Providers, L!Nothing, L!Partial
  <2>3. L!Works(store)' = L!Works(store) /\ L!Works(input)' = L!Works(input) /\ L!IsEmpty(input)' = L!IsEmpty(input)
    BY <2>1 DEF L!Works, L!IsEmpty
  <2>4. LKnown'
    BY <2>1, <2>3 DEF LInv, LKnown
  <2>5. LGoals'
    BY <2>1, <2>3 DEF LInv, LGoals, L!SuccessIsTrue, L!GoesOnLoggedIn, L!FailsForAReason, L!NothingSpoiled
  <2> QED
    BY <2>2, <2>4, <2>5 DEF LInv
<1>2. CASE L!PrgTokenCookie
  BY <1>2, FilledKept DEF L!PrgTokenCookie
<1>3. CASE L!PrgCookieOnly
  BY <1>3, FilledKept DEF L!PrgCookieOnly
<1>4. CASE L!PrgTokenCookieFile
  BY <1>4, FilledKept DEF L!PrgTokenCookieFile
<1> QED
  BY <1>1, <1>2, <1>3, <1>4, TryLoadKept, AuthProviderKept, ShowUIKept, MenuKept, AbortKept, FileWithSecretsKept,
     NewValueAuthKept, CreateAndSelectKept, SaveCredsKept, SelectsKept, AskRetryKept, SuccessKept,
     NewRODAuthKept, NewPlaywrightAuthKept, HappensKept, WithBrowserGuardKept DEF L!Next

-----------------------------------------------------------------------------
(* The four together: a step of the host is a step of one of them and      *)
(* leaves the others alone.                                                *)

LEMMA HostParameters == AP!Parameters /\ MaxRuns \in Nat
BY HostAssumption DEF AP!Parameters

LEMMA ArchiveBegins == A!Init => AP!Init
BY DEF A!Init, AP!Init, A!Nothing, AP!Nothing

LEMMA ArchivePosts ==
  /\ \A c \in Channels : A!Post(c) => AP!Post(c)
  /\ \A m \in posted : A!Respond(m) => AP!Respond(m)
BY DEF A!Post, AP!Post, A!Respond, AP!Respond, A!database, AP!database, A!work, AP!work, A!history, AP!history

LEMMA ArchiveWindows == A!Windows = AP!Windows /\ A!ThreadItems = AP!ThreadItems
BY DEF A!Windows, AP!Windows, A!ThreadItems, AP!ThreadItems, A!LatestMessages, AP!LatestMessages,
       A!LatestThreads, AP!LatestThreads, A!Oldest, AP!Oldest, A!Max, AP!Max

LEMMA ArchiveRuns ==
  /\ A!Begin => AP!Begin
  /\ A!Succeed \/ A!Fail \/ A!Close \/ A!Crash => AP!Succeed \/ AP!Fail \/ AP!Close \/ AP!Crash
<1>1. A!Begin => AP!Begin
  BY ArchiveWindows DEF A!Begin, AP!Begin, A!Nothing, AP!Nothing, A!workspace, AP!workspace, A!database, AP!database
<1>2. A!Succeed => AP!Succeed
  BY DEF A!Succeed, AP!Succeed, A!Nothing, AP!Nothing, A!workspace, AP!workspace, A!database, AP!database,
         A!work, AP!work, A!history, AP!history
<1>3. A!Fail => AP!Fail
  BY DEF A!Fail, AP!Fail, A!workspace, AP!workspace, A!database, AP!database, A!work, AP!work, A!history, AP!history
<1>4. A!Close => AP!Close
  BY DEF A!Close, AP!Close, A!Nothing, AP!Nothing, A!workspace, AP!workspace, A!database, AP!database
<1>5. A!Crash => AP!Crash
  BY DEF A!Crash, AP!Crash, A!Nothing, AP!Nothing, A!workspace, AP!workspace, A!database, AP!database
<1> QED
  BY <1>1, <1>2, <1>3, <1>4, <1>5

LEMMA ArchiveFetches == A!Fetch => AP!Fetch
<1>1. A!NextChannel => AP!NextChannel
  BY DEF A!NextChannel, AP!NextChannel, A!Active, AP!Active, A!Nothing, AP!Nothing, A!workspace, AP!workspace,
         A!database, AP!database, A!history, AP!history
<1>2. A!Wanted = AP!Wanted
  BY DEF A!Wanted, AP!Wanted
<1>3. A!Page(A!Wanted) = AP!Page(AP!Wanted)
  <2>1. ASSUME NEW S PROVE A!Cardinality(S) = AP!Cardinality(S)
    BY DEF A!Cardinality, AP!Cardinality
  <2> QED
    BY <1>2, <2>1 DEF A!Page, AP!Page
<1>4. A!HasMore(A!Wanted) = AP!HasMore(AP!Wanted)
  BY <1>2, <1>3 DEF A!HasMore, AP!HasMore
<1>5. A!Started(A!Page(A!Wanted)) = AP!Started(AP!Page(AP!Wanted))
  BY <1>3 DEF A!Started, AP!Started
<1>6. A!Cursor(A!Page(A!Wanted)) = AP!Cursor(AP!Page(AP!Wanted))
  BY <1>3 DEF A!Cursor, AP!Cursor, A!Min, AP!Min
<1>7. A!FetchPage => AP!FetchPage
  BY <1>3, <1>4, <1>5, <1>6 DEF A!FetchPage, AP!FetchPage, A!Active, AP!Active, A!Nothing, AP!Nothing,
     A!workspace, AP!workspace, A!history, AP!history
<1>8. A!FetchThread => AP!FetchThread
  BY DEF A!FetchThread, AP!FetchThread, A!Active, AP!Active, A!workspace, AP!workspace, A!history, AP!history
<1> QED
  BY <1>1, <1>7, <1>8 DEF A!Fetch, AP!Fetch

LEMMA ArchiveSteps == [A!Next]_(A!vars) => [AP!Next]_(AP!vars)
<1>1. A!Next => AP!Next
  BY ArchivePosts, ArchiveRuns, ArchiveFetches DEF A!Next, AP!Next
<1>2. UNCHANGED A!vars => UNCHANGED AP!vars
  BY DEF A!vars, AP!vars, A!workspace, AP!workspace, A!database, AP!database, A!work, AP!work, A!history, AP!history
<1> QED
  BY <1>1, <1>2

LEMMA HostSteps ==
  [GuiStep \/ ArchiveStep \/ WorkspacesStep \/ LoginStep]_all =>
    [Next]_vars /\ [A!Next]_(A!vars) /\ [W!Next]_(W!vars) /\ [L!Next]_(L!vars)
<1> SUFFICES ASSUME [GuiStep \/ ArchiveStep \/ WorkspacesStep \/ LoginStep]_all
             PROVE  [Next]_vars /\ [A!Next]_(A!vars) /\ [W!Next]_(W!vars) /\ [L!Next]_(L!vars)
  OBVIOUS
<1>1. UNCHANGED archive => UNCHANGED A!vars
  BY DEF archive, A!vars, A!workspace, A!database, A!work, A!history
<1>2. UNCHANGED workspaces => UNCHANGED W!vars
  BY DEF workspaces, W!vars
<1>3. UNCHANGED login => UNCHANGED L!vars
  BY DEF login, L!vars
<1> QED
  BY <1>1, <1>2, <1>3 DEF GuiStep, ArchiveStep, WorkspacesStep, LoginStep, all

LEMMA HostImplements == HostSpec => Spec /\ AP!Spec
<1>1. HostInit => Init /\ AP!Init
  BY ArchiveBegins DEF HostInit
<1>2. [GuiStep \/ ArchiveStep \/ WorkspacesStep \/ LoginStep]_all => [Next]_vars /\ [AP!Next]_(AP!vars)
  BY HostSteps, ArchiveSteps
<1> QED
  BY <1>1, <1>2, PTL DEF HostSpec, Spec, AP!Spec

\* Everything that outlives a run keeps its type, for any processes, workspaces, credentials, pages
\* and number of runs.
THEOREM HostTypes == HostSpec => []HostTypeOK
<1>1. HostInit => WInv /\ LInv
  BY WInit, LInit DEF HostInit
<1>2. WInv /\ LInv /\ [GuiStep \/ ArchiveStep \/ WorkspacesStep \/ LoginStep]_all => (WInv /\ LInv)'
  BY HostSteps, WStep, LStep
<1>3. WInv /\ LInv => W!TypeOK /\ L!TypeOK
  BY DEF WInv, WTypes, WProcs, LInv, LTypes, W!TypeOK
<1>4. AP!TypeOK => A!TypeOK
  BY DEF AP!TypeOK, A!TypeOK, AP!Message, A!Message, AP!Reply, A!Reply, AP!Nothing, A!Nothing
<1>5. AP!Spec => []AP!TypeOK
  BY AP!ArchiveTypes, HostParameters
<1>6. TypeOK /\ A!TypeOK /\ W!TypeOK /\ L!TypeOK => HostTypeOK
  BY DEF HostTypeOK
<1> QED
  BY <1>1, <1>2, <1>3, <1>4, <1>5, <1>6, HostImplements, GuiTypes, PTL DEF HostSpec

\* The archive of the host is the archive proved to be without gaps: whatever else the host does, runs
\* that completed leave nothing missing in their windows, between them, or in the threads known before.
THEOREM HostArchiveWhole == HostSpec => []NothingMissing
<1>1. AP!WindowComplete => A!WindowComplete
  BY DEF A!WindowComplete, AP!WindowComplete
<1>2. AP!NoGap => A!NoGap
  BY DEF A!NoGap, AP!NoGap
<1>3. AP!KnownThreads => A!KnownThreads
  BY DEF A!KnownThreads, AP!KnownThreads
<1>4. AP!Spec => []AP!WindowComplete
  BY AP!CompletedRunsHoldTheirWindow, HostParameters
<1>5. AP!Spec => []AP!NoGap
  BY AP!CompletedRunsLeaveNoGap, HostParameters
<1>6. AP!Spec => []AP!KnownThreads
  BY AP!KnownThreadsAreKept, HostParameters
<1>7. A!WindowComplete /\ A!NoGap /\ A!KnownThreads => NothingMissing
  BY DEF NothingMissing
<1> QED
  BY <1>1, <1>2, <1>3, <1>4, <1>5, <1>6, <1>7, HostImplements, PTL

\* A command works where the user chose to, whatever other commands run beside it unless it is not alone;
\* and a login says that it succeeded, goes on, fails and saves credentials only with reason, for any
\* credentials on the command line, any number of attempts and of faults.
THEOREM RightWorkspaceAlways == HostSpec => []RightWorkspace
<1>1. HostInit => WInv /\ LInv
  BY WInit, LInit DEF HostInit
<1>2. WInv /\ LInv /\ [GuiStep \/ ArchiveStep \/ WorkspacesStep \/ LoginStep]_all => (WInv /\ LInv)'
  BY HostSteps, WStep, LStep
<1>3. WInv /\ LInv => RightWorkspace
  BY DEF WInv, Choice, LInv, LGoals, RightWorkspace
<1> QED
  BY <1>1, <1>2, <1>3, PTL DEF HostSpec
=============================================================================
