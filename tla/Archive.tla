-------------------------------- MODULE Archive --------------------------------
(***************************************************************************)
(* The life of a database archive (cmd/slackdump/internal/archive, resume; *)
(* backend/dbase): an archive run and the resume runs after it, each a     *)
(* session in the database, while people go on posting.  A run takes the   *)
(* channels with the oldest timestamp it wants of each, fetches their      *)
(* history newest first, page by page, each page one transaction, and the  *)
(* threads it finds on the pages; what a resume wants follows from the     *)
(* latest messages in the database.  A run may fail, or the process be     *)
(* killed, at any moment.  Time is the number of messages posted; that a   *)
(* run without an error fetches all it set out for is shown of ConvStream. *)
(***************************************************************************)
EXTENDS Integers, FiniteSets, FiniteSetsExt

CONSTANTS
  Channels,
  PageSize,        \* messages on a history page
  Lookback,        \* resumeFlags.Lookback
  Refresh,         \* resumeFlags.Refresh
  IncludeThreads,  \* resumeFlags.IncludeThreads
  MaxTime,         \* bound: number of messages posted
  MaxRuns          \* bound: number of sessions

\* A message of a channel's history, or a reply in the thread that message starts.
Message == [chan : Channels, ts : 1..MaxTime]
Reply == [root : Message, ts : 1..MaxTime]

VARIABLES
  now, posted, replies,    \* the workspace
  stored, storedReplies,   \* messages in the database, of type-0 and type-1 chunks
  opened,                  \* threads of which there is a type-1 chunk
  run, session,            \* state of the run, and of its session: FINISHED or not
  runs,                    \* number of sessions
  todo, fetching,          \* channels not begun; the channel being fetched, at its cursor
  threads,                 \* threads to fetch
  window,                  \* history: the oldest timestamp the run wants of each channel
  atStart,                 \* history: what had been posted when the run began
  clean                    \* history: every run before this one has completed

workspace == <<now, posted, replies>>
database == <<stored, storedReplies, opened>>
work == <<todo, fetching, threads>>
history == <<window, atStart, clean>>
vars == <<workspace, database, run, session, runs, work, history>>

Nothing == [chan |-> "-", oldest |-> 0, before |-> 0]

Init ==
  /\ now = 0 /\ posted = {} /\ replies = {}
  /\ stored = {} /\ storedReplies = {} /\ opened = {}
  /\ run = "idle" /\ session = "none" /\ runs = 0
  /\ todo = {} /\ fetching = Nothing /\ threads = {}
  /\ window = <<>> /\ atStart = [messages |-> {}, replies |-> {}] /\ clean = TRUE

-----------------------------------------------------------------------------
(* The workspace.                                                          *)

Post(c) ==
  /\ now < MaxTime /\ now' = now + 1
  /\ posted' = posted \cup {[chan |-> c, ts |-> now + 1]}
  /\ UNCHANGED <<replies, database, run, session, runs, work, history>>

Respond(m) ==
  /\ now < MaxTime /\ now' = now + 1
  /\ replies' = replies \cup {[root |-> m, ts |-> now + 1]}
  /\ UNCHANGED <<posted, database, run, session, runs, work, history>>

-----------------------------------------------------------------------------
(* The beginning of a run.                                                 *)

\* Source.Latest: the newest message stored of each channel and of each thread.
LatestMessages == [c \in {m.chan : m \in stored} |-> Max({m.ts : m \in {x \in stored : x.chan = c}})]
LatestThreads == [t \in opened |-> Max({t.ts} \cup {r.ts : r \in {x \in storedReplies : x.root = t}})]

Oldest(ts) == ts - Lookback

\* The threads of the list.
ThreadItems ==
  IF IncludeThreads THEN {[root |-> t, oldest |-> Oldest(LatestThreads[t])] : t \in opened} ELSE {}

\* Without an entity all channels are asked for; with -refresh those that are not in the
\* list are added to it, with no oldest timestamp.
Windows ==
  LET known == DOMAIN LatestMessages
      added == IF Refresh \/ (known = {} /\ ThreadItems = {}) THEN Channels \ known ELSE {}
  IN [c \in known \cup added |-> IF c \in known THEN Oldest(LatestMessages[c]) ELSE 0]

\* dbase.New inserts a session that is not finished.
Begin ==
  /\ run = "idle" /\ runs < MaxRuns
  /\ runs' = runs + 1 /\ run' = "run" /\ session' = "unfinished"
  /\ window' = Windows /\ todo' = DOMAIN Windows /\ threads' = ThreadItems
  /\ fetching' = Nothing
  /\ atStart' = [messages |-> posted, replies |-> replies]
  /\ UNCHANGED <<workspace, database, clean>>

-----------------------------------------------------------------------------
(* The run; after an error its workers can go on for a while.              *)

Active == run \in {"run", "failed"}

\* Inclusive is false when resuming.
NextChannel ==
  /\ Active /\ fetching = Nothing
  /\ \E c \in todo :
       /\ fetching' = [chan |-> c, oldest |-> window[c], before |-> MaxTime + 1]
       /\ todo' = todo \ {c}
  /\ UNCHANGED <<workspace, database, run, session, runs, threads, history>>

\* conversations.history: of the wanted messages before the cursor the newest PageSize.
Wanted == {m \in posted : m.chan = fetching.chan /\ m.ts > fetching.oldest /\ m.ts < fetching.before}
Page(W) == {m \in W : Cardinality({x \in W : x.ts > m.ts}) < PageSize}
Started(S) == {m \in S : \E r \in replies : r.root = m}

HasMoreFull(W) == Cardinality(W) > 2 * PageSize   \* mutation of HasMore: the last page is not asked for
HasMore(W) == W # Page(W)

\* The cursor for the page that follows.
Cursor(page) == Min({m.ts : m \in page})

FetchPage ==
  /\ Active /\ fetching # Nothing
  /\ LET page == Page(Wanted) IN
     /\ stored' = stored \cup page
     /\ threads' = threads \cup {[root |-> m, oldest |-> 0] : m \in Started(page)}
     /\ fetching' = IF HasMore(Wanted) THEN [fetching EXCEPT !.before = Cursor(page)] ELSE Nothing
  /\ UNCHANGED <<workspace, storedReplies, opened, run, session, runs, todo, history>>

\* The whole of a thread found on a page, or what is newer of a thread in the list.
FetchThread ==
  /\ Active
  /\ \E t \in threads :
       /\ storedReplies' = storedReplies \cup {r \in replies : r.root = t.root /\ r.ts > t.oldest}
       /\ opened' = opened \cup {t.root}
       /\ threads' = threads \ {t}
  /\ UNCHANGED <<workspace, stored, run, session, runs, todo, fetching, history>>

\* Conversations returns nil, or an error of the API or of the processor, or that of a
\* cancelled context (a cancelled list that is taken for one at its end is left to Runner).
Succeed ==
  /\ run = "run" /\ todo = {} /\ fetching = Nothing /\ threads = {}
  /\ run' = "ok"
  /\ UNCHANGED <<workspace, database, session, runs, work, history>>
Fail ==
  /\ run = "run"
  /\ run' = "failed"
  /\ UNCHANGED <<workspace, database, session, runs, work, history>>

\* The deferred Close of the controller finalises the session, whatever Run returned.
Close ==
  /\ run \in {"ok", "failed"}
  /\ session' = "finished" /\ run' = "idle"
  /\ clean' = (clean /\ run = "ok")
  /\ todo' = {} /\ fetching' = Nothing /\ threads' = {}
  /\ UNCHANGED <<workspace, database, runs, window, atStart>>

\* The process is killed: what has been committed stays.
Crash ==
  /\ run \in {"run", "failed"}
  /\ run' = "idle" /\ clean' = FALSE
  /\ todo' = {} /\ fetching' = Nothing /\ threads' = {}
  /\ UNCHANGED <<workspace, database, session, runs, window, atStart>>

-----------------------------------------------------------------------------

Fetch == NextChannel \/ FetchPage \/ FetchThread
Next ==
  \/ \E c \in Channels : Post(c)
  \/ \E m \in posted : Respond(m)
  \/ Begin \/ Fetch \/ Succeed \/ Fail \/ Close \/ Crash

Spec == Init /\ [][Next]_vars

-----------------------------------------------------------------------------
(* Properties                                                              *)

TypeOK ==
  /\ now \in 0..MaxTime /\ posted \subseteq Message /\ replies \subseteq Reply
  /\ stored \subseteq posted /\ storedReplies \subseteq replies /\ opened \subseteq posted
  /\ run \in {"idle", "run", "ok", "failed"}
  /\ session \in {"none", "unfinished", "finished"} /\ runs \in 0..MaxRuns
  /\ DOMAIN window \subseteq Channels /\ \A c \in DOMAIN window : window[c] <= now
  /\ todo \subseteq DOMAIN window
  /\ fetching = Nothing \/ fetching.chan \in DOMAIN window
  /\ \A t \in threads : t.root \in posted
  /\ clean \in BOOLEAN

\* A run that has completed holds all that had been posted when it began in the window it
\* set out for, with the threads started in it: whatever went wrong in earlier runs.
WindowComplete ==
  run = "ok" =>
    /\ \A m \in atStart.messages :
         m.chan \in DOMAIN window /\ m.ts > window[m.chan] => m \in stored
    /\ \A r \in atStart.replies :
         r.root.chan \in DOMAIN window /\ r.root.ts > window[r.root.chan] => r \in storedReplies

\* After runs that have all completed no message is missing in a channel the run went for:
\* the windows of the runs leave no gap, although people post while they are fetched.
NoGap ==
  run = "ok" /\ clean =>
    \A m \in atStart.messages : m.chan \in DOMAIN window => m \in stored

\* With -threads a thread that is in the database is brought up to date.
KnownThreads ==
  run = "ok" /\ clean /\ IncludeThreads =>
    \A r \in atStart.replies : r.root \in opened => r \in storedReplies

\* resume.md:3,6: the archive is continued where it was left off, after a crash or an
\* interruption too: once the resume has completed nothing is missing.
ResumeContinues ==
  run = "ok" => \A m \in atStart.messages : m.chan \in DOMAIN window => m \in stored
=============================================================================
