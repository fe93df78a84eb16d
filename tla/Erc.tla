--------------------------------- MODULE Erc ---------------------------------
(***************************************************************************)
(* A session written to a directory of chunk files (directory.ERC): live,  *)
(* by the archive command behind the recorder, or out of a database, when  *)
(* a finished session is converted.  The chunks of a channel and of the    *)
(* threads found in it go to the channel's file, those of a thread that    *)
(* was asked for to a file of its own; what the recorder and the database  *)
(* keep of a chunk decides which file gets it.  A file is closed when its  *)
(* count drops to zero, and a closed file takes nothing more.              *)
(***************************************************************************)
EXTENDS Integers, Sequences, FiniteSets

CONSTANTS
  Channels, Threads,
  Home,       \* the channel of each thread
  Found,      \* Found[c]: the pages of c, each the sequence of threads started on it
  Replies,    \* number of pages of each thread
  LinkSets,   \* sets of channels and threads that may be asked for
  Lists       \* chunks of the files that are not conversations, by their type, in order

VARIABLES
  origin,     \* "stream" or "database"
  links,      \* channels and threads asked for
  waiting,    \* requests that no worker has taken
  req,        \* the request of each worker
  left,       \* what is left to record of the information about it
  page,       \* its next page
  lists,      \* chunks of Lists that are left
  file,       \* each file: "none", "open" or "closed"
  count,      \* reference counts of the open files
  written,    \* chunks in the files
  failed,     \* Encode has returned an error
  ended       \* ERC.Close has been called

vars == <<origin, links, waiting, req, left, page, lists, file, count, written, failed, ended>>

Workers == {"channel", "thread"}
Requests == [id : Channels \cup Threads, only : BOOLEAN]
Idle == [id |-> "-", only |-> FALSE]
\* The types with a file of their own; the session writes its file of the workspace once.
ListFiles == {Lists[i] : i \in 1..Len(Lists)}
Files == Channels \cup Threads \cup ListFiles
OnlyChunk(f) == f = "workspace"

\* A conversation chunk: its channel, the thread it is marked with, its page.
Chunk(type, r, p) ==
  [type |-> type, only |-> r.only, page |-> p,
   ch |-> IF r.id \in Threads THEN Home[r.id] ELSE r.id,
   ts |-> IF r.id \in Threads THEN r.id ELSE "-"]

\* The recorder does not keep the thread of ChannelUsers.
Recorded(k) == IF k.type = "users" THEN [k EXCEPT !.ts = "-"] ELSE k

\* What the database has of the chunk: no column holds the thread of ChannelInfo.
Assembled(k) == IF k.type \in {"info", "users"} THEN [k EXCEPT !.ts = "-"] ELSE k

Encoded(k) == IF origin = "stream" THEN Recorded(k) ELSE Assembled(Recorded(k))

ToFileID(ch, ts, includeThread) == IF includeThread /\ ts # "-" THEN ts ELSE ch

FileOf(k) == ToFileID(k.ch, k.ts, k.type \in {"info", "users"} \/ k.only)

NumThreads(k) == IF k.type = "messages" THEN Len(Found[k.ch][k.page]) ELSE 0

NumPages(id) == IF id \in Channels THEN Len(Found[id]) ELSE Replies[id]
LastPage(k) ==
  \/ k.type = "messages" /\ k.page = Len(Found[k.ch])
  \/ k.type = "thread" /\ k.page = Replies[k.ts]

Init ==
  /\ origin \in {"stream", "database"} /\ links \in LinkSets
  /\ waiting = {[id |-> l, only |-> l \in Threads] : l \in links}
  /\ req = [w \in Workers |-> Idle] /\ left = [w \in Workers |-> {}]
  /\ page = [w \in Workers |-> 1] /\ lists = Lists
  /\ file = [f \in Files |-> "none"] /\ count = [f \in Files |-> 0]
  /\ written = {} /\ failed = FALSE /\ ended = FALSE

\* A conversion stops at the first error; the workers of a stream notice it later.
Working == ~ended /\ (failed => origin = "stream")

\* The information and the users of a conversation are fetched side by side, before its pages; they
\* are not fetched again for a thread found on a page.
InfoWithUsers(w, r) == IF w = "channel" \/ r.only THEN {"info", "users"} ELSE {}

Take(w) ==
  /\ Working /\ req[w] = Idle
  /\ \E r \in waiting :
       /\ r.id \in Channels <=> w = "channel"
       /\ waiting' = waiting \ {r}
       /\ req' = [req EXCEPT ![w] = r] /\ page' = [page EXCEPT ![w] = 1]
       /\ left' = [left EXCEPT ![w] = InfoWithUsers(w, r)]
  /\ UNCHANGED <<origin, links, lists, file, count, written, failed, ended>>

\* A closed file cannot be created again.
Refused(w, k) ==
  /\ file[FileOf(k)] = "closed"
  /\ failed' = TRUE
  /\ req' = [req EXCEPT ![w] = Idle] /\ left' = [left EXCEPT ![w] = {}]
  /\ UNCHANGED <<waiting, page, file, count, written>>

\* filetracker: a file that is not tracked is created with a count of one.
CountOf(f) == IF file[f] = "none" THEN 1 ELSE count[f]

\* The chunk is written, creating its file if it has none, and the file closed with the last
\* page of everything that is expected in it.
Write(k) ==
  LET f == FileOf(k)
      n == CountOf(f) + NumThreads(k) - (IF LastPage(k) THEN 1 ELSE 0)
  IN /\ file[f] # "closed"
     /\ written' = written \cup {k} /\ count' = [count EXCEPT ![f] = n]
     /\ file' = [file EXCEPT ![f] = IF LastPage(k) /\ n <= 0 THEN "closed" ELSE "open"]
     /\ UNCHANGED failed

EncodeInfo(w) ==
  /\ Working
  /\ \E type \in left[w] :
       LET k == Encoded(Chunk(type, req[w], 0)) IN
       \/ Refused(w, k)
       \/ Write(k) /\ left' = [left EXCEPT ![w] = @ \ {type}] /\ UNCHANGED <<waiting, req, page>>
  /\ UNCHANGED <<origin, links, lists, ended>>

\* A page; the threads found on a channel's are asked for once it is written.
EncodePage(w) ==
  /\ Working /\ req[w] # Idle /\ left[w] = {}
  /\ LET k == Encoded(Chunk(IF w = "channel" THEN "messages" ELSE "thread", req[w], page[w])) IN
     \/ Refused(w, k)
     \/ /\ Write(k)
        /\ waiting' = waiting \cup (IF w = "channel"
             THEN {[id |-> Found[k.ch][k.page][i], only |-> FALSE] : i \in 1..NumThreads(k)} ELSE {})
        /\ req' = [req EXCEPT ![w] = IF LastPage(k) THEN Idle ELSE @]
        /\ page' = [page EXCEPT ![w] = IF LastPage(k) THEN 1 ELSE @ + 1]
        /\ UNCHANGED left
  /\ UNCHANGED <<origin, links, lists, ended>>

\* The workspace, the users, the channels and the results of a search have a file for each, the
\* first closed with its only chunk.
EncodeList ==
  /\ Working /\ lists # <<>>
  /\ LET f == Head(lists) IN
     IF file[f] = "closed"
     THEN failed' = TRUE /\ UNCHANGED <<file, count>>
     ELSE /\ file' = [file EXCEPT ![f] = IF OnlyChunk(f) THEN "closed" ELSE "open"]
          /\ count' = [count EXCEPT ![f] = @ + 1] /\ UNCHANGED failed
  /\ lists' = Tail(lists)
  /\ UNCHANGED <<origin, links, waiting, req, left, page, written, ended>>

Done == waiting = {} /\ lists = <<>> /\ \A w \in Workers : req[w] = Idle

\* ERC.Close closes what is open.
Close ==
  /\ ~ended /\ (failed \/ Done)
  /\ ended' = TRUE
  /\ file' = [f \in Files |-> IF file[f] = "open" THEN "closed" ELSE file[f]]
  /\ UNCHANGED <<origin, links, waiting, req, left, page, lists, count, written, failed>>

Next == Close \/ EncodeList \/ \E w \in Workers : Take(w) \/ EncodeInfo(w) \/ EncodePage(w)
Spec == Init /\ [][Next]_vars

-----------------------------------------------------------------------------
TypeOK ==
  /\ origin \in {"stream", "database"} /\ links \in LinkSets /\ waiting \subseteq Requests
  /\ req \in [Workers -> Requests \cup {Idle}] /\ left \in [Workers -> SUBSET {"info", "users"}]
  /\ page \in [Workers -> Nat \ {0}] /\ Len(lists) <= Len(Lists)
  /\ file \in [Files -> {"none", "open", "closed"}] /\ count \in [Files -> Int]
  /\ failed \in BOOLEAN /\ ended \in BOOLEAN

\* The chunks of a request.
InfoOf(r) == {Encoded(Chunk(type, r, 0)) : type \in {"info", "users"}}
PagesOf(r) ==
  {Encoded(Chunk(IF r.id \in Channels THEN "messages" ELSE "thread", r, p)) : p \in 1..NumPages(r.id)}
FoundIn(c) ==
  UNION {{[id |-> Found[c][p][i], only |-> FALSE] : i \in 1..Len(Found[c][p])} : p \in 1..Len(Found[c])}
ChannelChunks(c) ==
  LET r == [id |-> c, only |-> FALSE]
  IN InfoOf(r) \cup PagesOf(r) \cup UNION {PagesOf(t) : t \in FoundIn(c)}
ThreadChunks(t) == LET r == [id |-> t, only |-> TRUE] IN InfoOf(r) \cup PagesOf(r)
Expected ==
  (UNION {ChannelChunks(c) : c \in links \cap Channels}) \cup UNION {ThreadChunks(t) : t \in links \cap Threads}

\* filetracker.go:26-29: a file is not closed under the session before everything
\* that belongs to its channel or thread is in it: the pages of the channel and those of every thread
\* found on any of them, with the information about it.
ClosedWhole ==
  \A f \in links : file[f] = "closed" /\ ~ended =>
    {k \in (IF f \in Channels THEN ChannelChunks(f) ELSE PagesOf([id |-> f, only |-> TRUE])) : FileOf(k) = f}
      \subseteq written

\* directory.go:372: a chunk is refused, and the session fails with it, only when a channel was asked for
\* along with a thread of it: the users of the thread (out of the database its information too) are meant for the
\* file of the channel, which may have been closed by then.  Whatever was asked for, no chunk is
\* lost without the error.
RefusedKnown ==
  /\ failed => \E t \in links \cap Threads : Home[t] \in links
  /\ ended /\ ~failed => written = Expected

\* chunkdir.go:98-125: the information about every conversation can be read back from the directory.
\* The stream keeps the information about a thread in the thread's file and its users in the channel's,
\* where the information is then sought and not found.
ChannelInfoFound(c) ==
  IF file[c] # "none"
  THEN \E k \in written : k.type = "info" /\ FileOf(k) = c
  ELSE \E k \in written : k.type = "info" /\ k.ch = c
InfoReadable ==
  ended /\ ~failed =>
    \A l \in links : LET c == IF l \in Threads THEN Home[l] ELSE l
                     IN ChannelInfoFound(c) \/ (origin = "stream" /\ c \notin links)
=============================================================================
