------------------------------ MODULE MCBackends ------------------------------
(* The two processors a stream can have behind it, each driven by the same calls, *)
(* and the database that the second one writes: part says which one a behaviour   *)
(* is about.  A channel of two pages, with two threads on the first and none on   *)
(* the last; a second channel with one thread; a thread of it requested directly; *)
(* threads of one and of two pages.  Then a session written to chunk files behind *)
(* the recorder, or out of the database.                                          *)
EXTENDS DirTracker
CONSTANTS MessagePages, UserPages, MaxChunks, MaxSessions,   \* of Repository
          LinkSets, Lists                                   \* of Erc
VARIABLES part, chunks, erring, seen,
  session, sessions, clock, page, at, rows, store, broken,
  origin, links, waiting, req, left, ercPage, lists, file, ercCount, ercWritten, ercFailed, ended

MCChannels == {"C1", "C2"}
MCThreads == {"t1", "t2", "t3", "t4"}
MCHome == [t \in MCThreads |-> IF t \in {"t1", "t2"} THEN "C1" ELSE "C2"]
MCPages == [c \in MCChannels |-> IF c = "C1" THEN << <<"t1", "t2">>, <<>> >> ELSE << <<"t3">> >>]
MCReplies == [t \in MCThreads |-> IF t = "t2" THEN 2 ELSE 1]

\* Three chunks over two sessions.  Messages of two channels at the same times: a page with a thread,
\* a message outside it and the copy of a reply, the thread with a file and a reply by a bot, a thread
\* requested directly.
Row(id, parent, val) == [id |-> id, parent |-> parent, val |-> val]
Chunk(type, ch, only, rs) == [type |-> type, ch |-> ch, only |-> only, rows |-> rs]
MCMessagePages == {
  <<Chunk("messages", "c", FALSE,
          <<Row(3, 1, "thread_broadcast"), Row(2, 0, "null"), Row(1, 1, "null")>>)>>,
  <<Chunk("messages", "d", FALSE, <<Row(1, 1, "null")>>)>>,
  <<Chunk("files", "c", FALSE, <<Row(4, 0, "file")>>),
    Chunk("thread", "c", FALSE, <<Row(1, 1, "null"), Row(3, 1, "thread_broadcast"), Row(4, 1, "bot_message")>>)>>,
  <<Chunk("thread", "d", TRUE, <<Row(1, 1, "null"), Row(5, 1, "null")>>)>>}
\* One chunk more: users who change their names, the list of channels, the information of one.
MCUserPages == {
  <<Chunk("users", "", FALSE, <<Row(1, 0, "ann"), Row(2, 0, "bob")>>)>>,
  <<Chunk("users", "", FALSE, <<Row(1, 0, "ANN"), Row(2, 0, "rob")>>)>>,
  <<Chunk("channels", "", FALSE, <<Row(1, 0, "x"), Row(2, 0, "x")>>)>>,
  <<Chunk("info", "", FALSE, <<Row(1, 0, "y")>>)>>}

\* A channel, with a thread of it, with a thread of another, two threads, both channels.
MCLinkSets == {{"C1"}, {"C1", "t1"}, {"C1", "t4"}, {"t1", "t2"}, {"C1", "C2"}}
MCLists == <<"workspace", "users", "users", "search">>

Db == INSTANCE DbProcessor
RM == INSTANCE Repository WITH Pages <- MessagePages, OnlyNew <- TRUE, chunks <- rows
RU == INSTANCE Repository WITH Pages <- UserPages, OnlyNew <- TRUE, chunks <- rows,
  Workers <- {"channel"}, MaxChunks <- MaxChunks + 1

\* What a worker gives the database.
StoredChunks ==
  [type : RM!Kinds, ch : STRING, only : BOOLEAN, rows : Seq([id : Nat, parent : Nat, val : STRING])]

ASSUME BackendsAssumption ==
  /\ MaxChunks \in Nat /\ MaxSessions \in Nat \ {0}
  /\ \A p \in MessagePages \cup UserPages : p \in Seq(StoredChunks)
  /\ LinkSets \subseteq SUBSET (Channels \cup Threads) /\ "-" \notin Channels \cup Threads
  /\ Lists \in Seq(STRING)
  /\ \A i \in DOMAIN Lists : Lists[i] \notin Channels \cup Threads
  /\ \A i, j \in DOMAIN Lists : Lists[i] = "workspace" /\ Lists[j] = "workspace" => i = j
  \* The message that starts a thread is at one place of the history.
  /\ \A c \in Channels : \A p, q \in DOMAIN Pages[c] :
       \A i \in DOMAIN Pages[c][p] : \A j \in DOMAIN Pages[c][q] :
         Pages[c][p][i] = Pages[c][q][j] => p = q /\ i = j

ER == INSTANCE Erc WITH Found <- Pages, page <- ercPage, count <- ercCount, written <- ercWritten,
  failed <- ercFailed

\* A page of a channel, and its thread: the start, a reply and a reply by a bot.
RT == INSTANCE Repository WITH MaxChunks <- 3, MaxSessions <- 2, OnlyNew <- TRUE,
  chunks <- rows, Pages <- {
    <<Chunk("messages", "c", FALSE, <<Row(2, 0, "null"), Row(1, 1, "null")>>)>>,
    <<Chunk("thread", "c", FALSE, <<Row(1, 1, "null"), Row(3, 1, "null"), Row(4, 1, "bot_message")>>)>>}

dirOnly == <<tracked, count, finished, written, transformed, stopped>>
dbOnly == <<chunks, erring, seen>>
repository == <<session, sessions, clock, page, at, rows, store, broken>>
erc == <<origin, links, waiting, req, left, ercPage, lists, file, ercCount, ercWritten, ercFailed, ended>>
all == <<part, vars, dbOnly, repository, erc>>

SomeLinks == CHOOSE l \in LinkSets : TRUE

BackendsInit ==
  /\ part \in {"dir", "db", "messages", "users", "erc"} /\ Init /\ Db!Init
  /\ IF part = "users" THEN RU!Init ELSE RM!Init
  /\ ER!Init /\ (part # "erc" => origin = "stream" /\ links = SomeLinks)

DirClose == part = "dir" /\ CloseAll /\ UNCHANGED <<part, dbOnly, repository, erc>>
DirBegin(w) == part = "dir" /\ Begin(w) /\ UNCHANGED <<part, dbOnly, repository, erc>>
DirCall(w) == part = "dir" /\ Conversations(w) /\ UNCHANGED <<part, dbOnly, repository, erc>>
DbStep(w) == part = "db" /\ Db!Step(w) /\ UNCHANGED <<part, dirOnly, repository, erc>>
Storing ==
  /\ (part = "messages" /\ RM!Next) \/ (part = "users" /\ RU!Next)
  /\ UNCHANGED <<part, vars, dbOnly, erc>>
Recording == part = "erc" /\ ER!Next /\ UNCHANGED <<part, vars, dbOnly, repository>>

BackendsNext == DirClose \/ Storing \/ Recording \/ \E w \in Workers : DirBegin(w) \/ DirCall(w) \/ DbStep(w)
BackendsSpec ==
  /\ BackendsInit /\ [][BackendsNext]_all
  /\ \A w \in Workers : WF_all(DirBegin(w) \/ DirCall(w)) /\ WF_all(DbStep(w))

\* The database alone, with that thread.
ThreadsSpec ==
  /\ part = "messages" /\ Init /\ Db!Init /\ RT!Init /\ ER!Init /\ origin = "stream" /\ links = SomeLinks
  /\ [][RT!Next /\ UNCHANGED <<part, vars, dbOnly, erc>>]_all

\* The variables of the processors and of the database have their types.
BackendsTypeOK ==
  /\ part = "dir" => TypeOK
  /\ part = "db" => Db!TypeOK
  /\ part = "messages" => RM!TypeOK
  /\ part = "users" => RU!TypeOK
  /\ part = "erc" => ER!TypeOK

\* A channel or thread is handed over for conversion whole: by the directory backend with its
\* file closed, by the database backend with what has been fetched of it; and a session recorded in a
\* directory is there whole, with the information about its conversations, unless it was refused.
HandedOver ==
  /\ part = "dir" => HandedOverWhole
  /\ part = "db" => Db!HandedOverFetched
  /\ part = "erc" => ER!RefusedKnown /\ ER!InfoReadable

\* Reference counts of the directory backend: they are what is outstanding, so that a file is closed whole.
DirCounts == (part = "dir" => CountIsOutstanding) /\ (part = "erc" => ER!ClosedWhole)

\* The database answers with the latest of everything that was stored in it, through all sessions,
\* and a finished session is read back as it was.
DatabaseAnswers ==
  /\ part = "messages" => RM!AnswersLatest /\ RM!ReadsBackSession
  /\ part = "users" => RU!AnswersLatest /\ RU!ReadsBackSession

\* With either backend every channel and thread is converted whole in the end.
AllConverted == (part = "dir" => AllTransformed) /\ (part = "db" => Db!LastTransformComplete)

\* dbmessage.go:128: "AllForThread returns all messages in a thread, including parent message".
ThreadsWhole == RT!ThreadsWhole
=============================================================================
