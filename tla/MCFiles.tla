------------------------------- MODULE MCFiles -------------------------------
(* Everything that reads and writes files: the downloader, the repetition of      *)
(* calls, the file manager and the collector of a chunk directory, chunk files,   *)
(* the export as a source, the archives on the disk and the caches of lists; and  *)
(* the calls of the library, which gather what they return.  They share nothing   *)
(* here; part says which one a behaviour is about.                                *)
EXTENDS Downloader, Integers, TLC
CONSTANTS
  MaxAttempts, Cap, RetryAfter, Outcomes,                     \* of Retry
  Readers, Names, Damaged, BadLines, MaxHandles, MayDestroy,  \* of FileMgr
  Collections, Collectors,                                    \* of Collect: what is collected, and by whom
  FileIds, ChunkSet, MaxChunks, Clients,                      \* of ChunkFile
  Days, Requests, MaxCalls,                                   \* of ExportSource
  Plans, Kind, User, Me, ThreadsOf, Attached, Name, Safe,     \* of Sources
  Runs, Entries, ListFaults,                                  \* of Listing
  Pages, Replies, Lists, Askers, Timeout, MaxFaults, MaxTime  \* of Session
VARIABLES part, attempt, pc, delay, lastErr, rtResult, log, rtCancelled, known, handles, opened,
  last, idx, reader, destroyed, collection, walk, at, fileC, fileOpen, errC, coWorker, resultsOpen, coAll,
  status, coCancelled, coHandles, dir, sealed, pos, cfHolder, playing, pointer, client, replay,
  cache, req, esCalls, plan, disk, index, phase, source, channels,
  cmd, task, liFile, clean, faults,
  seCall, sePc, sePage, seThreadPage, seAt, seChunk, seThread, messages, passed, seCache, asking, now,
  seFaults

\* Downloader: two messages with a file of the same path each, and one that is invalid.
DlList == [c \in {"c1", "c2"} |-> IF c = "c1" THEN <<"x", "b">> ELSE <<"b", "c">>]
DlPath == [f \in {"b", "c"} |-> "p"]
DlUrl == [f \in {"b", "c"} |-> f]

MCOutcomes == {"ok", "please", "eof", "limited", "server", "badstatus", "netio", "other"}
RT == INSTANCE Retry WITH result <- rtResult, cancelled <- rtCancelled

FM == INSTANCE FileMgr WITH Broken <- BadLines

\* Three files, one of which is passed over; none fails, one cannot be opened, one fails.
Collection(order, unreadable, broken, failing) ==
  [order |-> order, unreadable |-> unreadable, broken |-> broken, failing |-> failing]
MCCollections ==
  {Collection(<<"f1", "f2", "f3">>, p[1], {"f2"}, p[2]) : p \in {<<{}, {}>>, <<{"f3"}, {}>>, <<{}, {"f1"}>>}}
CO == INSTANCE Collect WITH Directories <- Collections, Workers <- Collectors, given <- collection,
  worker <- coWorker, all <- coAll, cancelled <- coCancelled, handles <- coHandles

\* The file of a channel with a thread, and the file of that thread by itself.
MCFileIds == {<<"C1", 0>>, <<"C1", 2>>}
Chunk(f, type, thread, msgs) ==
  [file |-> <<"C1", f>>, type |-> type, ch |-> "C1", thread |-> thread, msgs |-> msgs]
MCChunkSet ==
  {Chunk(0, "messages", 0, <<3, 2>>), Chunk(0, "messages", 0, <<1>>), Chunk(0, "thread", 2, <<4>>),
   Chunk(0, "files", 2, <<>>), Chunk(2, "thread", 2, <<4, 5>>), Chunk(2, "info", 0, <<>>)}
CF == INSTANCE ChunkFile WITH holder <- cfHolder

\* Three days, a thread that goes on on the second and the third.
Msg(ts, thread) == [ts |-> ts, thread |-> thread]
MCDays == << <<Msg(1, 1), Msg(2, 0)>>, <<Msg(3, 1)>>, <<Msg(4, 1)>> >>
ES == INSTANCE ExportSource WITH Channel <- Days, Unreadable <- {}, calls <- esCalls

\* Archives of a channel with a thread, a group and two users, whole or in parts, in every format; an
\* attachment that two conversations share, one with a name that is not safe.
Conversations ==
  {{<<"C1", "">>}, {<<"C1", "1">>}, {<<"C1", "">>, <<"C1", "1">>, <<"G1", "">>}, {<<"D1", "">>},
   {<<"C1", "1">>, <<"D1", "">>, <<"D2", "">>}, {<<"C1", "">>, <<"D1", "">>, <<"D0", "">>}}
AllPlans ==
  [format : {"dump", "export", "chunk", "database"}, container : {"directory", "zip"},
   convs : Conversations, converted : BOOLEAN, byID : BOOLEAN,
   storage : {"dump", "standard", "mattermost", "old", "none"}]
MCPlans ==
  {p \in AllPlans :
     /\ p.format \in {"chunk", "database"} => p.container = "directory" /\ p.storage \in {"mattermost", "none"}
     /\ p.format = "dump" <=> p.storage = "dump"
     /\ p.format # "dump" \/ p.converted => p.byID /\ (p.format # "dump" => ~p.converted)
     /\ p.converted => \A k \in p.convs : k[2] = ""}
MCKind == [C1 |-> "public", G1 |-> "mpim", D0 |-> "im", D1 |-> "im", D2 |-> "im"]
MCUser == [D0 |-> "me", D1 |-> "u1", D2 |-> "u2"]
MCThreadsOf == [c \in DOMAIN MCKind |-> IF c = "C1" THEN {"1"} ELSE {}]
MCAttached == (<<"C1", "">> :> {"F1"}) @@ (<<"C1", "1">> :> {"F2"}) @@ (<<"D1", "">> :> {"F1"})
MCName == [F1 |-> "a:b", F2 |-> "n"]
MCSafe == ("a:b" :> "a_b") @@ ("n" :> "n")
SO == INSTANCE Sources WITH Threads <- ThreadsOf

\* Users, and channels with their users, from the caches or from Slack; "-no-chan-cache" or not.
Command(what, flag, resolve) == [what |-> what, flag |-> flag, resolve |-> resolve]
MCRuns == [p |-> {Command("users", FALSE, FALSE), Command("channels", TRUE, TRUE)},
           q |-> {Command("users", FALSE, FALSE), Command("channels", FALSE, TRUE)}]
LI == INSTANCE Listing WITH MaxFaults <- ListFaults, file <- liFile

\* Four threads: one of a page, one of two, one whose last page has only its start, one that is gone;
\* a reply that was also sent to the channel.
Sent(ts, kind) == [ts |-> ts, kind |-> kind]
MCPages == << <<Sent(8, "start"), Sent(5, "start"), Sent(4, "plain")>>,
              <<Sent(3, "broadcast"), Sent(2, "start"), Sent(1, "start")>> >>
MCReplies == (1 :> << <<>> >>) @@ (2 :> << <<2, 3>>, <<2>> >>) @@ (5 :> << <<5, 6>>, <<5, 7>> >>) @@
             (8 :> << <<8, 9>> >>)
MCLists == [channels |-> << <<1, 2>>, <<3>>, <<>> >>, members |-> << <<1>>, <<2>> >>]
SE == INSTANCE Session WITH Channel <- Pages, Thread <- Replies, Callers <- Askers,
  call <- seCall, pc <- sePc, page <- sePage, tpage <- seThreadPage, i <- seAt, chunk <- seChunk,
  thread <- seThread, cache <- seCache, faults <- seFaults

retry == <<attempt, pc, delay, lastErr, rtResult, log, rtCancelled>>
manager == <<known, handles, opened, last, idx, reader, destroyed>>
collect == <<collection, walk, at, fileC, fileOpen, errC, coWorker, resultsOpen, coAll, status, coCancelled,
  coHandles>>
chunkfile == <<dir, sealed, pos, cfHolder, playing, pointer, client, replay>>
export == <<cache, req, esCalls>>
archive == <<plan, disk, index, phase, source, channels>>
listing == <<cmd, task, liFile, clean, faults>>
session == <<seCall, sePc, sePage, seThreadPage, seAt, seChunk, seThread, messages, passed, seCache,
  asking, now, seFaults>>
allVars == <<part, vars, retry, manager, collect, chunkfile, export, archive, listing, session>>

\* Numbers and sequences are such; the files of a directory are different, and one that is not JSON was
\* opened and never given to the callback; a conversation is of a channel.
ASSUME FilesAssumption ==
  /\ MaxAttempts \in Int /\ Cap \in Nat \ {0} /\ RetryAfter \in Int
  /\ MaxHandles \in Nat /\ Entries \in Nat /\ ListFaults \in Nat
  /\ Timeout \in Nat \ {0} /\ MaxFaults \in Nat /\ MaxTime \in Nat /\ DOMAIN Replies \subseteq Nat
  /\ Runs \in [DOMAIN Runs -> SUBSET [what : {"users", "channels"}, flag : BOOLEAN, resolve : BOOLEAN]]
  /\ "none" \notin DOMAIN Runs /\ IsFiniteSet(Collectors)
  /\ \A d \in Collections :
       /\ d.order \in Seq({d.order[k] : k \in DOMAIN d.order})
       /\ \A k, l \in DOMAIN d.order : d.order[k] = d.order[l] => k = l
       /\ d.unreadable \cup d.broken \cup d.failing \subseteq {d.order[k] : k \in DOMAIN d.order}
       /\ d.broken \cap (d.unreadable \cup d.failing) = {}
  /\ \A c \in ChunkSet : c.file \in FileIds
  /\ LET sent == UNION {{Days[f][k] : k \in DOMAIN Days[f]} : f \in DOMAIN Days} IN Days \in Seq(Seq(sent))
  /\ \A p \in Plans :
       /\ \A k \in p.convs : k[1] \in DOMAIN Kind
       /\ p.format \in {"dump", "export", "chunk", "database"}
       /\ p.storage \in {"dump", "standard", "mattermost", "old", "none"}

SomePlan == CHOOSE p \in Plans : TRUE
SomeCollection == CHOOSE p \in Collections : TRUE

Parts == {"downloader", "retry", "manager", "collect", "chunkfile", "export", "archive", "listing", "session"}
FilesInit ==
  /\ part \in Parts /\ Init /\ RT!Init /\ FM!Init /\ CF!Init /\ ES!Init /\ SO!Init
  /\ CO!Init /\ (part # "collect" => collection = SomeCollection)
  /\ LI!Init /\ (part # "listing" => clean = {})
  /\ SE!Init /\ (part # "session" => seCall = "users")
  /\ part # "archive" => plan = SomePlan

Download(A) == part = "downloader" /\ A /\ UNCHANGED <<part, retry, manager, collect, chunkfile, export, archive, listing, session>>
RetryStep == part = "retry" /\ RT!Next /\ UNCHANGED <<part, vars, manager, collect, chunkfile, export, archive, listing, session>>
ManagerStep == part = "manager" /\ FM!Next /\ UNCHANGED <<part, vars, retry, collect, chunkfile, export, archive, listing, session>>
Collecting(A) ==
  part = "collect" /\ A /\ UNCHANGED <<part, collection, vars, retry, manager, chunkfile, export, archive, listing, session>>
ChunkStep == part = "chunkfile" /\ CF!Next /\ UNCHANGED <<part, vars, retry, manager, collect, export, archive, listing, session>>
ExportStep == part = "export" /\ ES!Next /\ UNCHANGED <<part, vars, retry, manager, collect, chunkfile, archive, listing, session>>
ArchiveStep ==
  part = "archive" /\ SO!Next /\ UNCHANGED <<part, vars, retry, manager, collect, chunkfile, export, listing, session>>
ListStep ==
  part = "listing" /\ LI!Next /\ UNCHANGED <<part, vars, retry, manager, collect, chunkfile, export, archive, session>>
SessionStep ==
  part = "session" /\ SE!Next /\ UNCHANGED <<part, vars, retry, manager, collect, chunkfile, export, archive, listing>>

FilesNext ==
  \/ Download(Next)
  \/ RetryStep \/ ManagerStep \/ Collecting(CO!Next) \/ ChunkStep \/ ExportStep \/ ArchiveStep
  \/ ListStep \/ SessionStep

FilesSpec ==
  /\ FilesInit /\ [][FilesNext]_allVars
  /\ \A w \in Workers : WF_allVars(Download(WorkerStep(w)))
  /\ \A c \in Callers : WF_allVars(Download(CallerStep(c)))
  /\ WF_allVars(Download(FilterStep)) /\ WF_allVars(Download(Sentinel))
  /\ WF_allVars(Download(Stopped))
  /\ WF_allVars(Collecting(CO!Walker))
  /\ \A w \in Collectors : WF_allVars(Collecting(CO!Worker(w)))
  /\ WF_allVars(Collecting(CO!CloseResults))
  /\ WF_allVars(Collecting(CO!Caller))

\* The variables of all components have their types.
FilesTypeOK ==
  TypeOK /\ RT!TypeOK /\ FM!TypeOK /\ CO!TypeOK /\ CF!TypeOK /\ ES!TypeOK /\ SO!TypeOK /\ LI!TypeOK /\
  SE!TypeOK

\* WithRetry waits long enough, and gives up for a reason only.
RetriesPatiently == RT!Patient /\ RT!FailsForAReason

\* What several work at is whole: a directory is gathered whole or an error is returned; a handle the
\* file manager has given out can be used until it is closed, and is read by a whole index; the users
\* in memory are kept no longer than they may be; a listing is everything there is unless its cache was damaged.
SharedWhole ==
  CO!OkMeansAll /\ FM!HandleUsable /\ SE!UsersRecent /\ LI!ListingIsWhole /\ LI!CleanIsLegible

\* What is read from chunk files is what was recorded, and the index they are read by tells where it is;
\* a thread read from an export begins with its start; an archive is opened as what it is, and all that
\* is in it found; a call of the library returns a conversation with its threads, and a list, whole.
ReadsBack ==
  /\ CF!ReplaysRecording /\ CF!IndexTellsRecording /\ ES!StartFirst
  /\ part = "archive" => SO!ReadsBack
  /\ part = "session" => SE!CallReturnsWhole

\* Calls of the downloader and of the collector return.
FilesReturn ==
  /\ part = "downloader" => CallsReturn
  /\ part = "collect" => CO!CollectEnds
=============================================================================
