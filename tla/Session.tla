-------------------------------- MODULE Session --------------------------------
(* The calls of the library that return a whole result at once (slackdump.go,      *)
(* messages.go, thread.go, processors.go, channels.go, users.go, user_cache.go): a *)
(* conversation with its threads, or one thread; the list of channels and of the   *)
(* members of one; and the users, kept in memory for a while.                      *)
EXTENDS Naturals, Sequences
LOCAL INSTANCE SequencesExt
CONSTANTS
  Channel,     \* the pages of a conversation: messages [ts, kind], newest first
  Thread,      \* function from the start of a thread to its pages, of ts; each begins with the start
  Lists,       \* [channels, members -> the pages of the list]
  Callers,     \* who asks for the users
  Timeout,     \* how long the users are kept
  MaxFaults, MaxTime   \* bounds: calls that fail, and time
VARIABLES
  call,        \* what is called: "channel", "thread", "invalid", "channels", "members" or "users"
  pc,          \* "begin", "page", "threads", "replies", "process", "name", "list", "ok", "failed"
  page, tpage, \* the pages to be fetched, of the call and of the thread
  i,           \* the message of the page whose thread is to be fetched, or the thread linked to
  chunk,       \* the page: messages [ts, kind, replies]
  thread,      \* what has been fetched of the thread
  messages,    \* what is returned
  passed,      \* what the process functions were called with
  cache,       \* the users in memory: when they were fetched and when they were stored
  asking,      \* [Callers -> [pc, what was fetched, when it was asked for]]
  now, faults
dump == <<pc, page, tpage, i, chunk, thread, messages, passed>>
vars == <<call, dump, cache, asking, now, faults>>

Starts == DOMAIN Thread
NoUsers == [fetched |-> 0, at |-> 0, some |-> FALSE]
Idle == [pc |-> "idle", users |-> 0, since |-> 0]
Init ==
  /\ call \in {"channel", "thread", "invalid", "channels", "members", "users"} /\ pc = "begin"
  /\ page = 1 /\ tpage = 1
  /\ i \in IF call = "thread" THEN {t \in Starts : Thread[t] # << <<>> >>} ELSE {1}
  /\ chunk = <<>> /\ thread = <<>> /\ messages = <<>> /\ passed = <<>>
  /\ cache = NoUsers /\ asking = [c \in Callers |-> Idle] /\ now = 0 /\ faults = 0

\* A call of Slack fails for good, is answered "not ok", or a process function fails: nothing is
\* returned but the channels so far.
Fails ==
  /\ faults < MaxFaults /\ faults' = faults + 1
  /\ pc' = "failed" /\ messages' = IF call = "channels" THEN messages ELSE <<>>
  /\ UNCHANGED <<page, tpage, i, chunk, thread, passed>>

Dump ==
  /\ pc = "begin" /\ call # "users"
  /\ pc' = CASE call = "channel" -> "page" [] call = "thread" -> "replies"
             [] call = "invalid" -> "failed" [] OTHER -> "list"
  /\ UNCHANGED <<page, tpage, i, chunk, thread, messages, passed, faults>>

\* dumpChannel: a page, the threads that start in it, and the process functions of the caller.
DumpChannel ==
  /\ pc = "page"
  /\ \/ /\ chunk' = [k \in DOMAIN Channel[page] |->
               [ts |-> Channel[page][k].ts, kind |-> Channel[page][k].kind, replies |-> <<>>]]
        /\ pc' = "threads" /\ i' = 1 /\ UNCHANGED <<page, tpage, thread, messages, passed, faults>>
     \/ Fails
PopulateThreads ==
  /\ pc = "threads"
  /\ IF i > Len(chunk) THEN pc' = "process" /\ UNCHANGED <<tpage, i, thread>>
     ELSE IF chunk[i].kind = "start" THEN pc' = "replies" /\ tpage' = 1 /\ thread' = <<>> /\ UNCHANGED i
     ELSE i' = i + 1 /\ UNCHANGED <<pc, tpage, thread>>
  /\ UNCHANGED <<page, chunk, messages, passed, faults>>
Sorted(ms) == SortSeq(ms, LAMBDA a, b : a.ts < b.ts)
RunProcessFuncs ==
  /\ pc = "process"
  /\ \/ /\ passed' = Append(passed, chunk)
        /\ IF page < Len(Channel) THEN pc' = "page" /\ page' = page + 1 /\ messages' = messages \o chunk
           ELSE pc' = "name" /\ messages' = Sorted(messages \o chunk) /\ UNCHANGED page
        /\ UNCHANGED <<tpage, i, chunk, thread, faults>>
     \/ Fails

\* dumpThread: every page begins with the start; later ones without it, unless there is nothing
\* else.  Called for a link to the thread, the process functions get all that has been fetched.
Root == IF call = "thread" THEN i ELSE chunk[i].ts
Plain(tss) == [k \in DOMAIN tss |-> [ts |-> tss[k], kind |-> "reply", replies |-> <<>>]]
DumpThread ==
  LET pages == Thread[Root]
      fetched == IF 1 < tpage /\ 1 < Len(pages[tpage]) THEN Tail(pages[tpage]) ELSE pages[tpage]
      soFar == thread \o fetched
  IN
  /\ pc = "replies"
  /\ \/ /\ thread' = soFar
        /\ passed' = IF call = "thread" THEN Append(passed, Plain(soFar)) ELSE passed
        /\ IF tpage < Len(pages) THEN tpage' = tpage + 1 /\ UNCHANGED <<pc, i, chunk, messages>>
           ELSE IF call = "thread"
           THEN pc' = "name" /\ messages' = Sorted(Plain(soFar)) /\ UNCHANGED <<tpage, i, chunk>>
           ELSE /\ pc' = "threads" /\ i' = i + 1
                /\ chunk' = IF soFar = <<>> THEN chunk ELSE [chunk EXCEPT ![i].replies = Tail(soFar)]
                /\ UNCHANGED <<tpage, messages>>
        /\ UNCHANGED <<page, faults>>
     \/ Fails
GetChannelName ==
  /\ pc = "name"
  /\ \/ pc' = "ok" /\ UNCHANGED <<page, tpage, i, chunk, thread, messages, passed, faults>>
     \/ Fails

\* getChannels and GetChannelMembers, page by page.
Listed(list) ==
  /\ pc = "list" /\ call = list
  /\ \/ /\ messages' = messages \o Lists[call][page]
        /\ IF page < Len(Lists[call]) THEN page' = page + 1 /\ UNCHANGED pc
           ELSE pc' = "ok" /\ UNCHANGED page
        /\ UNCHANGED <<tpage, i, chunk, thread, passed, faults>>
     \/ Fails
GetChannels == Listed("channels")
GetChannelMembers == Listed("members")

\* GetUsers: from memory, or from Slack; the users are those at the time of the answer, which may
\* take until the clock has moved once.
Kept == cache.some /\ now - cache.at < Timeout
Step(c, s) == asking' = [asking EXCEPT ![c] = s] /\ UNCHANGED now
GetUsers(c) ==
  /\ call = "users" /\ asking[c].pc \in {"idle", "got", "failed"}
  /\ Step(c, IF Kept
             THEN [pc |-> "got", users |-> cache.fetched, since |-> now]
             ELSE [pc |-> "fetch", users |-> 0, since |-> now])
  /\ UNCHANGED <<cache, faults>>
FetchUsers(c) ==
  /\ asking[c].pc = "fetch"
  /\ \/ Step(c, [pc |-> "store", users |-> now, since |-> now]) /\ UNCHANGED faults
     \/ Step(c, [asking[c] EXCEPT !.pc = "failed"]) /\ faults < MaxFaults /\ faults' = faults + 1
  /\ UNCHANGED cache
StoreUsers(c) ==
  /\ asking[c].pc = "store"
  /\ cache' = [fetched |-> asking[c].users, at |-> now, some |-> TRUE]
  /\ Step(c, [asking[c] EXCEPT !.pc = "got", !.since = now])
  /\ UNCHANGED faults
Tick ==
  /\ call = "users" /\ now < MaxTime
  /\ \A c \in Callers : asking[c].pc \in {"fetch", "store"} => now = asking[c].since
  /\ now' = now + 1 /\ UNCHANGED <<asking, cache, faults>>

Next ==
  \/ /\ \/ Dump \/ DumpChannel \/ PopulateThreads \/ RunProcessFuncs \/ DumpThread \/ GetChannelName
        \/ GetChannels \/ GetChannelMembers
     /\ UNCHANGED <<call, cache, asking, now>>
  \/ /\ (\E c \in Callers : GetUsers(c) \/ FetchUsers(c) \/ StoreUsers(c)) \/ Tick
     /\ UNCHANGED <<call, dump>>
Spec == Init /\ [][Next]_vars

TypeOK ==
  /\ page \in Nat /\ tpage \in Nat /\ i \in Nat /\ now \in 0..MaxTime /\ faults \in 0..MaxFaults
  /\ pc \in {"begin", "page", "threads", "replies", "process", "name", "list", "ok", "failed"}
  /\ \A c \in Callers : asking[c].pc \in {"idle", "fetch", "store", "got", "failed"}

\* What a call returns without an error: every message once, oldest first, each start with the
\* replies of its thread once, and its own text again for each later page with nothing else in it;
\* the process functions have seen each message of a channel once and with its replies, and the whole
\* of a thread at last.  With an error nothing is returned but channels.
Ascending(S) == SetToSortSeq(S, <)
Ts(ms) == [k \in DOMAIN ms |-> ms[k].ts]
Again(t) == {k \in 2..Len(Thread[t]) : Thread[t][k] = <<t>>}
RepliesWhole(t, got) ==
  /\ SelectSeq(got, LAMBDA r : r # t) = Ascending(ToSet(FlattenSeq(Thread[t])) \ {t})
  /\ Len(SelectSeq(got, LAMBDA r : r = t)) = IF Thread[t] = << <<>> >> THEN 0 ELSE Cardinality(Again(t))
CallReturnsWhole ==
  LET all == FlattenSeq(Channel) IN
  /\ pc = "ok" /\ call = "channel" =>
       /\ Ts(messages) = Ascending({m.ts : m \in ToSet(all)})
       /\ \A m \in ToSet(messages) :
            IF m.kind = "start" THEN RepliesWhole(m.ts, m.replies) ELSE m.replies = <<>>
       /\ Sorted(FlattenSeq(passed)) = messages
  /\ pc = "ok" /\ call = "thread" =>
       /\ Len(SelectSeq(Ts(messages), LAMBDA t : t = Root)) = 1 + Cardinality(Again(Root))
       /\ RepliesWhole(Root, SubSeq(Ts(messages), 2, Len(messages)))
       /\ Sorted(Last(passed)) = messages
  /\ pc = "ok" /\ call \in DOMAIN Lists => messages = FlattenSeq(Lists[call])
  /\ pc = "failed" /\ call # "channels" => messages = <<>>
\* Users that are returned were users of the workspace not longer ago than they are kept and the
\* answer of Slack was under way.
UsersRecent == \A c \in Callers : asking[c].pc = "got" => asking[c].since - asking[c].users <= Timeout
================================================================================
