------------------------------ MODULE Repository ------------------------------
(***************************************************************************)
(* The database of an archive (internal/chunk/backend/dbase): sessions     *)
(* whose workers insert chunks, each in a transaction, and the queries of  *)
(* a Source on it.  The same message is stored again by every chunk it is  *)
(* in, and a query takes the latest.  A row of a chunk is a record of its  *)
(* id, its thread ("parent", 0 for none) and a value: of a message its     *)
(* subtype, of a user its data.  A version of it is the ID of its chunk.   *)
(***************************************************************************)
EXTENDS Integers, Sequences, SequencesExt, FiniteSetsExt

CONSTANTS
  Pages,       \* what a worker of the stream gives the database at once: a sequence of chunks
  Workers,
  MaxChunks, MaxSessions,
  OnlyNew      \* of users only the new and the changed are inserted (resume)

VARIABLES
  session,     \* the latest: "open", "finished" or "crashed"
  sessions,    \* their states
  clock, page, at,  \* UNIX_TS, what is left of the page of each worker and the time of its next chunk
  chunks,      \* table CHUNK with its rows; the ID is the place
  store,       \* history: versions as a reader of each view expects them
  broken       \* history: sessions whose run failed

vars == <<session, sessions, clock, page, at, chunks, store, broken>>

Messages == {"messages", "thread"}       \* chunk types 0 and 1, in the table MESSAGE
Empty == [x \in {} |-> 0]
Range0(s) == {s[i] : i \in DOMAIN s}

Init ==
  /\ sessions = <<"open">> /\ session = 1 /\ clock = 0
  /\ page = [w \in Workers |-> <<>>] /\ at = [w \in Workers |-> 0]
  /\ chunks = <<>> /\ store = Empty /\ broken = {}

-----------------------------------------------------------------------------
(* Queries.  A table is a set of rows, each with its chunk. *)

Table(types) ==
  UNION {{[id |-> r.id, parent |-> r.parent, val |-> r.val, chunk |-> k] : r \in Range0(chunks[k].rows)} :
           k \in {j \in DOMAIN chunks : chunks[j].type \in types}}
Ch(r) == chunks[r.chunk]

\* The latest chunk for each id among the rows that satisfy a condition, and the rows of it.
LatestWhere(rows) ==
  {[id |-> i, chunk |-> Max({r.chunk : r \in {x \in rows : x.id = i}})] : i \in {r.id : r \in rows}}
LatestRows(types, rows) ==
  LET latest == LatestWhere(rows)
  IN {r \in Table(types) : \E l \in latest : l.id = r.id /\ l.chunk = r.chunk}
InOrder(rows) == SetToSortSeq(rows, LAMBDA a, b : a.id < b.id)
CountTypeWhere(rows) == Cardinality(LatestWhere(rows))

IsParent(r) == r.parent = r.id
\* Mutation of ThreadOnlyCondition: threads fetched with their channel are not told apart.
ThreadOnlyAny(r) == Ch(r).type = "messages" \/ IsParent(r)
ThreadOnlyCondition(r) ==
  \/ Ch(r).type = "messages"
  \/ Ch(r).type = "thread" /\ Ch(r).only /\ IsParent(r)
ThreadCond(r) == r.val = "null" \/ (r.val = "thread_broadcast" /\ Ch(r).type = "thread")

InChannel(c) == {r \in Table(Messages) : Ch(r).ch = c}
ForID(c) == {r \in InChannel(c) : ThreadOnlyCondition(r)}
ForThread(c, t) == {r \in InChannel(c) : r.parent = t /\ ThreadCond(r)}

AllForID(c) == InOrder(LatestRows(Messages, ForID(c)))
CountForID(c) == CountTypeWhere(ForID(c))
AllForThread(c, t) == InOrder(LatestRows(Messages, ForThread(c, t)))
CountThread(c, t) == CountTypeWhere(ForThread(c, t))
Sorted(c) == InOrder(LatestRows(Messages, InChannel(c)))

AllOfType(type) == LatestRows({type}, Table({type}))
Users == AllOfType("users")
\* Channels with information, or without any the list of channels.
ChannelList == IF AllOfType("info") # {} THEN AllOfType("info") ELSE AllOfType("channels")

\* The newest message of a channel, and of a thread, where a resume starts.
LatestMessage(c) == Max({0} \union {r.id : r \in {x \in InChannel(c) : Ch(x).type = "messages"}})
LatestThread(c, t) ==
  Max({0} \union {r.id : r \in {x \in InChannel(c) : Ch(x).type = "thread" /\ x.parent = t}})

-----------------------------------------------------------------------------
(* ToChunk: the chunks of a finished session in the order of UNIX_TS, each read back in the   *)
(* order of ids; the parent of a thread or a file is the latest message of that id.           *)

Get(i) == LatestRows(Messages, {r \in Table(Messages) : r.id = i})
ReadRows(k) == InOrder({r \in Table({chunks[k].type}) : r.chunk = k})
HasParent(k, rows) ==
  \A i \in DOMAIN rows :
    LET key == CASE chunks[k].type = "thread" -> rows[i].parent
                 [] chunks[k].type = "files" -> rows[i].id
                 [] OTHER -> 0
    IN key = 0 \/ Get(key) # {}
NumThreads(rows) == Cardinality({i \in DOMAIN rows : IsParent(rows[i])})
Assemble(k) ==
  LET rows == ReadRows(k) IN
  [id |-> k, ids |-> [i \in DOMAIN rows |-> rows[i].id], ok |-> HasParent(k, rows),
   threads |-> IF chunks[k].type = "messages" THEN NumThreads(rows) ELSE 0]
ChunksOf(s) ==
  SetToSortSeq({k \in DOMAIN chunks : chunks[k].session = s}, LAMBDA a, b : chunks[a].at < chunks[b].at)
ToChunk(s) ==
  LET out == [i \in DOMAIN ChunksOf(s) |-> Assemble(ChunksOf(s)[i])]
  IN [out |-> out,
      err |-> IF sessions[s] # "finished" THEN "incomplete"
              ELSE IF \E i \in DOMAIN out : ~out[i].ok THEN "no rows" ELSE "none"]

-----------------------------------------------------------------------------
(* Inserting. *)

\* Users already stored with the same data, letter case aside, are left out.
Fold(val) == CASE val = "ANN" -> "ann" [] OTHER -> val
Inserted(c) ==
  IF c.type = "users" /\ OnlyNew
  THEN SelectSeq(c.rows, LAMBDA r : \A u \in Users : u.id = r.id => Fold(u.val) # Fold(r.val))
  ELSE c.rows

\* The views a row of a chunk is in, and what a reader expects of them after the insert.
ViewsOf(c, r) ==
  IF c.type \notin Messages THEN {<<c.type, 0, r.id>>}
  ELSE {<<"all", c.ch, r.id>>}
       \union (IF c.type = "messages" \/ (c.only /\ r.parent = r.id) THEN {<<"channel", c.ch, r.id>>} ELSE {})
       \union (IF r.parent # 0 /\ (r.val = "null" \/ (c.type = "thread" /\ r.val = "thread_broadcast"))
               THEN {<<"thread", c.ch, r.id>>} ELSE {})
Stored(c, k) ==
  LET touched == UNION {ViewsOf(c, r) : r \in Range0(Inserted(c))}
  IN [x \in DOMAIN store \union touched |-> IF x \in touched THEN k ELSE store[x]]

\* The chunks that are left of the pages.
Left == UNION {{<<v, i>> : i \in DOMAIN page[v]} : v \in Workers}

\* A worker gets a page; its first chunk is timed when it is made, before the lock.
Make(w) ==
  /\ sessions[session] = "open" /\ session \notin broken /\ page[w] = <<>>
  /\ \E p \in Pages :
       /\ Len(chunks) + Len(p) + Cardinality(Left) <= MaxChunks
       /\ page' = [page EXCEPT ![w] = p]
  /\ clock' = clock + 1 /\ at' = [at EXCEPT ![w] = clock + 1]
  /\ UNCHANGED <<session, sessions, chunks, store, broken>>

\* InsertChunk, all or nothing: on an error the worker gives up.
InsertChunk(w) ==
  /\ page[w] # <<>> /\ sessions[session] = "open"
  /\ LET c == Head(page[w]) IN
     \/ /\ chunks' = Append(chunks, [type |-> c.type, ch |-> c.ch, only |-> c.only, rows |-> Inserted(c),
                                     session |-> session, at |-> at[w]])
        /\ store' = Stored(c, Len(chunks) + 1)
        /\ page' = [page EXCEPT ![w] = Tail(@)]
        /\ IF Tail(page[w]) = <<>> THEN at' = [at EXCEPT ![w] = 0] /\ UNCHANGED clock
                                  ELSE at' = [at EXCEPT ![w] = clock + 1] /\ clock' = clock + 1
        /\ UNCHANGED broken
     \/ /\ page' = [page EXCEPT ![w] = <<>>] /\ broken' = broken \union {session}
        /\ at' = [at EXCEPT ![w] = 0] /\ UNCHANGED <<chunks, store, clock>>
  /\ UNCHANGED <<session, sessions>>

\* Close marks the session finished when the workers are gone, whatever became of the run.
Close ==
  /\ sessions[session] = "open" /\ \A w \in Workers : page[w] = <<>>
  /\ sessions' = [sessions EXCEPT ![session] = "finished"]
  /\ UNCHANGED <<session, clock, page, at, chunks, store, broken>>

Crash ==
  /\ sessions[session] = "open"
  /\ sessions' = [sessions EXCEPT ![session] = "crashed"]
  /\ page' = [w \in Workers |-> <<>>] /\ at' = [w \in Workers |-> 0]
  /\ broken' = broken \union {session}
  /\ UNCHANGED <<session, clock, chunks, store>>

\* New: another run on the database, a resume.
New ==
  /\ sessions[session] # "open" /\ session < MaxSessions
  /\ session' = session + 1 /\ sessions' = Append(sessions, "open")
  /\ UNCHANGED <<clock, page, at, chunks, store, broken>>

Next == Close \/ Crash \/ New \/ \E w \in Workers : Make(w) \/ InsertChunk(w)
Spec == Init /\ [][Next]_vars

-----------------------------------------------------------------------------
(* Properties. *)

Kinds == {"messages", "thread", "files", "users", "info", "channels"}
TypeOK ==
  /\ session \in 1..MaxSessions /\ DOMAIN sessions = 1..session
  /\ \A s \in 1..session - 1 : sessions[s] # "open"
  /\ Len(chunks) <= MaxChunks
  /\ \A k \in DOMAIN chunks : chunks[k].session \in 1..session /\ chunks[k].type \in Kinds
  /\ \A x \in DOMAIN store : store[x] \in DOMAIN chunks

Seen == {chunks[k].ch : k \in DOMAIN chunks}
View(v, c) == {x[3] : x \in {y \in DOMAIN store : y[1] = v /\ y[2] = c}}
Answers(rows, v, c, ids) ==
  /\ Range0([i \in DOMAIN rows |-> rows[i].id]) = ids
  /\ \A i \in DOMAIN rows : rows[i].chunk = store[<<v, c, rows[i].id>>]
  /\ \A i \in 2..Len(rows) : rows[i - 1].id < rows[i].id
Parents(c) == {r.parent : r \in InChannel(c)} \ {0}

\* Whatever was inserted, interrupted and inserted again, a query answers with each message,
\* user or channel of its view once, in order, in the version that was inserted last, also when
\* messages of two channels have the same time; a count is the number of what is answered.
AnswersLatest ==
  /\ \A c \in Seen :
       /\ Answers(Sorted(c), "all", c, View("all", c))
       /\ Answers(AllForID(c), "channel", c, View("channel", c))
       /\ CountForID(c) = Len(AllForID(c))
       /\ \A t \in Parents(c) :
            /\ Answers(AllForThread(c, t), "thread", c,
                       {i \in View("thread", c) : \E r \in InChannel(c) : r.id = i /\ r.parent = t})
            /\ CountThread(c, t) = Len(AllForThread(c, t))
            /\ LatestThread(c, t) \in View("all", c) \union {0}
       /\ LatestMessage(c) \in View("channel", c) \union {0}
  /\ Answers(InOrder(Users), "users", 0, View("users", 0))
  /\ Answers(InOrder(ChannelList), IF View("info", 0) # {} THEN "info" ELSE "channels", 0,
             IF View("info", 0) # {} THEN View("info", 0) ELSE View("channels", 0))

\* The chunks of a finished session are read back with what was inserted into them, in the order
\* in which they were made; only a failed run can leave a file without its message.
ReadsBackSession ==
  \A s \in 1..session : sessions[s] = "finished" =>
    LET read == ToChunk(s) out == read.out IN
    /\ s \notin broken => read.err = "none"
    /\ {out[i].id : i \in DOMAIN out} = {k \in DOMAIN chunks : chunks[k].session = s}
    /\ \A i \in DOMAIN out :
         /\ LET c == chunks[out[i].id] IN
            /\ Range0(out[i].ids) = {r.id : r \in Range0(c.rows)}
            /\ out[i].threads = IF c.type = "messages" THEN Len(SelectSeq(c.rows, IsParent)) ELSE 0
         /\ i > 1 => chunks[out[i - 1].id].at < chunks[out[i].id].at

\* dbmessage.go:128: "AllForThread returns all messages in a thread, including parent message".
ThreadsWhole ==
  \A c \in Seen : \A t \in Parents(c) :
    {AllForThread(c, t)[i].id : i \in DOMAIN AllForThread(c, t)} =
      {r.id : r \in {x \in InChannel(c) : Ch(x).type = "thread" /\ x.parent = t}}
=============================================================================
