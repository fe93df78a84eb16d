------------------------------ MODULE ChunkFile ------------------------------
(***************************************************************************)
(* Chunk files (internal/chunk: chunk.go, recorder.go, file.go, player.go) *)
(* and what a chunk directory says of them (directory.go).                 *)
(*                                                                         *)
(* Recorders append chunks; then the files are indexed, and clients read   *)
(* through the index: players hand out the chunks of a group one by one,   *)
(* other readers iterate over the messages in order.  All share the file's *)
(* read position.  A message is its timestamp, an offset is a position.    *)
(***************************************************************************)
EXTENDS Naturals, Sequences, FiniteSets

CONSTANTS
  ChunkSet,     \* chunks that may be recorded: [file, type, ch, thread, msgs]
  FileIds,      \* files of the directory: channels, and threads requested by themselves
  MaxChunks,    \* bound: chunks of all files
  Clients       \* goroutines that read

VARIABLES
  dir,          \* [FileIds -> chunks in the order they were recorded]
  sealed,       \* recording is over and the files are open
  pos,          \* [FileIds -> read position]
  holder,       \* [FileIds -> who holds rsMu, or "nobody"]
  playing,      \* [FileIds -> the client that holds ptrMu, or "nobody"]
  pointer,      \* [FileIds -> [group -> chunks handed out]]
  client,       \* [Clients -> control point, file, group, offset]
  replay        \* history: [FileIds -> [group -> chunks handed out]]

vars == <<dir, sealed, pos, holder, playing, pointer, client, replay>>

Nobody == "nobody"
NoFile == "nofile"

\* Chunk.ID: the group of a chunk.
ID(c) ==
  CASE c.type = "messages" -> <<"channel", c.ch, 0>>
    [] c.type = "thread" -> <<"thread", c.ch, c.thread>>
    [] c.type = "files" -> <<"file", c.ch, c.thread>>
    [] c.type = "info" -> <<"info", c.ch, 0>>
    [] c.type = "users" -> <<"list", "users", 0>>
Groups == {ID(c) : c \in ChunkSet}
Chans == {c.ch : c \in ChunkSet}

\* The last chunk of the file is not indexed.
OffsetsButLast(f, id) ==
  SelectSeq([o \in 1..Len(dir[f]) |-> o],
            LAMBDA o : ID(dir[f][o]) = id /\ o < Len(dir[f]))

\* index.offsets: where the chunks of a group start, as indexChunks finds them.
Offsets(f, id) ==
  SelectSeq([o \in 1..Len(dir[f]) |-> o], LAMBDA o : ID(dir[f][o]) = id)

IndexOf(f) == {id \in Groups : Offsets(f, id) # <<>>}

Idle == [pc |-> "idle", file |-> NoFile, id |-> <<"none", "none", 0>>, at |-> 0]

Init ==
  /\ dir = [f \in FileIds |-> <<>>] /\ sealed = FALSE
  /\ pos = [f \in FileIds |-> 0]
  /\ holder = [f \in FileIds |-> Nobody] /\ playing = [f \in FileIds |-> Nobody]
  /\ pointer = [f \in FileIds |-> [id \in Groups |-> 0]]
  /\ client = [c \in Clients |-> Idle]
  /\ replay = [f \in FileIds |-> [id \in Groups |-> <<>>]]

----------------------------------------------------------------------------
(* Recording. *)

Total == Cardinality({p \in FileIds \X (1..MaxChunks) : p[2] <= Len(dir[p[1]])})

Record ==
  /\ ~sealed /\ Total < MaxChunks
  /\ \E c \in ChunkSet : dir' = [dir EXCEPT ![c.file] = Append(@, c)]
  /\ UNCHANGED <<sealed, pos, holder, playing, pointer, client, replay>>

Seal ==
  /\ ~sealed
  /\ sealed' = TRUE
  /\ UNCHANGED <<dir, pos, holder, playing, pointer, client, replay>>

----------------------------------------------------------------------------
(* Players and chunkAt. *)

\* Player.next up to chunkAt: ErrNotFound and io.EOF change nothing.
PlayerNext(c) ==
  /\ sealed /\ client[c].pc = "idle"
  /\ \E f \in FileIds : \E id \in IndexOf(f) :
       /\ playing[f] = Nobody
       /\ pointer[f][id] < Len(Offsets(f, id))
       /\ playing' = [playing EXCEPT ![f] = c]
       /\ client' = [client EXCEPT ![c] =
            [pc |-> "seek", file |-> f, id |-> id, at |-> Offsets(f, id)[pointer[f][id] + 1]]]
  /\ UNCHANGED <<dir, sealed, pos, holder, pointer, replay>>

\* Readers that are no players (Sorted, allForID, ...) come to chunkAt with any offset.
ReadAny(c) ==
  /\ sealed /\ client[c].pc = "idle"
  /\ \E f \in FileIds : \E o \in 1..Len(dir[f]) :
       client' = [client EXCEPT ![c] =
         [pc |-> "seek", file |-> f, id |-> <<"none", "none", 0>>, at |-> o]]
  /\ UNCHANGED <<dir, sealed, pos, holder, playing, pointer, replay>>

\* chunkAt without its mutex.
SeekNoLock(c) ==
  /\ client[c].pc = "seek"
  /\ pos' = [pos EXCEPT ![client[c].file] = client[c].at]
  /\ client' = [client EXCEPT ![c].pc = "decode"]
  /\ UNCHANGED <<dir, sealed, holder, playing, pointer, replay>>

\* chunkAt: the seek and the decoding are under rsMu.
Seek(c) ==
  /\ client[c].pc = "seek" /\ holder[client[c].file] = Nobody
  /\ holder' = [holder EXCEPT ![client[c].file] = c]
  /\ pos' = [pos EXCEPT ![client[c].file] = client[c].at]
  /\ client' = [client EXCEPT ![c].pc = "decode"]
  /\ UNCHANGED <<dir, sealed, playing, pointer, replay>>

Decode(c) ==
  /\ client[c].pc = "decode"
  /\ LET f == client[c].file  id == client[c].id IN
     /\ holder' = [holder EXCEPT ![f] = Nobody]
     /\ pos' = [pos EXCEPT ![f] = @ + 1]
     /\ IF id \in Groups
        THEN /\ playing' = [playing EXCEPT ![f] = Nobody]
             /\ pointer' = [pointer EXCEPT ![f][id] = @ + 1]
             /\ replay' = [replay EXCEPT ![f][id] = Append(@, dir[f][pos[f]])]
        ELSE UNCHANGED <<playing, pointer, replay>>
  /\ client' = [client EXCEPT ![c] = Idle]
  /\ UNCHANGED <<dir, sealed>>

\* Player.Reset.
Reset(f) ==
  /\ sealed /\ playing[f] = Nobody
  /\ pointer' = [pointer EXCEPT ![f] = [id \in Groups |-> 0]]
  /\ replay' = [replay EXCEPT ![f] = [id \in Groups |-> <<>>]]
  /\ UNCHANGED <<dir, sealed, pos, holder, playing, client>>

Next ==
  \/ Record \/ Seal
  \/ \E c \in Clients : PlayerNext(c) \/ ReadAny(c) \/ Seek(c) \/ Decode(c)
  \/ \E f \in FileIds : Reset(f)

Spec == Init /\ [][Next]_vars

----------------------------------------------------------------------------
(* What the readers compute from a file. *)

Range1(s) == {s[i] : i \in 1..Len(s)}
MaxOf(S) == CHOOSE x \in S : \A y \in S : y <= x

\* offsetTimestamps keeps everything but files, lists and information.
OffsetTimestamps(f) ==
  UNION {Range1(Offsets(f, id)) : id \in {i \in IndexOf(f) : i[1] \notin {"info", "file", "list"}}}

\* timeOffsets: the addresses of which one is kept for a timestamp; which one depends on the
\* order of a map.
TimeOffsets(f, ch) ==
  {a \in OffsetTimestamps(f) \X (1..MaxChunks) :
     ID(dir[f][a[1]])[2] = ch /\ a[2] <= Len(dir[f][a[1]].msgs)}

\* The timestamps over which Sorted iterates.
SortedTimes(f, ch) == {dir[f][a[1]].msgs[a[2]] : a \in TimeOffsets(f, ch)}

\* File.Latest, and Directory.Latest over all files.
Latest(f) ==
  [id \in {ID(dir[f][o]) : o \in {p \in OffsetTimestamps(f) : dir[f][p].msgs # <<>>}} |->
     MaxOf(UNION {Range1(dir[f][o].msgs) : o \in Range1(Offsets(f, id))})]
DirLatest(id) == MaxOf({Latest(f)[id] : f \in {g \in FileIds : id \in DOMAIN Latest(g)}})

\* allMessagesForID; messages are compared by their timestamps only.
AllForID(f, id) == UNION {Range1(dir[f][o].msgs) : o \in Range1(Offsets(f, id))}

\* AllThreadMessages and FastAllThreadMessages of a directory: the fast one reads one file.
AllThreadMessages(id) == UNION {AllForID(f, id) : f \in FileIds}
FastFile(id) ==
  IF <<id[2], id[3]>> \in FileIds /\ dir[<<id[2], id[3]>>] # <<>> THEN <<id[2], id[3]>>
  ELSE <<id[2], 0>>
FastAllThreadMessages(id) == AllForID(FastFile(id), id)

----------------------------------------------------------------------------
(* Properties. *)

TypeOK ==
  /\ \A f \in FileIds : dir[f] \in Seq(ChunkSet) /\ holder[f] \in Clients \union {Nobody}
  /\ sealed \in BOOLEAN
  /\ \A c \in Clients : client[c].pc \in {"idle", "seek", "decode"}

\* A player hands out the chunks of each group in the order they were recorded, each once,
\* whatever other players and readers do with the file in the meantime.
ReplaysRecording ==
  \A f \in FileIds : \A id \in Groups :
    LET recorded == SelectSeq(dir[f], LAMBDA c : ID(c) = id) IN
    /\ replay[f][id] = SubSeq(recorded, 1, pointer[f][id])
    /\ pointer[f][id] <= Len(recorded)

\* Once recording is over, iteration visits each timestamp recorded for the channel, in the
\* channel or in a thread; what Latest reports for a channel or a thread is the newest message
\* recorded for it anywhere, from which a resumed run goes on; and the lookup of a thread in one
\* file finds all of it, unless it was recorded both by itself and with its channel.
Recorded(ids) ==
  UNION {UNION {Range1(c.msgs) : c \in {d \in Range1(dir[f]) : ID(d) \in ids}} : f \in FileIds}
IndexTellsRecording ==
  sealed =>
    /\ \A ch \in Chans :
         UNION {SortedTimes(f, ch) : f \in FileIds} =
           Recorded({id \in Groups : id[1] \in {"channel", "thread"} /\ id[2] = ch})
    /\ \A id \in {g \in Groups : g[1] \in {"channel", "thread"}} :
         Recorded({id}) # {} => DirLatest(id) = MaxOf(Recorded({id}))
    /\ \A id \in {g \in Groups : g[1] = "thread"} :
         LET own == <<id[2], id[3]>>
             places == {f \in FileIds : \E o \in 1..Len(dir[f]) : ID(dir[f][o]) = id} IN
         (places = {own} \/ (places = {<<id[2], 0>>} /\ (own \in FileIds => dir[own] = <<>>)))
           => FastAllThreadMessages(id) = AllThreadMessages(id)
=============================================================================
