---------------------------- MODULE ExportSource ----------------------------
(***************************************************************************)
(* A Slack export as a source (source/export.go, source/export_cache.go):  *)
(* every request for the messages of a channel first walks over all its    *)
(* files to note in which of them each thread is; a request for a thread   *)
(* reads the files noted, or all files if nothing is noted.                *)
(*                                                                         *)
(* The requests of the viewer run concurrently on one source.  A step of a *)
(* request is one access to the cache, whose mutex covers no more.         *)
(***************************************************************************)
EXTENDS Naturals, Sequences, FiniteSets
LOCAL INSTANCE SequencesExt

CONSTANTS
  Requests,     \* concurrent requests
  Channel,      \* the files of the channel in the order of the walk; a file is a sequence of
                \* messages [ts, thread], with thread = ts for the start of a thread and 0
                \* outside of threads
  Unreadable,   \* files (numbers) that cannot be read; broken ones are passed over
  MaxCalls      \* bound: requests begun

VARIABLES
  cache,        \* the map: [key -> sequence of files, or Absent]
  req,          \* [Requests -> control point, file and message, list read, thread, answer]
  calls         \* requests begun

vars == <<cache, req, calls>>

Absent == <<0>>
Threads ==
  (UNION {{Channel[f][i].thread : i \in 1..Len(Channel[f])} : f \in 1..Len(Channel)}) \ {0}
Channel0 == 0   \* the key that says that the channel has been noted
Keys == Threads \union {Channel0}
Idle == [pc |-> "idle", file |-> 0, msg |-> 0, seen |-> <<>>, thread |-> 0, answer |-> <<>>,
         walk |-> <<>>, alone |-> TRUE]
All == [i \in 1..Len(Channel) |-> i]

\* The messages of a thread, or those outside of threads and the starts of threads.
OfThread(f, t) == SelectSeq(Channel[f], LAMBDA m : m.thread = t)
OfChannel(f) == SelectSeq(Channel[f], LAMBDA m : m.thread = 0 \/ m.thread = m.ts)
Answer(files, t) ==
  FlattenSeq([k \in DOMAIN files |-> IF t = 0 THEN OfChannel(files[k]) ELSE OfThread(files[k], t)])

Init ==
  /\ cache = [k \in Keys |-> Absent]
  /\ req = [r \in Requests |-> Idle]
  /\ calls = 0

Busy(r) == req[r].pc \in {"note", "load", "set", "list"}
Alone(r) == \A q \in Requests \ {r} : ~Busy(q)
\* Everyone at work now is not alone any more.
Crowd(r, f) ==
  [q \in Requests |-> IF q = r THEN f ELSE IF Busy(q) THEN [req[q] EXCEPT !.alone = FALSE] ELSE req[q]]

----------------------------------------------------------------------------
(* AllMessages: buildThreadCache with Update, then the walk. *)

BeginMessages(r) ==
  /\ req[r].pc \in {"idle", "answered", "failed"} /\ calls < MaxCalls
  /\ calls' = calls + 1
  /\ req' = Crowd(r, [Idle EXCEPT !.pc = "note", !.file = 1, !.msg = 1, !.alone = Alone(r)])
  /\ UNCHANGED cache

\* The next message of the walk; one that is in no thread is passed over.
Forth(q) == [q EXCEPT !.msg = q.msg + 1, !.pc = "note"]
NoteMessage(r) ==
  /\ req[r].pc = "note"
  /\ LET q == req[r] IN
     \/ /\ q.file > Len(Channel)
        /\ req' = [req EXCEPT ![r] = [req[r] EXCEPT !.pc = "answered", !.answer = Answer(All, 0)]]
        /\ UNCHANGED cache
     \/ /\ q.file <= Len(Channel) /\ q.file \in Unreadable
        /\ req' = [req EXCEPT ![r] = [req[r] EXCEPT !.pc = "failed"]]
        /\ UNCHANGED cache
     \/ /\ q.file <= Len(Channel) /\ q.file \notin Unreadable /\ q.msg > Len(Channel[q.file])
        /\ req' = [req EXCEPT ![r] = [q EXCEPT !.file = q.file + 1, !.msg = 1]]
        /\ UNCHANGED cache
     \/ /\ q.file <= Len(Channel) /\ q.file \notin Unreadable /\ q.msg <= Len(Channel[q.file])
        /\ LET t == Channel[q.file][q.msg].thread IN
           IF t = 0 THEN req' = [req EXCEPT ![r] = Forth(req[r])] /\ UNCHANGED cache
           ELSE \* Update: the entry of the channel
                /\ cache' = IF cache[Channel0] = Absent THEN [cache EXCEPT ![Channel0] = <<>>] ELSE cache
                /\ req' = [req EXCEPT ![r] = [req[r] EXCEPT !.pc = "load", !.thread = t]]
  /\ UNCHANGED calls

\* Update, GetOrLoad: what is there is read, or the file becomes the first.  Between the look
\* and the load another request may have put something there, which is overwritten.
Load(r) ==
  /\ req[r].pc = "load"
  /\ LET q == req[r]  have == cache[q.thread] IN
     IF have = Absent THEN req' = [req EXCEPT ![r] = [req[r] EXCEPT !.pc = "store"]]
     ELSE IF q.file \in {have[i] : i \in 1..Len(have)} THEN req' = [req EXCEPT ![r] = Forth(req[r])]
     ELSE req' = [req EXCEPT ![r] = [req[r] EXCEPT !.pc = "set", !.seen = have]]
  /\ UNCHANGED <<cache, calls>>

Store(r) ==
  /\ req[r].pc = "store"
  /\ cache' = [cache EXCEPT ![req[r].thread] = <<req[r].file>>]
  /\ req' = [req EXCEPT ![r] = Forth(req[r])]
  /\ UNCHANGED calls

\* The file is put in the place of the list that was read.
SetOnly(r) ==
  /\ req[r].pc = "set"
  /\ cache' = [cache EXCEPT ![req[r].thread] = <<req[r].file>>]
  /\ req' = [req EXCEPT ![r] = Forth(req[r])]
  /\ UNCHANGED calls

\* Update, Set: the list that was read, with the file.
Set(r) ==
  /\ req[r].pc = "set"
  /\ cache' = [cache EXCEPT ![req[r].thread] = Append(req[r].seen, req[r].file)]
  /\ req' = [req EXCEPT ![r] = Forth(req[r])]
  /\ UNCHANGED calls

----------------------------------------------------------------------------
(* AllThreadMessages: walkCachedThreads, or the walk over everything. *)

BeginThread(r) ==
  /\ req[r].pc \in {"idle", "answered", "failed"} /\ calls < MaxCalls
  /\ calls' = calls + 1
  /\ \E t \in Threads :
       LET noted == cache[Channel0] # Absent /\ cache[t] # Absent IN
       req' = Crowd(r, [Idle EXCEPT !.pc = "list", !.thread = t, !.alone = Alone(r),
                                    !.walk = IF noted THEN cache[t] ELSE All])
  /\ UNCHANGED cache

ReadList(r) ==
  /\ req[r].pc = "list"
  /\ LET q == req[r] IN
     IF \E i \in 1..Len(q.walk) : q.walk[i] \in Unreadable
     THEN req' = [req EXCEPT ![r] = [req[r] EXCEPT !.pc = "failed"]]
     ELSE req' = [req EXCEPT ![r] = [req[r] EXCEPT !.pc = "answered", !.answer = Answer(q.walk, q.thread)]]
  /\ UNCHANGED <<cache, calls>>

Next ==
  \E r \in Requests :
    BeginMessages(r) \/ NoteMessage(r) \/ Load(r) \/ Store(r) \/ Set(r)
    \/ BeginThread(r) \/ ReadList(r)

Spec == Init /\ [][Next]_vars

----------------------------------------------------------------------------
(* Properties. *)

TypeOK ==
  /\ \A k \in Keys : cache[k] \in Seq(0..Len(Channel))
  /\ \A r \in Requests :
       /\ req[r].pc \in {"idle", "note", "load", "store", "set", "list", "answered", "failed"}
       /\ req[r].thread \in Threads \union {0}

Complete(t) == Answer(All, t)

\* Whatever the requests beside it note, an answer about a thread begins with its start, and
\* has each message once and none that is not the thread's.
StartFirst ==
  \A r \in Requests :
    req[r].pc = "answered" /\ req[r].walk # <<>> /\ req[r].answer # <<>> =>
      LET a == req[r].answer IN
      /\ a[1].ts = req[r].thread
      /\ \A i \in 1..Len(a) : a[i].thread = req[r].thread
      /\ \A i, j \in 1..Len(a) : i # j => a[i] # a[j]

\* "AllThreadMessages should return all messages for the given tuple", which is stated here of
\* the requests that run alone.
ThreadComplete ==
  \A r \in Requests :
    req[r].pc = "answered" /\ req[r].walk # <<>> /\ req[r].alone =>
      \A i \in 1..Len(Complete(req[r].thread)) :
        \E j \in 1..Len(req[r].answer) : req[r].answer[j] = Complete(req[r].thread)[i]
=============================================================================
