------------------------------ MODULE DirTracker ------------------------------
(***************************************************************************)
(* directory.Conversations with its filetracker (internal/chunk/backend/   *)
(* directory): chunk files with reference counts, called concurrently by   *)
(* the channel and the thread worker of the stream.  When the count of a   *)
(* file is found to be zero the file is closed and handed to the           *)
(* transformer.  It is driven by the calls of StreamCalls.                 *)
(***************************************************************************)
EXTENDS StreamCalls, FiniteSets

CONSTANTS
  WithFiles,     \* the entities whose messages have files attached
  RecordFiles,   \* cv.recordFiles
  MayFail        \* writing a chunk may fail

ASSUME TrackerAssumption ==
  WithFiles \subseteq Channels \cup Threads /\ RecordFiles \in BOOLEAN /\ MayFail \in BOOLEAN

\* The file of proc.Files is that of the channel, for thread-only calls too.
FilesFileID(k) == HomeOf(k)

VARIABLES
  pc, cur,      \* control point and call in progress of each worker
  called,       \* calls that have returned nil
  tracked,      \* files in t.files
  count,        \* reference count of the tracked files
  finished,     \* files that have been closed and are on disk
  written,      \* calls whose chunk has been written
  transformed,  \* history: calls of Transform for each file
  failed,       \* calls that have returned an error
  stopped       \* CloseAll has been called

vars == <<pc, cur, called, tracked, count, finished, written, transformed, failed, stopped>>

Init ==
  /\ pc = [w \in Workers |-> "idle"] /\ cur = [w \in Workers |-> NoCall]
  /\ called = {} /\ written = {}
  /\ tracked = {} /\ count = [f \in Targets |-> 0] /\ finished = {}
  /\ transformed = [f \in Targets |-> 0]
  /\ failed = {} /\ stopped = FALSE

Goto(w, l) == pc' = [pc EXCEPT ![w] = l]
Return(w) == Goto(w, "idle") /\ cur' = [cur EXCEPT ![w] = NoCall]

Begin(w) ==
  /\ pc[w] = "idle"
  /\ \E k \in Call :
       /\ Ready(w, k, called, failed)
       /\ cur' = [cur EXCEPT ![w] = k]
       /\ Goto(w, IF RecordFiles /\ k.page > 0 /\ k.id \in WithFiles THEN "files" ELSE "recorder")
  /\ UNCHANGED <<called, tracked, count, finished, written, transformed, failed, stopped>>

-----------------------------------------------------------------------------
(* filetracker                                                             *)

\* Recorder: the tracked processor of the file, or a new one with a count of one.  A
\* file that is on disk already cannot be created again.
Recorder(w, f, l) ==
  \/ f \in tracked /\ Goto(w, l) /\ UNCHANGED <<cur, tracked, count, failed>>
  \/ /\ f \notin tracked /\ f \notin finished
     /\ tracked' = tracked \cup {f} /\ count' = [count EXCEPT ![f] = 1]
     /\ Goto(w, l)
     /\ UNCHANGED <<cur, failed>>
  \/ /\ f \notin tracked /\ f \in finished
     /\ failed' = failed \cup {cur[w]} /\ Return(w)
     /\ UNCHANGED <<tracked, count>>

\* cv.Files: the chunk of the files goes to the file of the channel.
RecordFileChunk(w) ==
  /\ pc[w] = "files"
  /\ Recorder(w, FilesFileID(cur[w]), "recorder")
  /\ UNCHANGED <<called, finished, written, transformed, stopped>>

GetRecorder(w) ==
  /\ pc[w] = "recorder"
  /\ Recorder(w, Target(cur[w]), IF NumThreads(cur[w]) > 0 THEN "add" ELSE "write")
  /\ UNCHANGED <<called, finished, written, transformed, stopped>>

\* Mutation of AddThreads: the page counts as one thread, however many were found on it.
AddOne(w) ==
  /\ pc[w] = "add"
  /\ count' = [count EXCEPT ![Target(cur[w])] = @ + 1]
  /\ Goto(w, "write")
  /\ UNCHANGED <<cur, called, tracked, finished, written, transformed, failed, stopped>>

\* n := r.Add(numThreads), before the messages are written
AddThreads(w) ==
  /\ pc[w] = "add"
  /\ count' = [count EXCEPT ![Target(cur[w])] = @ + NumThreads(cur[w])]
  /\ Goto(w, "write")
  /\ UNCHANGED <<cur, called, tracked, finished, written, transformed, failed, stopped>>

\* A closed file refuses the chunk.
WriteChunk(w) ==
  /\ pc[w] = "write"
  /\ \/ /\ Target(cur[w]) \in tracked
        /\ written' = written \cup {cur[w]}
        /\ IF cur[w].page > 0 /\ IsLast(cur[w])
           THEN Goto(w, "dec") /\ UNCHANGED <<cur, called>>
           ELSE Return(w) /\ called' = called \cup {cur[w]}
        /\ UNCHANGED failed
     \/ /\ MayFail \/ Target(cur[w]) \notin tracked
        /\ failed' = failed \cup {cur[w]} /\ Return(w)
        /\ UNCHANGED <<written, called>>
  /\ UNCHANGED <<tracked, count, finished, transformed, stopped>>

Decrement(w) ==
  /\ pc[w] = "dec"
  /\ count' = [count EXCEPT ![Target(cur[w])] = @ - 1]
  /\ Goto(w, "check")
  /\ UNCHANGED <<cur, called, tracked, finished, written, transformed, failed, stopped>>

\* RefCount: zero for a file that is not tracked.
RefCount(f) == IF f \in tracked THEN count[f] ELSE 0

\* Mutation of CheckCount: an off-by-one in the comparison.
CheckCountOne(w) ==
  /\ pc[w] = "check"
  /\ IF RefCount(Target(cur[w])) > 1
     THEN Return(w) /\ called' = called \cup {cur[w]}
     ELSE Goto(w, "unregister") /\ UNCHANGED <<cur, called>>
  /\ UNCHANGED <<tracked, count, finished, written, transformed, failed, stopped>>

CheckCount(w) ==
  /\ pc[w] = "check"
  /\ IF RefCount(Target(cur[w])) > 0
     THEN Return(w) /\ called' = called \cup {cur[w]}
     ELSE Goto(w, "unregister") /\ UNCHANGED <<cur, called>>
  /\ UNCHANGED <<tracked, count, finished, written, transformed, failed, stopped>>

\* Closes the file and forgets it; nothing to do when it is not tracked any more.
Unregister(w) ==
  /\ pc[w] = "unregister"
  /\ tracked' = tracked \ {Target(cur[w])}
  /\ finished' = finished \cup (tracked \cap {Target(cur[w])})
  /\ Goto(w, "transform")
  /\ UNCHANGED <<cur, called, count, written, transformed, failed, stopped>>

CallTransform(w) ==
  /\ pc[w] = "transform"
  /\ transformed' = [transformed EXCEPT ![Target(cur[w])] = @ + 1]
  /\ \/ called' = called \cup {cur[w]} /\ UNCHANGED failed
     \/ MayFail /\ failed' = failed \cup {cur[w]} /\ UNCHANGED called
  /\ Return(w)
  /\ UNCHANGED <<tracked, count, finished, written, stopped>>

\* CloseAll, once the stream is over (runWorkers); after an error its workers may still
\* be in a call.
AllDone == called = Call
CloseAll ==
  /\ failed # {} \/ AllDone
  /\ ~stopped /\ stopped' = TRUE
  /\ tracked' = {} /\ finished' = finished \cup tracked
  /\ UNCHANGED <<pc, cur, called, count, written, transformed, failed>>

-----------------------------------------------------------------------------

Conversations(w) ==
  \/ RecordFileChunk(w) \/ GetRecorder(w) \/ AddThreads(w) \/ WriteChunk(w)
  \/ Decrement(w) \/ CheckCount(w) \/ Unregister(w) \/ CallTransform(w)

Next == CloseAll \/ \E w \in Workers : Begin(w) \/ Conversations(w)

Spec == Init /\ [][Next]_vars

\* A worker of the stream goes on with the next call, and its calls return.
Fairness == \A w \in Workers : WF_vars(Begin(w) \/ Conversations(w))
FairSpec == Spec /\ Fairness

-----------------------------------------------------------------------------
(* Properties                                                              *)

TypeOK ==
  /\ pc \in [Workers -> {"idle", "files", "recorder", "add", "write", "dec", "check",
                         "unregister", "transform"}]
  /\ cur \in [Workers -> Call \cup {NoCall}]
  /\ called \subseteq Call /\ written \subseteq Call
  /\ tracked \subseteq Targets /\ finished \subseteq Targets
  /\ count \in [Targets -> Int]
  /\ transformed \in [Targets -> Nat]
  /\ failed \subseteq Call /\ stopped \in BOOLEAN

\* Unless a call has failed, the file whose count a worker finds at zero lacks no chunk, the
\* transformer reads a file that has been closed, and no chunk is written to a closed file.
HandsOver(w) == pc[w] \in {"unregister", "transform"}
Complete(f) == CallsOf(f) \subseteq written
HandedOverWhole ==
  \A w \in Workers :
    /\ failed = {} /\ HandsOver(w) => Complete(Target(cur[w]))
    /\ pc[w] = "transform" => Target(cur[w]) \in finished
    /\ failed = {} /\ pc[w] \in {"add", "write", "dec"} => Target(cur[w]) \in tracked

\* The doc of NewConversation: the count of a file is what is still expected of it, its
\* own last page and the last page of every thread counted.
Past(k) == \E w \in Workers : cur[w] = k /\ pc[w] \in {"check", "unregister", "transform"}
Ended(k) == k \in called \/ Past(k)
OwnEnd(f) == \E k \in Call : Target(k) = f /\ k.kind # "thread" /\ IsLast(k) /\ k.page > 0 /\ Ended(k)
Counted(f) ==  \* announced threads of the file f, with the page a worker has just added
  {x \in Call : x.kind = "channel" /\ x.id = f /\ x.page > 0
     /\ (x \in called \/ \E w \in Workers : cur[w] = x /\ pc[w] \notin {"files", "recorder", "add"})}
EndedThreads(f) == {k \in Call : k.kind = "thread" /\ Target(k) = f /\ IsLast(k) /\ Ended(k)}
CountIsOutstanding ==
  failed = {} => \A f \in tracked :
    count[f] = (IF OwnEnd(f) THEN 0 ELSE 1) + Cardinality(Slots(Counted(f)))
                 - Cardinality(EndedThreads(f))

\* Every channel and thread is handed to the transformer, unless a call fails.
AllTransformed == \A f \in Targets : <>(transformed[f] > 0 \/ failed # {})
=============================================================================
