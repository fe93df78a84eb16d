------------------------------ MODULE DbProcessor ------------------------------
(***************************************************************************)
(* The database processor of an export (dbase.DBP behind a chunk.Recorder) *)
(* followed by the conversationTransformer of internal/chunk/control: the  *)
(* last page of a channel or thread makes the transformer ask the database *)
(* whether its channel is complete, and if so request the conversion.  It  *)
(* is driven by the calls of StreamCalls.  A chunk is identified by the    *)
(* call that inserted it, in one transaction under the mutex of the DBP;   *)
(* the views behind IsComplete are functions of the inserted chunks.       *)
(***************************************************************************)
EXTENDS StreamCalls, FiniteSets

CONSTANT MayFail      \* inserting a chunk or a Transform may fail

VARIABLES
  pc, cur,      \* control point and call in progress of each worker
  chunks,       \* committed chunks of the session
  erring,       \* workers whose call will return an error
  called,       \* calls that have returned nil
  failed,       \* calls that have returned an error
  seen          \* history: the chunks present at the last Transform of each target

vars == <<pc, cur, chunks, erring, called, failed, seen>>

Untouched == {NoCall}  \* seen[f] before the first Transform of f

Init ==
  /\ pc = [w \in Workers |-> "idle"] /\ cur = [w \in Workers |-> NoCall]
  /\ chunks = {} /\ erring = {} /\ called = {} /\ failed = {}
  /\ seen = [f \in Targets |-> Untouched]

-----------------------------------------------------------------------------
(* The views.  Slack repeats the thread starter on every page of a thread. *)

\* A row of V_CHANNEL_THREADS: the last page of the channel is there; its value is the
\* number of thread starters on the pages.
HistoryOf(c) == {k \in chunks : k.kind = "channel" /\ k.id = c /\ IsPage(k)}
FinalAny(c) == HistoryOf(c) # {}         \* mutation of Final: the flag FINAL is not tested
Final(c) == \E k \in HistoryOf(c) : IsLast(k)
ThreadsFound(c) == Cardinality(Slots(HistoryOf(c)))

\* V_CHANNEL_THREAD_COUNT: the distinct threads of which there is a page, whether it was
\* found in the channel or requested directly.
Parents(c) ==
  {t \in Threads : Home[t] = c /\ \E k \in chunks : k.kind # "channel" /\ k.id = t /\ IsPage(k)}

RefCount(c) == ThreadsFound(c) - Cardinality(Parents(c))
IsComplete(c) == Final(c) /\ RefCount(c) <= 0

\* V_THREAD_ONLY_THREADS: number of pages of the thread, once its last page is there.
OnlyParts(t) == {k \in chunks : k.kind = "only" /\ k.id = t /\ IsPage(k)}
IsCompleteThread(t) == \E k \in OnlyParts(t) : IsLast(k)

-----------------------------------------------------------------------------

Goto(w, l) == pc' = [pc EXCEPT ![w] = l]

Begin(w) ==
  /\ pc[w] = "idle"
  /\ \E k \in Call : Ready(w, k, called, failed) /\ cur' = [cur EXCEPT ![w] = k]
  /\ Goto(w, "insert")
  /\ UNCHANGED <<chunks, erring, called, failed, seen>>

\* Recorder.Messages or ThreadMessages, then the processors after it whatever its error is.
InsertChunk(w) ==
  /\ pc[w] = "insert"
  /\ \/ chunks' = chunks \cup {cur[w]} /\ UNCHANGED erring
     \/ MayFail /\ erring' = erring \cup {w} /\ UNCHANGED chunks
  /\ Goto(w, IF IsPage(cur[w]) /\ IsLast(cur[w]) THEN "check" ELSE "return")
  /\ UNCHANGED <<cur, called, failed, seen>>

\* Mutation of MbeTransform: only the last page of a channel is looked at.
MbeTransformChannel(w) ==
  /\ pc[w] = "check"
  /\ Goto(w, IF cur[w].kind = "channel" /\ IsComplete(HomeOf(cur[w])) THEN "transform" ELSE "return")
  /\ UNCHANGED <<cur, chunks, erring, called, failed, seen>>

MbeTransform(w) ==
  /\ pc[w] = "check"
  /\ LET complete == IF cur[w].kind = "only" THEN IsCompleteThread(cur[w].id)
                                             ELSE IsComplete(HomeOf(cur[w]))
     IN Goto(w, IF complete THEN "transform" ELSE "return")
  /\ UNCHANGED <<cur, chunks, erring, called, failed, seen>>

\* tf.Transform(channelID, threadID): the coordinator converts what is in the database.
Transform(w) ==
  /\ pc[w] = "transform"
  /\ seen' = [seen EXCEPT ![Target(cur[w])] = CallsOf(Target(cur[w])) \cap chunks]
  /\ erring' \in {erring} \cup (IF MayFail THEN {erring \cup {w}} ELSE {})
  /\ Goto(w, "return")
  /\ UNCHANGED <<cur, chunks, called, failed>>

Return(w) ==
  /\ pc[w] = "return"
  /\ IF w \in erring THEN failed' = failed \cup {cur[w]} /\ UNCHANGED called
                     ELSE called' = called \cup {cur[w]} /\ UNCHANGED failed
  /\ erring' = erring \ {w}
  /\ cur' = [cur EXCEPT ![w] = NoCall]
  /\ Goto(w, "idle")
  /\ UNCHANGED <<chunks, seen>>

Step(w) == Begin(w) \/ InsertChunk(w) \/ MbeTransform(w) \/ Transform(w) \/ Return(w)
Next == \E w \in Workers : Step(w)

Spec == Init /\ [][Next]_vars

\* A worker of the stream goes on with the next call, and its calls return.
FairSpec == Spec /\ \A w \in Workers : WF_vars(Step(w))

-----------------------------------------------------------------------------
(* Properties                                                              *)

TypeOK ==
  /\ pc \in [Workers -> {"idle", "insert", "check", "transform", "return"}]
  /\ cur \in [Workers -> Call \cup {NoCall}]
  /\ chunks \subseteq Call /\ called \subseteq Call /\ failed \subseteq Call
  /\ erring \subseteq {w \in Workers : cur[w] # NoCall}
  /\ DOMAIN seen = Targets
  /\ \A f \in Targets : seen[f] = Untouched \/ seen[f] \subseteq CallsOf(f)

HandsOver(w) == pc[w] = "transform"

\* A channel is handed over only when its history has been received to the last page, and
\* of a thread requested directly only when all its pages have.  Of its threads IsComplete may
\* miss all pages but the first, if none of them was requested directly.
HandedOverFetched ==
  \A w \in Workers : HandsOver(w) =>
    LET own == CallsOf(Target(cur[w])) IN
    /\ \A k \in own : IsPage(k) /\ k.kind # "thread" => k \in chunks
    /\ cur[w].kind # "only" /\ (\A t \in Direct : Home[t] # HomeOf(cur[w])) =>
         \A k \in own : k.kind = "thread" /\ k.page = 1 => k \in chunks

\* However early a channel was first handed over, it is handed over again once everything
\* of it is in the database, unless a call fails: the last conversion is a complete one.
LastTransformComplete ==
  \A f \in Targets : <>(failed # {} \/ [](seen[f] = CallsOf(f)))
=============================================================================
