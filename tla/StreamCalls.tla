------------------------------ MODULE StreamCalls ------------------------------
(***************************************************************************)
(* The calls a stream makes of its processor, for the modules that model   *)
(* processors.  Their order is that of ConvStream: a channel worker and a  *)
(* thread worker, each of which delivers an entity page by page before it  *)
(* goes on, and a thread found in a channel only after the page that       *)
(* counted it.  A call is reduced to the entity and the page it carries.   *)
(***************************************************************************)
EXTENDS Integers, Sequences

CONSTANTS
  Channels, Threads,
  Home,          \* Home[t]: channel of thread t
  Pages,         \* Pages[c]: the pages of channel c, each the sequence of its threads
  Replies,       \* Replies[t]: number of pages of replies
  Direct         \* threads requested by a link (thread-only)

ASSUME CallsAssumption ==
  /\ Channels \cap Threads = {}
  /\ Home \in [Threads -> Channels]
  /\ Pages \in [Channels -> Seq(Seq(Threads)) \ {<<>>}]
  /\ \A c \in Channels : \A p \in DOMAIN Pages[c] :
       \A i \in DOMAIN Pages[c][p] : Home[Pages[c][p][i]] = c
  /\ Replies \in [Threads -> Nat \ {0}]
  /\ Direct \subseteq Threads

Workers == {"channel", "thread"}

\* Processor calls: page 0 is ChannelInfo with ChannelUsers, the others are Messages for a
\* channel and ThreadMessages for a thread found in a channel or requested directly.
ThreadsOn(c, p) == {Pages[c][p][i] : i \in DOMAIN Pages[c][p]}
Found == UNION {UNION {ThreadsOn(c, p) : p \in DOMAIN Pages[c]} : c \in Channels}
PagesOf(kind, id) == IF kind = "channel" THEN Len(Pages[id]) ELSE Replies[id]
PageCalls(kind, ids, first) ==
  UNION {{[kind |-> kind, id |-> x, page |-> p] : p \in first..PagesOf(kind, x)} : x \in ids}
Call == PageCalls("channel", Channels, 0) \cup PageCalls("thread", Found, 1)
          \cup PageCalls("only", Direct, 0)
NoCall == [kind |-> "none", id |-> "-", page |-> 0]

WorkerOf(k) == IF k.kind = "channel" THEN "channel" ELSE "thread"
IsLast(k) == k.page = PagesOf(k.kind, k.id)
IsPage(k) == k.page > 0
NumThreads(k) == IF k.kind = "channel" /\ IsPage(k) THEN Len(Pages[k.id][k.page]) ELSE 0
\* The threads that calls count, each for its place on a page.
Slots(S) == UNION {{<<k, i>> : i \in 1..NumThreads(k)} : k \in S}
HomeOf(k) == IF k.kind = "channel" THEN k.id ELSE Home[k.id]

\* What is converted as a unit: a channel with its threads, or a thread requested directly.
\* (chunk.ToFileID(channelID, threadTS, includeThread))
Targets == Channels \cup Direct
TargetThread(k) == k.id   \* mutation of Target: the thread is always included
Target(k) == IF k.kind = "thread" THEN Home[k.id] ELSE k.id
CallsOf(f) == {k \in Call : Target(k) = f}

\* The calls worker w can make when those in done have returned nil and those in bad have
\* failed: after a failure the worker gives the entity up and goes on with the next one.
FirstPage(kind) == IF kind = "thread" THEN 1 ELSE 0
Following(k) == [k EXCEPT !.page = @ + 1]
Preceding(k) == [k EXCEPT !.page = @ - 1]
Announced(t, done) ==
  \E k \in done : k.kind = "channel" /\ IsPage(k) /\ t \in ThreadsOn(k.id, k.page)
Halfway(w, done, bad) ==
  \E k \in done : WorkerOf(k) = w /\ ~IsLast(k) /\ Following(k) \notin done \cup bad
Ready(w, k, done, bad) ==
  /\ WorkerOf(k) = w /\ k \notin done \cup bad
  /\ IF k.page > FirstPage(k.kind) THEN Preceding(k) \in done ELSE ~Halfway(w, done, bad)
  /\ k.kind = "thread" => Announced(k.id, done)
=============================================================================
