------------------------------ MODULE ConvStream ------------------------------
(***************************************************************************)
(* Stream.Conversations (stream/conversation.go, stream/stream_workers.go): *)
(* a main loop, a channel worker and a thread worker connected by bounded  *)
(* channels, a sentinel that closes the result channel, and the caller's   *)
(* loop over the results.  The workspace served by the API is a constant:  *)
(* the history pages of each channel with the threads started on them, and *)
(* the number of reply pages of each thread.  The content of the messages, *)
(* files and canvases is abstracted: a call of the processor is identified *)
(* by the entity and the page it carries.                                  *)
(***************************************************************************)
EXTENDS Integers, Sequences, FiniteSets

CONSTANTS
  Channels, Threads,   \* identifiers served by the API
  Pages,               \* Pages[c]: history pages of c, each the sequence of threads started on it
  Replies,             \* Replies[t]: number of pages of replies of t
  Links,               \* the links received from the entity list generator
  ChanCap, ThreadCap, ResultCap,  \* msgChanSz, threadChanSz, resultSz
  Faults,              \* which of "cancel", "api", "notfound", "callback", "badlink", "retry" may happen
  MaxRetries,          \* bound on the attempts of thread() that WithRetry repeats
  SkipNotFound         \* ~cs.failChnlNotFnd

Link == [kind : {"channel"}, id : Channels] \cup [kind : {"thread"}, id : Threads]

ASSUME StreamAssumption ==
  /\ Channels \cap Threads = {}
  /\ Pages \in [Channels -> Seq(Seq(Threads)) \ {<<>>}]
  \* a page has the message that starts a thread once; procChanMsg leaves its broadcasts out
  /\ \A c \in Channels : \A p \in DOMAIN Pages[c] : \A i, j \in DOMAIN Pages[c][p] :
       Pages[c][p][i] = Pages[c][p][j] => i = j
  /\ Replies \in [Threads -> Nat \ {0}]
  /\ Links \in Seq(Link)
  /\ ChanCap \in Nat \ {0} /\ ThreadCap \in Nat \ {0} /\ ResultCap \in Nat \ {0}
  /\ Faults \subseteq {"cancel", "api", "notfound", "callback", "badlink", "retry"}
  /\ MaxRetries \in Nat
  /\ SkipNotFound \in BOOLEAN

Workers == {"main", "channel", "thread"}

\* A call of proc.Messages (a page of a channel) or of proc.ThreadMessages.
ChanCalls == UNION {{[id |-> c, page |-> p] : p \in 1..Len(Pages[c])} : c \in Channels}
ThreadCalls == UNION {{[id |-> t, page |-> p] : p \in 1..Replies[t]} : t \in Threads}
Calls == ChanCalls \cup ThreadCalls

ThreadReq == [id : Threads, only : BOOLEAN]

Result == [type : Workers, id : Channels \cup Threads \cup {"-"},
           last : BOOLEAN, err : {"none", "notfound", "fatal"}]

\* Control points of the goroutines, and those at which one goes on after a result.
Labels == {"loop", "send", "putChan", "putThread", "info", "page", "spawn", "exit", "done"}
Resumes == {"loop", "page", "exit"}

VARIABLES
  links,      \* links not yet received from items
  chansC, threadsC, resultsC,   \* contents of the Go channels
  closed,     \* Go channels closed so far
  pc,         \* control point of each goroutine
  after,      \* control point after the result being sent
  out,        \* the result each goroutine is sending
  held,       \* link held by the main loop while it sends it on
  creq, cpage, todo,   \* channel worker: request, page, threads to request
  treq, tpage, retried,   \* thread worker: request, page, attempts repeated past a first page
  cancelled,  \* ctx is done
  panicked,   \* a goroutine has sent on a closed channel
  status,     \* what Conversations returned: "run", "ok" or "failed"
  calls,      \* history: how often the processor has received each page
  late        \* history: processor calls made after Conversations returned

queues == <<chansC, threadsC, resultsC, closed>>
chanVars == <<creq, cpage, todo>>
threadVars == <<treq, tpage, retried>>
history == <<calls, late>>
vars == <<links, queues, pc, after, out, held, chanVars, threadVars,
          cancelled, panicked, status, history>>

NoReq == [id |-> "-", only |-> FALSE]
NoResult == [type |-> "main", id |-> "-", last |-> FALSE, err |-> "none"]

Init ==
  /\ links = Links
  /\ chansC = <<>> /\ threadsC = <<>> /\ resultsC = <<>>
  /\ closed = {}
  /\ pc = [w \in Workers |-> "loop"]
  /\ after = [w \in Workers |-> "loop"]
  /\ out = [w \in Workers |-> NoResult]
  /\ held = "-"
  /\ creq = "-" /\ cpage = 1 /\ todo = <<>>
  /\ treq = NoReq /\ tpage = 1 /\ retried = 0
  /\ cancelled = FALSE /\ panicked = FALSE
  /\ status = "run"
  /\ calls = [k \in Calls |-> 0]
  /\ late = 0

\* A send on a buffered Go channel blocks while it is full.
RoomOffByOne(q, cap) == Len(q) <= cap    \* mutation of Room
Room(q, cap) == Len(q) < cap

\* threadC <- r: a panic if the channel has been closed
PutThread(r) ==
  \/ "threads" \in closed /\ panicked' = TRUE /\ UNCHANGED threadsC
  \/ /\ "threads" \notin closed /\ Room(threadsC, ThreadCap)
     /\ threadsC' = Append(threadsC, r)
     /\ UNCHANGED panicked

\* The page after page p of n, at which the cursor of the response points.
SamePage(p, n) == p                      \* mutation of NextPage: the cursor is not kept
NextPage(p, n) == IF p = n THEN p ELSE p + 1

Goto(w, l) == pc' = [pc EXCEPT ![w] = l]

\* results <- r, then go on at l
Raise(w, r, l) ==
  /\ Goto(w, "send")
  /\ out' = [out EXCEPT ![w] = r]
  /\ after' = [after EXCEPT ![w] = l]

Failure(w, id, e) == [type |-> w, id |-> id, last |-> FALSE, err |-> e]
Success(w, id, isLast) == [type |-> w, id |-> id, last |-> isLast, err |-> "none"]

\* The API or the processor may fail; with ctx done every call may fail.
CanFail == "api" \in Faults \/ cancelled

Deliver(id, page) ==
  /\ calls' = [calls EXCEPT ![[id |-> id, page |-> page]] = @ + 1]
  /\ late' = late + (IF status = "run" THEN 0 ELSE 1)

-----------------------------------------------------------------------------
(* Any goroutine: the blocking send on the result channel, and its end.    *)

SendResult(w) ==
  /\ pc[w] = "send"
  /\ Room(resultsC, ResultCap)
  /\ resultsC' = Append(resultsC, out[w])
  /\ Goto(w, after[w])
  /\ UNCHANGED <<links, chansC, threadsC, closed, after, out, held, chanVars,
                 threadVars, cancelled, panicked, status, history>>

\* case <-ctx.Done() of the three loops
SeeCancel(w) ==
  /\ pc[w] = "loop" /\ cancelled
  /\ Raise(w, Failure(w, "-", "fatal"), "exit")
  /\ UNCHANGED <<links, queues, held, chanVars, threadVars, cancelled, panicked,
                 status, history>>

\* The deferred close of chansC by the main loop, of threadsC by the channel
\* worker's goroutine; then wg.Done.
\* Mutations of Closes: the main loop closes both channels; chansC stays open.
ClosesBoth(w) == IF w = "main" THEN {"chans", "threads"} ELSE {}
ClosesThreadsOnly(w) == IF w = "channel" THEN {"threads"} ELSE {}
Closes(w) == CASE w = "main" -> {"chans"} [] w = "channel" -> {"threads"} [] OTHER -> {}

Exit(w) ==
  /\ pc[w] = "exit"
  /\ closed' = closed \cup Closes(w)
  /\ Goto(w, "done")
  /\ UNCHANGED <<links, chansC, threadsC, resultsC, after, out, held, chanVars,
                 threadVars, cancelled, panicked, status, history>>

-----------------------------------------------------------------------------
(* Main loop: processLink on every link.                                   *)

MainTake ==
  /\ pc["main"] = "loop" /\ links # <<>>
  /\ links' = Tail(links)
  /\ \/ /\ "badlink" \in Faults
        /\ Raise("main", Failure("main", "-", "fatal"), "loop")
        /\ UNCHANGED held
     \/ /\ held' = Head(links).id
        /\ Goto("main", IF Head(links).kind = "thread" THEN "putThread" ELSE "putChan")
        /\ UNCHANGED <<out, after>>
  /\ UNCHANGED <<queues, chanVars, threadVars, cancelled, panicked, status, history>>

MainEnd ==
  /\ pc["main"] = "loop" /\ links = <<>>
  /\ Goto("main", "exit")
  /\ UNCHANGED <<links, queues, after, out, held, chanVars, threadVars, cancelled,
                 panicked, status, history>>

MainPutChan ==
  /\ pc["main"] = "putChan" /\ Room(chansC, ChanCap)
  /\ chansC' = Append(chansC, held)
  /\ Goto("main", "loop")
  /\ UNCHANGED <<links, threadsC, resultsC, closed, after, out, held, chanVars,
                 threadVars, cancelled, panicked, status, history>>

MainPutThread ==
  /\ pc["main"] = "putThread"
  /\ PutThread([id |-> held, only |-> TRUE])
  /\ Goto("main", "loop")
  /\ UNCHANGED <<links, chansC, resultsC, closed, after, out, held, chanVars,
                 threadVars, cancelled, status, history>>

-----------------------------------------------------------------------------
(* Channel worker.                                                         *)

ChanRecv ==
  /\ pc["channel"] = "loop"
  /\ \/ /\ chansC # <<>>
        /\ creq' = Head(chansC) /\ chansC' = Tail(chansC)
        /\ Goto("channel", "info")
     \/ /\ chansC = <<>> /\ "chans" \in closed
        /\ Goto("channel", "exit")
        /\ UNCHANGED <<creq, chansC>>
  /\ UNCHANGED <<links, threadsC, resultsC, closed, after, out, held, cpage, todo,
                 threadVars, cancelled, panicked, status, history>>

\* procChannelInfoWithUsers, for a channel or for a directly requested thread
Info(w, id) ==
  /\ pc[w] = "info"
  /\ \/ Goto(w, "page") /\ UNCHANGED <<after, out>>
     \/ "notfound" \in Faults /\ Raise(w, Failure(w, id, "notfound"), "loop")
     \/ CanFail /\ Raise(w, Failure(w, id, "fatal"), "loop")
  /\ UNCHANGED <<links, queues, held, todo, creq, treq, cancelled,
                 panicked, status, history>>

ChanInfo == Info("channel", creq) /\ cpage' = 1 /\ UNCHANGED <<tpage, retried>>

\* The history page is fetched and procChanMsg calls proc.Messages with the
\* number of threads on it.
ChanPage ==
  /\ pc["channel"] = "page"
  /\ \/ /\ Deliver(creq, cpage)
        /\ todo' = Pages[creq][cpage]
        /\ Goto("channel", "spawn")
        /\ UNCHANGED <<after, out>>
     \/ /\ CanFail
        /\ Raise("channel", Failure("channel", creq, "fatal"), "loop")
        /\ UNCHANGED <<history, todo>>
  /\ UNCHANGED <<links, queues, held, creq, cpage, threadVars, cancelled, panicked, status>>

\* for _, tr := range trs { threadC <- tr }
ChanSpawn ==
  /\ pc["channel"] = "spawn" /\ todo # <<>>
  /\ PutThread([id |-> Head(todo), only |-> FALSE])
  /\ todo' = Tail(todo)
  /\ UNCHANGED <<links, chansC, resultsC, closed, pc, after, out, held, creq, cpage,
                 threadVars, cancelled, status, history>>

ChanReport ==
  /\ pc["channel"] = "spawn" /\ todo = <<>>
  /\ LET isLast == cpage = Len(Pages[creq]) IN
     /\ Raise("channel", Success("channel", creq, isLast), IF isLast THEN "loop" ELSE "page")
     /\ cpage' = NextPage(cpage, Len(Pages[creq]))
  /\ UNCHANGED <<links, queues, held, creq, todo, threadVars, cancelled, panicked,
                 status, history>>

-----------------------------------------------------------------------------
(* Thread worker.                                                          *)

ThreadRecv ==
  /\ pc["thread"] = "loop"
  /\ \/ /\ threadsC # <<>>
        /\ treq' = Head(threadsC) /\ threadsC' = Tail(threadsC)
        /\ tpage' = 1
        /\ Goto("thread", IF Head(threadsC).only THEN "info" ELSE "page")
     \/ /\ threadsC = <<>> /\ "threads" \in closed
        /\ Goto("thread", "exit")
        /\ UNCHANGED <<treq, tpage, threadsC>>
  /\ UNCHANGED <<links, chansC, resultsC, closed, after, out, held, chanVars,
                 retried, cancelled, panicked, status, history>>

ThreadInfo == Info("thread", treq.id) /\ UNCHANGED <<cpage, tpage, retried>>

\* procThreadMsg calls proc.ThreadMessages, then the result is sent.
ThreadPage ==
  /\ pc["thread"] = "page"
  /\ LET isLast == tpage = Replies[treq.id] IN
     \/ /\ Deliver(treq.id, tpage)
        /\ Raise("thread", Success("thread", treq.id, isLast),
                 IF isLast THEN "loop" ELSE "page")
        /\ tpage' = NextPage(tpage, Replies[treq.id])
     \/ /\ CanFail
        /\ Raise("thread", Failure("thread", treq.id, "fatal"), "loop")
        /\ UNCHANGED <<history, tpage>>
  /\ UNCHANGED <<links, queues, held, chanVars, treq, retried, cancelled, panicked, status>>

\* An attempt that WithRetry repeats has overwritten the cursor with the empty one of
\* its response, so the next attempt asks for the first page again.  A repeated
\* attempt on the first page, or in channel(), changes nothing.
ThreadRetry ==
  /\ pc["thread"] = "page" /\ tpage > 1
  /\ "retry" \in Faults /\ retried < MaxRetries
  /\ tpage' = 1 /\ retried' = retried + 1
  /\ UNCHANGED <<links, queues, pc, after, out, held, chanVars, treq, cancelled,
                 panicked, status, history>>

-----------------------------------------------------------------------------
(* Sentinel and the loop over the results.                                 *)

\* Mutation of Sentinel: it does not wait for the thread worker.
SentinelEarly ==
  /\ "results" \notin closed
  /\ pc["main"] = "done" /\ pc["channel"] = "done"
  /\ closed' = closed \cup {"results"}
  /\ UNCHANGED <<links, chansC, threadsC, resultsC, pc, after, out, held, chanVars,
                 threadVars, cancelled, panicked, status, history>>

Sentinel ==
  /\ "results" \notin closed
  /\ \A w \in Workers : pc[w] = "done"
  /\ closed' = closed \cup {"results"}
  /\ UNCHANGED <<links, chansC, threadsC, resultsC, pc, after, out, held, chanVars,
                 threadVars, cancelled, panicked, status, history>>

Skipped(r) == r.err = "notfound" /\ SkipNotFound

Consume ==
  /\ status = "run" /\ resultsC # <<>>
  /\ resultsC' = Tail(resultsC)
  /\ LET r == Head(resultsC) IN
     status' \in IF Skipped(r) THEN {"run"}
                 ELSE IF r.err # "none" THEN {"failed"}
                 ELSE {"run"} \cup (IF "callback" \in Faults THEN {"failed"} ELSE {})
  /\ UNCHANGED <<links, chansC, threadsC, closed, pc, after, out, held, chanVars,
                 threadVars, cancelled, panicked, history>>

\* Mutation of Return: it does not wait for the result channel to be closed.
ReturnWhenEmpty ==
  /\ status = "run" /\ resultsC = <<>>
  /\ status' = "ok"
  /\ UNCHANGED <<links, queues, pc, after, out, held, chanVars, threadVars, cancelled,
                 panicked, history>>

Return ==
  /\ status = "run" /\ resultsC = <<>> /\ "results" \in closed
  /\ status' = "ok"
  /\ UNCHANGED <<links, queues, pc, after, out, held, chanVars, threadVars, cancelled,
                 panicked, history>>

\* The caller's context is cancelled at an arbitrary moment.
Cancel ==
  /\ "cancel" \in Faults /\ ~cancelled
  /\ cancelled' = TRUE
  /\ UNCHANGED <<links, queues, pc, after, out, held, chanVars, threadVars, panicked,
                 status, history>>

-----------------------------------------------------------------------------

Main == MainTake \/ MainEnd \/ MainPutChan \/ MainPutThread
ChannelWorker == ChanRecv \/ ChanInfo \/ ChanPage \/ ChanSpawn \/ ChanReport
ThreadWorker == ThreadRecv \/ ThreadInfo \/ ThreadPage \/ ThreadRetry

\* A panic ends the process.
Next ==
  /\ ~panicked
  /\ \/ Main \/ ChannelWorker \/ ThreadWorker
     \/ \E w \in Workers : SendResult(w) \/ SeeCancel(w) \/ Exit(w)
     \/ Sentinel \/ Consume \/ Return \/ Cancel

Spec == Init /\ [][Next]_vars

\* Every goroutine keeps running while it is not blocked (the Go scheduler);
\* API calls return, so a call in progress is one step.  Nothing is assumed of
\* the moment of a cancellation.
Fairness ==
  /\ WF_vars(~panicked /\ Main)
  /\ WF_vars(~panicked /\ ChannelWorker)
  /\ WF_vars(~panicked /\ ThreadWorker)
  /\ \A w \in Workers : WF_vars(~panicked /\ (SendResult(w) \/ Exit(w)))
  /\ WF_vars(~panicked /\ (Sentinel \/ Return))
  /\ WF_vars(~panicked /\ Consume)

FairSpec == Spec /\ Fairness

-----------------------------------------------------------------------------
(* Properties.                                                             *)

\* Every variable has its type and no Go channel exceeds its capacity.
TypeOK ==
  /\ links \in Seq(Link)
  /\ chansC \in Seq(Channels) /\ Len(chansC) <= ChanCap
  /\ threadsC \in Seq(ThreadReq) /\ Len(threadsC) <= ThreadCap
  /\ resultsC \in Seq(Result) /\ Len(resultsC) <= ResultCap
  /\ closed \subseteq {"chans", "threads", "results"}
  /\ pc \in [Workers -> Labels] /\ after \in [Workers -> Resumes]
  /\ out \in [Workers -> Result]
  /\ held \in Channels \cup Threads \cup {"-"}
  /\ creq \in Channels \cup {"-"} /\ cpage \in Nat /\ todo \in Seq(Threads)
  /\ treq \in ThreadReq \cup {NoReq} /\ tpage \in Nat /\ retried \in Nat
  /\ cancelled \in BOOLEAN /\ panicked \in BOOLEAN
  /\ status \in {"run", "ok", "failed"}
  /\ calls \in [Calls -> Nat] /\ late \in Nat

Delivered(k) == calls[k] > 0
ElemsOf(s) == {s[i] : i \in DOMAIN s}

\* t has been counted in the numThreads of a proc.Messages call.
Announced(t) == \E k \in ChanCalls : Delivered(k) /\ t \in ElemsOf(Pages[k.id][k.page])
Linked(t) == \E i \in DOMAIN Links : Links[i] = [kind |-> "thread", id |-> t]

\* The comment in procChanMsg: the processor receives no page of a thread found in
\* a channel before the Messages call that gave it the thread count it is part of.
AnnouncedFirst ==
  \A k \in ThreadCalls : Delivered(k) => Announced(k.id) \/ Linked(k.id)

\* No goroutine sends on threadsC after the channel worker's goroutine closed it
\* (the comment at conversation.go:79-80).
NoSendOnClosed == ~panicked

\* A send on the closed threadsC takes a cancellation: as long as ctx is alive the
\* channel worker outlives every send of the main loop.
PanicNeedsCancel == panicked => cancelled

\* Everything reachable from a link: all pages of the channel and of its threads.
ChannelDone(c) ==
  \A p \in 1..Len(Pages[c]) :
    /\ Delivered([id |-> c, page |-> p])
    /\ \A t \in ElemsOf(Pages[c][p]) : \A q \in 1..Replies[t] :
         Delivered([id |-> t, page |-> q])
LinkDone(l) ==
  CASE l.kind = "channel" -> ChannelDone(l.id)
    [] l.kind = "thread" -> \A q \in 1..Replies[l.id] : Delivered([id |-> l.id, page |-> q])
LinkUntouched(l) == \A k \in Calls : k.id = l.id => ~Delivered(k)

\* Conversations returns nil only when every link was fetched to its last page with
\* all of its threads; with channels that are not found skipped, a link is fetched
\* entirely or not at all.
CompleteOnSuccess ==
  status = "ok" => \A i \in DOMAIN Links :
     \/ LinkDone(Links[i])
     \/ "notfound" \in Faults /\ LinkUntouched(Links[i])

\* After a nil return no goroutine is left that could still call the processor, and
\* nothing is left in the Go channels: the caller may close the processor.
QuietOnSuccess ==
  status = "ok" =>
    /\ \A w \in Workers : pc[w] = "done"
    /\ chansC = <<>> /\ threadsC = <<>> /\ resultsC = <<>>

\* After an error return the workers keep running until the result channel is full:
\* at most ResultCap results fit in it, and each worker makes one call more before
\* it blocks.
StragglersBounded == late <= ResultCap + 2

\* No page of a channel is given to the processor more often than the links ask for
\* it.  Pages of a thread repeat, once for each repeated attempt past its first page.
Asked(id) ==
  LET asks == {i \in DOMAIN Links : Links[i].id = id}
      found == {x \in (DOMAIN Links) \X ChanCalls :
                 Links[x[1]].id = x[2].id /\ id \in ElemsOf(Pages[x[2].id][x[2].page])}
  IN Cardinality(asks) + Cardinality(found)
NoRepeatedPages ==
  \A k \in Calls : calls[k] <= Asked(k.id) + (IF k \in ThreadCalls THEN retried ELSE 0)

\* Conversations returns, whatever the API and the processor answer and whenever the
\* context is cancelled, unless the process has panicked.
Returns == <>(status # "run" \/ panicked)
-----------------------------------------------------------------------------
(* The promise of Delivery in terms of the above: which page precedes which, and what a link   *)
(* stands for.                                                                                 *)

\* What a page depends on: the page before it, or for the first page of a thread
\* one of the pages of a channel it was found on, unless a link asks for the thread.
Before(k) ==
  IF k.page > 1 THEN {{[id |-> k.id, page |-> k.page - 1]}}
  ELSE IF k.id \in Channels THEN {{}}
  ELSE {{c} : c \in {x \in ChanCalls : k.id \in ElemsOf(Pages[x.id][x.page])}}
         \cup (IF Linked(k.id) THEN {{}} ELSE {})

\* All pages of the entity of a link, and of the threads found in it.
UnitOf(l) ==
  {k \in Calls : \/ k.id = l.id
                 \/ l.kind = "channel" /\ \E p \in DOMAIN Pages[l.id] : k.id \in ElemsOf(Pages[l.id][p])}

Promise == INSTANCE Delivery WITH
  Items <- Calls,
  DependsOn <- [k \in Calls |-> Before(k)],
  Units <- {UnitOf(Links[i]) : i \in DOMAIN Links},
  MayFail <- Faults # {},
  MaySkip <- "notfound" \in Faults,
  delivered <- {k \in Calls : Delivered(k)},
  outcome <- status

\* The main loop, the two workers and the loop over the results implement the promise:
\* pages in order, nil only when all that was asked for has arrived, nothing after it.
KeepsPromise == Promise!Spec
=============================================================================
