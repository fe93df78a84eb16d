-------------------------------- MODULE Runner --------------------------------
(***************************************************************************)
(* runWorkers of internal/chunk/control: the users and conversations       *)
(* goroutines of a run, the generator that feeds the links, and the error  *)
(* channel that ties them together; with the user ID collector of the      *)
(* channel-users mode and the queue of the export coordinator, whose start *)
(* waits for the users.  (The workspace goroutine is a users goroutine     *)
(* with one page and is left out.)  Stream.Conversations is reduced to     *)
(* what the others see of it: the main loop, the channel worker with one   *)
(* page per link, and the reader of the results, which returns at the      *)
(* first error and leaves the other two running (see ConvStream for        *)
(* threads and ExportCoordinator for failing conversions).                 *)
(***************************************************************************)
EXTENDS Integers, Sequences

CONSTANTS
  NumLinks, UserPages,                     \* what there is to fetch
  ChanSz, ResultSz, UserIDSz, RequestSz,   \* capacities of the Go channels
  Modes,       \* the ways to run: sets of "api", "channelUsers", "transform"
  FaultSets    \* sets of what may fail: "users", "list", "link", "close", "cancel"

ASSUME RunnerAssumption ==
  /\ NumLinks \in Nat /\ UserPages \in Nat
  /\ {ChanSz, ResultSz, UserIDSz, RequestSz} \subseteq Nat \ {0}
  /\ \A m \in Modes : m \subseteq {"api", "channelUsers", "transform"}
  /\ \A F \in FaultSets : F \subseteq {"users", "list", "link", "close", "cancel"}

Links == 1..NumLinks
None == 0

VARIABLES
  mode,         \* what this run uses: links listed from the "api" or a given list, users only of
                \* the channels ("channelUsers") or all, a coordinator ("transform"); its faults
  cancelled,    \* the context
  pc,           \* control points of the goroutines
  item,         \* link in the hands of the main loop and of the channel worker
  sent,         \* links 1..sent have been generated
  chansC, resultsC, userIDC, requestC, errC,   \* contents of the Go channels
  shut,         \* Go channels closed, of "results", "userID", "err"
  recorded,     \* links whose page has been recorded
  users,        \* users fetched: page numbers, or in channel-users mode the links they are from
  startedWith,  \* users the coordinator was started with, or {}
  collected,    \* errors runWorkers has received
  raised,       \* history: all errors of its goroutines
  panics        \* Go channels on which a send panicked

chans == <<chansC, resultsC, userIDC, requestC, errC, shut>>
vars == <<mode, cancelled, pc, item, sent, chans, recorded, users, startedWith, collected,
          raised, panics>>

Workers == {"users", "conv"}        \* in the wait group of runWorkers
Goroutines == Workers \cup {"gen", "loop", "channel", "main"}

Init ==
  /\ mode \in [uses : Modes, faults : FaultSets]
  /\ cancelled = FALSE
  /\ pc = [g \in Goroutines |->
             CASE g \in {"users", "gen"} -> "work" [] g = "conv" -> "read"
               [] g \in {"loop", "channel"} -> "recv" [] g = "main" -> "collect"]
  /\ item = [g \in {"loop", "channel"} |-> None] /\ sent = 0
  /\ chansC = <<>> /\ resultsC = <<>> /\ userIDC = <<>> /\ requestC = <<>> /\ errC = <<>>
  /\ shut = {} /\ recorded = {} /\ users = {} /\ startedWith = {}
  /\ collected = {} /\ raised = {} /\ panics = {}

Uses(x) == x \in mode.uses
Faulty(x) == x \in mode.faults
At(g, l) == panics = {} /\ pc[g] = l
Goto(g, l) == pc' = [pc EXCEPT ![g] = l]
Raise(g, kind) == raised' = raised \cup {<<g, kind>>}

-----------------------------------------------------------------------------
(* The error channel, of capacity 1                                        *)

\* What a worker does once it has sent its error: conversations wait for the generator.
AfterWork(g) == IF g = "conv" THEN "wait" ELSE "close"

\* errC <- Error{...}
SendError(g) ==
  /\ At(g, "fail")
  /\ IF "err" \in shut
     THEN panics' = panics \cup {"err"} /\ UNCHANGED <<errC, pc>>
     ELSE /\ errC = <<>> /\ errC' = << <<g, "work">> >>
          /\ Goto(g, AfterWork(g)) /\ UNCHANGED panics
  /\ UNCHANGED <<mode, cancelled, item, sent, chansC, resultsC, userIDC, requestC, shut,
                 recorded, users, startedWith, collected, raised>>

\* Mutation of OfferError: the error is never sent.
OfferNothing(g) == Raise(g, "close") /\ UNCHANGED errC

\* The error of a Close is given up when another one is in the channel.
OfferError(g) ==
  /\ Raise(g, "close")
  /\ errC' = IF errC = <<>> THEN << <<g, "close">> >> ELSE errC

\* Mutation of ClosesIDs: the collector of user IDs is not closed.
ClosesNothing(g) == FALSE

ClosesIDs(g) == g = "conv" /\ Uses("channelUsers")

\* tryClose of the processor of g.  That of the users starts the coordinator with what
\* has been fetched, and fails without users unless nothing depends on them; that of the
\* conversations closes the collector of user IDs.
NoUsersFails == users = {} /\ (~Uses("channelUsers") \/ Uses("transform"))
TryClose(g) ==
  /\ At(g, "close")
  /\ \/ (Faulty("close") \/ (g = "users" /\ NoUsersFails)) /\ OfferError(g)
     \/ ~(g = "users" /\ NoUsersFails) /\ UNCHANGED <<raised, errC>>
  /\ shut' = IF ClosesIDs(g) THEN shut \cup {"userID"} ELSE shut
  /\ startedWith' = IF g = "users" /\ ~cancelled THEN users ELSE startedWith
  /\ Goto(g, "done")
  /\ UNCHANGED <<mode, cancelled, item, sent, chansC, resultsC, userIDC, requestC, recorded,
                 users, collected, panics>>

\* The sentinel closes errC; the loop of runWorkers joins the errors until then.
CloseErrC ==
  /\ panics = {} /\ "err" \notin shut /\ \A g \in Workers : pc[g] = "done"
  /\ shut' = shut \cup {"err"}
  /\ UNCHANGED <<mode, cancelled, pc, item, sent, chansC, resultsC, userIDC, requestC, errC,
                 recorded, users, startedWith, collected, raised, panics>>

Collect ==
  /\ At("main", "collect")
  /\ \/ /\ errC # <<>> /\ errC' = <<>>
        /\ collected' = collected \cup {errC[1]}
        /\ UNCHANGED pc
     \/ /\ errC = <<>> /\ "err" \in shut
        /\ Goto("main", IF collected = {} THEN "nil" ELSE "error")
        /\ UNCHANGED <<errC, collected>>
  /\ UNCHANGED <<mode, cancelled, item, sent, chansC, resultsC, userIDC, requestC, shut,
                 recorded, users, startedWith, raised, panics>>

-----------------------------------------------------------------------------
(* userWorker                                                              *)

Fail(g) == Goto(g, "fail") /\ Raise(g, "work")

\* Stream.Users: the next page of all users.  Between two pages a cancelled context ends the
\* listing: Stream.Users unwraps the error, of which nothing is left, and returns nil.
UsersPage ==
  /\ At("users", "work") /\ ~Uses("channelUsers")
  /\ \/ /\ users # 1..UserPages
        /\ \E p \in 1..UserPages : users = 1..(p - 1) /\ users' = 1..p
        /\ UNCHANGED <<pc, raised>>
     \/ (users = 1..UserPages \/ cancelled) /\ Goto("users", "close") /\ UNCHANGED <<users, raised>>
     \/ (Faulty("users") \/ cancelled) /\ Fail("users") /\ UNCHANGED users
  /\ UNCHANGED <<mode, cancelled, item, sent, chans, recorded, startedWith, collected, panics>>

\* Mutation of UsersOfChannels: it stops when there is nothing to receive.
UsersOfChannelsNow ==
  /\ At("users", "work") /\ Uses("channelUsers")
  /\ \/ /\ userIDC # <<>> /\ userIDC' = Tail(userIDC)
        /\ users' = users \cup {Head(userIDC)}
        /\ UNCHANGED <<pc, raised>>
     \/ userIDC = <<>> /\ Goto("users", "close") /\ UNCHANGED <<userIDC, users, raised>>
     \/ cancelled /\ Fail("users") /\ UNCHANGED <<userIDC, users>>
  /\ UNCHANGED <<mode, cancelled, item, sent, chansC, resultsC, requestC, errC, shut, recorded,
                 startedWith, collected, panics>>

\* userCollectingStreamer.Users: the users whose IDs the collector sends, until it is closed.
UsersOfChannels ==
  /\ At("users", "work") /\ Uses("channelUsers")
  /\ \/ /\ userIDC # <<>> /\ userIDC' = Tail(userIDC)
        /\ \/ users' = users \cup {Head(userIDC)} /\ UNCHANGED <<pc, raised>>
           \/ Faulty("users") /\ Fail("users") /\ UNCHANGED users
     \/ /\ userIDC = <<>> /\ "userID" \in shut
        /\ Goto("users", "close") /\ UNCHANGED <<userIDC, users, raised>>
     \/ cancelled /\ Fail("users") /\ UNCHANGED <<userIDC, users>>
  /\ UNCHANGED <<mode, cancelled, item, sent, chansC, resultsC, requestC, errC, shut, recorded,
                 startedWith, collected, panics>>

-----------------------------------------------------------------------------
(* The generator.  From the API it lists the channels and can fail; a list *)
(* is only sent.  Both hand their links over, unless the context is done.  *)

HandOver ==
  /\ At("gen", "work") /\ sent < NumLinks /\ pc["loop"] = "recv"
  /\ sent' = sent + 1
  /\ item' = [item EXCEPT !["loop"] = sent']
  /\ Goto("loop", "put")
  /\ UNCHANGED <<mode, cancelled, chans, recorded, users, startedWith, collected, raised,
                 panics>>

StopGenerating ==
  /\ At("gen", "work")
  /\ \/ /\ sent = NumLinks /\ Goto("gen", IF Uses("api") THEN "close" ELSE "done")
        /\ UNCHANGED raised
     \/ cancelled /\ ~Uses("api") /\ Goto("gen", "done") /\ UNCHANGED raised
     \/ Uses("api") /\ (Faulty("list") \/ cancelled) /\ Fail("gen")
  /\ UNCHANGED <<mode, cancelled, item, sent, chans, recorded, users, startedWith, collected,
                 panics>>

\* Closing the joint processor of the channels, whose error is sent like any other; then
\* done and linksC are closed.
CloseChannels ==
  /\ At("gen", "close")
  /\ \/ Goto("gen", "done") /\ UNCHANGED <<errC, raised, panics>>
     \/ /\ Faulty("close")
        /\ IF "err" \in shut
           THEN panics' = panics \cup {"err"} /\ UNCHANGED <<errC, pc, raised>>
           ELSE /\ errC = <<>> /\ errC' = << <<"gen", "close">> >>
                /\ Raise("gen", "close") /\ Goto("gen", "done") /\ UNCHANGED panics
  /\ UNCHANGED <<mode, cancelled, item, sent, chansC, resultsC, userIDC, requestC, shut,
                 recorded, users, startedWith, collected>>

-----------------------------------------------------------------------------
(* Stream.Conversations                                                    *)

Result(r) == Len(resultsC) < ResultSz /\ resultsC' = Append(resultsC, r)

\* The main loop: the links are taken by HandOver.
LoopStop ==
  /\ At("loop", "recv")
  /\ \/ pc["gen"] = "done" /\ UNCHANGED resultsC
     \/ cancelled /\ Result("error")
  /\ Goto("loop", "done")
  /\ UNCHANGED <<mode, cancelled, item, sent, chansC, userIDC, requestC, errC, shut, recorded,
                 users, startedWith, collected, raised, panics>>

LoopPut ==
  /\ At("loop", "put") /\ Len(chansC) < ChanSz
  /\ chansC' = Append(chansC, item["loop"])
  /\ item' = [item EXCEPT !["loop"] = None]
  /\ Goto("loop", "recv")
  /\ UNCHANGED <<mode, cancelled, sent, resultsC, userIDC, requestC, errC, shut, recorded,
                 users, startedWith, collected, raised, panics>>

\* The channel worker takes the next link, and stops when there will be none or the
\* context is done.
ChannelTake ==
  /\ At("channel", "recv")
  /\ \/ /\ chansC # <<>> /\ chansC' = Tail(chansC)
        /\ item' = [item EXCEPT !["channel"] = Head(chansC)]
        /\ \/ Goto("channel", IF Uses("channelUsers") THEN "collect" ELSE "record")
           \/ (Faulty("link") \/ cancelled) /\ Goto("channel", "sorry")
        /\ UNCHANGED resultsC
     \/ /\ chansC = <<>> /\ pc["loop"] = "done"
        /\ Goto("channel", "done") /\ UNCHANGED <<item, chansC, resultsC>>
     \/ cancelled /\ Result("error") /\ Goto("channel", "done") /\ UNCHANGED <<item, chansC>>
  /\ UNCHANGED <<mode, cancelled, sent, userIDC, requestC, errC, shut, recorded, users,
                 startedWith, collected, raised, panics>>

\* msgUserIDsCollector.Messages, before the recorder: the new user IDs of the page.
CollectIDs ==
  /\ At("channel", "collect")
  /\ \/ /\ "userID" \in shut
        /\ panics' = panics \cup {"userID"} /\ UNCHANGED <<userIDC, pc>>
     \/ /\ "userID" \notin shut /\ Len(userIDC) < UserIDSz
        /\ userIDC' = Append(userIDC, item["channel"])
        /\ Goto("channel", "record") /\ UNCHANGED panics
     \/ cancelled /\ Goto("channel", "sorry") /\ UNCHANGED <<userIDC, panics>>
  /\ UNCHANGED <<mode, cancelled, item, sent, chansC, resultsC, requestC, errC, shut, recorded,
                 users, startedWith, collected, raised>>

\* The recorder, then the transformer, which queues the channel for conversion.
Record ==
  /\ At("channel", "record")
  /\ recorded' = recorded \cup {item["channel"]}
  /\ Goto("channel", IF Uses("transform") THEN "transform" ELSE "thanks")
  /\ UNCHANGED <<mode, cancelled, item, sent, chans, users, startedWith, collected, raised,
                 panics>>

Transform ==
  /\ At("channel", "transform") /\ Len(requestC) < RequestSz
  /\ requestC' = Append(requestC, item["channel"])
  /\ Goto("channel", "thanks")
  /\ UNCHANGED <<mode, cancelled, item, sent, chansC, resultsC, userIDC, errC, shut, recorded,
                 users, startedWith, collected, raised, panics>>

SendResult ==
  /\ pc["channel"] \in {"thanks", "sorry"} /\ panics = {}
  /\ Result(IF pc["channel"] = "sorry" THEN "error" ELSE "ok")
  /\ item' = [item EXCEPT !["channel"] = None]
  /\ Goto("channel", "recv")
  /\ UNCHANGED <<mode, cancelled, sent, chansC, userIDC, requestC, errC, shut, recorded, users,
                 startedWith, collected, raised, panics>>

\* Conversations itself: the first error is its error; the end of the results is its end.
ReadResults ==
  /\ At("conv", "read")
  /\ \/ /\ resultsC # <<>> /\ resultsC' = Tail(resultsC)
        /\ IF Head(resultsC) = "error" THEN Fail("conv") ELSE UNCHANGED <<pc, raised>>
     \/ /\ resultsC = <<>> /\ pc["loop"] = "done" /\ pc["channel"] = "done"
        /\ Goto("conv", AfterWork("conv")) /\ UNCHANGED <<resultsC, raised>>
  /\ UNCHANGED <<mode, cancelled, item, sent, chansC, userIDC, requestC, errC, shut, recorded,
                 users, startedWith, collected, panics>>

\* Mutation of Wait: the deferred wait is missing.
WaitNot ==
  /\ At("conv", "wait")
  /\ Goto("conv", "close")
  /\ UNCHANGED <<mode, cancelled, item, sent, chans, recorded, users, startedWith, collected,
                 raised, panics>>

\* defer wait(): with a list there is nothing to wait for.
Wait ==
  /\ At("conv", "wait") /\ (Uses("api") => pc["gen"] = "done")
  /\ Goto("conv", "close")
  /\ UNCHANGED <<mode, cancelled, item, sent, chans, recorded, users, startedWith, collected,
                 raised, panics>>

-----------------------------------------------------------------------------
(* The worker of the coordinator, held back until it is started.           *)

Convert ==
  /\ panics = {} /\ startedWith # {} /\ requestC # <<>>
  /\ requestC' = Tail(requestC)
  /\ UNCHANGED <<mode, cancelled, pc, item, sent, chansC, resultsC, userIDC, errC, shut,
                 recorded, users, startedWith, collected, raised, panics>>

Cancel ==
  /\ Faulty("cancel") /\ ~cancelled /\ At("main", "collect")
  /\ cancelled' = TRUE
  /\ UNCHANGED <<mode, pc, item, sent, chans, recorded, users, startedWith, collected, raised,
                 panics>>

Users == UsersPage \/ UsersOfChannels
Generator == HandOver \/ StopGenerating \/ CloseChannels
Loop == LoopStop \/ LoopPut
Channel == ChannelTake \/ CollectIDs \/ Record \/ Transform \/ SendResult
Conv == ReadResults \/ Wait
Ending(g) == SendError(g) \/ TryClose(g)

Next ==
  \/ Users \/ Generator \/ Loop \/ Channel \/ Conv
  \/ \E g \in Workers : Ending(g)
  \/ SendError("gen")
  \/ CloseErrC \/ Collect \/ Convert \/ Cancel

Spec == Init /\ [][Next]_vars

\* Every goroutine is scheduled; nothing need be cancelled.
Fairness ==
  /\ WF_vars(Users) /\ WF_vars(Generator) /\ WF_vars(Loop)
  /\ WF_vars(Channel) /\ WF_vars(Conv) /\ WF_vars(CloseErrC) /\ WF_vars(Collect)
  /\ WF_vars(Convert) /\ WF_vars(SendError("gen"))
  /\ \A g \in Workers : WF_vars(Ending(g))

FairSpec == Spec /\ Fairness

-----------------------------------------------------------------------------
(* Properties                                                              *)

Errors == Goroutines \X {"work", "close"}

\* Every variable has its type, and no Go channel exceeds its capacity.
TypeOK ==
  /\ mode \in [uses : Modes, faults : FaultSets] /\ cancelled \in BOOLEAN
  /\ DOMAIN pc = Goroutines
  /\ item \in [{"loop", "channel"} -> Links \cup {None}] /\ sent \in 0..NumLinks
  /\ Len(chansC) <= ChanSz /\ Len(resultsC) <= ResultSz /\ Len(userIDC) <= UserIDSz
  /\ Len(requestC) <= RequestSz /\ Len(errC) <= 1
  /\ shut \subseteq {"userID", "err"} /\ recorded \subseteq Links
  /\ users \subseteq Nat /\ startedWith \subseteq users
  /\ collected \subseteq Errors /\ raised \subseteq Errors /\ panics \subseteq {"userID", "err"}

Returned == pc["main"] # "collect"
Failed(g) == <<g, "work">> \in raised

\* runWorkers returns nil only if every link has been recorded, the users it was to fetch
\* have been, and the coordinator was started with all of them.  (When the context is done
\* a given list and the listing of all users just end, and that is taken for their end.)
NilMeansAll ==
  pc["main"] = "nil" /\ (cancelled => Uses("api")) =>
    /\ recorded = Links
    /\ \/ users = IF Uses("channelUsers") THEN Links ELSE 1..UserPages
       \/ cancelled /\ ~Uses("channelUsers")
    /\ ~cancelled => startedWith = users

\* An error a Close gives up is never the only one: a nil return means that nothing failed,
\* an error return reports the failure of every worker.
ErrorsReported ==
  /\ pc["main"] = "nil" => raised = {}
  /\ Returned => \A g \in Workers \cup {"gen"} : Failed(g) => <<g, "work">> \in collected

\* Nothing is sent on errC once it is closed, and a send of user IDs can only find its
\* channel closed when Conversations has failed and left its goroutines running.
PanicNeedsFailure == "err" \notin panics /\ ("userID" \in panics => Failed("conv"))

\* Unless the users or the conversations fail, runWorkers returns.
Ends == <>(Returned \/ Failed("conv") \/ Failed("users"))

\* Cancelling the context makes it return, whatever failed before.
EndsWhenCancelled == cancelled ~> Returned \/ panics # {}

\* runner.go:100-101: it waits for all workers to finish, and "If any of the workers return
\* an error, it returns the error".
ReturnsTheError == \A g \in Workers : Failed(g) ~> Returned \/ panics # {}

=============================================================================
