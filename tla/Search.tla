------------------------------- MODULE Search -------------------------------
(***************************************************************************)
(* Searching for messages and files (stream/search.go, runSearch of        *)
(* internal/chunk/control): an error group of up to three calls, whose     *)
(* first error cancels the others.  The search for messages consists of a  *)
(* goroutine that reads the pages of the results and passes on the         *)
(* channels they are from, a worker that records each such channel once,   *)
(* and the call itself, which reads results until one is an error.         *)
(***************************************************************************)
EXTENDS Naturals, Sequences, SequencesExt

CONSTANTS
  Pages,        \* a sequence of pages of messages, each the sequence of their channels
  FilePages,    \* number of pages of files
  InfoCap,      \* capacity of channelInfoC
  Faults,       \* "searcher", "info", "files", "workspace": what may fail; "cancel": the user cancels
  Wants         \* sets of "messages" and "files"

VARIABLES
  want, cancelled, interrupted,         \* the context is done, because of the user
  searcher, page, passing,              \* the goroutine of the messages, what it still has to pass on
  infoC, informer, informing, seen,     \* channelInfoC, the worker and its channel, channels it has seen
  srC,                                  \* results: an error or nothing, one at most
  call,                                 \* SearchMessages: "read", "nil", "error", or "none"
  files, filePage, workspace,           \* the other calls
  result,                               \* of the error group: "wait", "nil" or "error"
  recorded, late                        \* history: what was recorded, pages recorded after the return

messages == <<searcher, page, passing, infoC, informer, informing, seen, srC, call>>
others == <<files, filePage, workspace>>
vars == <<want, cancelled, interrupted, messages, others, result, recorded, late>>

None == "none"
May(f) == f \in Faults
ChannelsOf(p) == {Pages[p][i] : i \in DOMAIN Pages[p]}

Init ==
  /\ want \in Wants /\ cancelled = FALSE /\ interrupted = FALSE
  /\ searcher = (IF "messages" \in want THEN "ask" ELSE "ended") /\ page = 1 /\ passing = <<>>
  /\ infoC = <<>> /\ informer = (IF "messages" \in want THEN "recv" ELSE "ended") /\ informing = None
  /\ seen = {} /\ srC = <<>>
  /\ call = (IF "messages" \in want THEN "read" ELSE "none")
  /\ files = (IF "files" \in want THEN "ask" ELSE "none") /\ filePage = 1
  /\ workspace = "ask" /\ result = "wait" /\ recorded = {} /\ late = {}

-----------------------------------------------------------------------------
(* The goroutine that searches for messages. *)

Record(x) ==
  /\ recorded' = recorded \union {x}
  /\ late' = IF result = "wait" THEN late ELSE late \union {x}

\* A page: asked for (not when the context is done), then given to the processor.
AskPage ==
  /\ searcher = "ask"
  /\ \/ ~cancelled /\ searcher' = "process"
     \/ (May("searcher") \/ cancelled) /\ searcher' = "fail"
  /\ UNCHANGED <<want, cancelled, interrupted, page, passing, infoC, informer, informing, seen, srC, call,
                 others, result, recorded, late>>

ProcessPage ==
  /\ searcher = "process"
  /\ \/ Record(<<"page", page>>) /\ searcher' = "pass" /\ passing' = Pages[page]
     \/ (May("searcher") \/ cancelled) /\ searcher' = "fail" /\ UNCHANGED <<passing, recorded, late>>
  /\ UNCHANGED <<want, cancelled, interrupted, page, infoC, informer, informing, seen, srC, call, others,
                 result>>

\* The channels of its messages are passed on; then comes the next page, or none.
PassOn ==
  /\ searcher = "pass"
  /\ \/ /\ passing # <<>> /\ Len(infoC) < InfoCap
        /\ infoC' = Append(infoC, Head(passing)) /\ passing' = Tail(passing) /\ UNCHANGED <<searcher, page>>
     \/ passing # <<>> /\ cancelled /\ searcher' = "fail" /\ UNCHANGED <<infoC, passing, page>>
     \/ /\ passing = <<>>
        /\ IF page < Len(Pages) THEN searcher' = "ask" /\ page' = page + 1
                                ELSE searcher' = "ended" /\ UNCHANGED page
        /\ UNCHANGED <<infoC, passing>>
  /\ UNCHANGED <<want, cancelled, interrupted, informer, informing, seen, srC, call, others, result,
                 recorded, late>>

SendError ==
  /\ searcher = "fail" /\ srC = <<>>
  /\ srC' = <<"error">> /\ searcher' = "ended"
  /\ UNCHANGED <<want, cancelled, interrupted, page, passing, infoC, informer, informing, seen, call, others,
                 result, recorded, late>>

-----------------------------------------------------------------------------
(* The worker that records channels. *)

\* Mutation of Receive: it looks for the context only, not for the end of the channels.
ReceiveOrLeave ==
  /\ informer = "recv"
  /\ \/ /\ infoC # <<>>
        /\ infoC' = Tail(infoC)
        /\ IF Head(infoC) \in seen THEN UNCHANGED <<informer, informing>>
           ELSE informer' = "inform" /\ informing' = Head(infoC)
     \/ infoC = <<>> /\ informer' = "ended" /\ UNCHANGED <<infoC, informing>>
  /\ UNCHANGED <<want, cancelled, interrupted, searcher, page, passing, seen, srC, call, others, result,
                 recorded, late>>

Receive ==
  /\ informer = "recv"
  /\ \/ /\ infoC # <<>>
        /\ infoC' = Tail(infoC)
        /\ IF Head(infoC) \in seen THEN UNCHANGED <<informer, informing>>
           ELSE informer' = "inform" /\ informing' = Head(infoC)
     \/ /\ cancelled \/ (infoC = <<>> /\ searcher = "ended")
        /\ informer' = "ended" /\ UNCHANGED <<infoC, informing>>
  /\ UNCHANGED <<want, cancelled, interrupted, searcher, page, passing, seen, srC, call, others, result,
                 recorded, late>>

\* The channel is fetched and given to the processor; one that cannot be is an error, and is not
\* tried again.
Inform ==
  /\ \/ /\ informer = "inform" /\ ~cancelled
        /\ informer' = "record" /\ UNCHANGED <<informing, seen, srC, recorded, late>>
     \/ /\ informer = "record" /\ Record(<<"info", informing>>)
        /\ informer' = "recv" /\ informing' = None /\ seen' = seen \union {informing} /\ UNCHANGED srC
     \/ /\ informer \in {"inform", "record"} /\ (May("info") \/ cancelled)
        /\ srC = <<>> /\ srC' = <<"error">>
        /\ informer' = "recv" /\ informing' = None /\ seen' = seen \union {informing}
        /\ UNCHANGED <<recorded, late>>
  /\ UNCHANGED <<want, cancelled, interrupted, searcher, page, passing, infoC, call, others, result>>

\* SearchMessages: its first error, or the end of the results.
ReadResults ==
  /\ call = "read"
  /\ \/ srC # <<>> /\ srC' = <<>> /\ call' = "error"
     \/ srC = <<>> /\ searcher = "ended" /\ informer = "ended" /\ call' = "nil" /\ UNCHANGED srC
  /\ UNCHANGED <<want, cancelled, interrupted, searcher, page, passing, infoC, informer, informing, seen,
                 others, result, recorded, late>>

-----------------------------------------------------------------------------
(* The search for files, the workspace, the group. *)

\* A page is asked for, then recorded with its files.
SearchFiles ==
  /\ \/ files = "ask" /\ ~cancelled /\ files' = "process" /\ UNCHANGED <<filePage, recorded, late>>
     \/ /\ files = "process" /\ Record(<<"files", filePage>>)
        /\ IF filePage < FilePages THEN filePage' = filePage + 1 /\ files' = "ask"
                                   ELSE files' = "nil" /\ UNCHANGED filePage
     \/ /\ files \in {"ask", "process"} /\ (May("files") \/ cancelled)
        /\ files' = "error" /\ UNCHANGED <<filePage, recorded, late>>
  /\ UNCHANGED <<want, cancelled, interrupted, messages, workspace, result>>

WorkspaceInfo ==
  /\ workspace = "ask"
  /\ \/ workspace' = "nil" /\ Record(<<"workspace", 1>>)
     \/ (May("workspace") \/ cancelled) /\ workspace' = "error" /\ UNCHANGED <<recorded, late>>
  /\ UNCHANGED <<want, cancelled, interrupted, messages, files, filePage, result>>

Calls == {call, files, workspace}

\* The first error cancels the context of the others; the group waits for all of them.
Abort ==
  /\ "error" \in Calls /\ ~cancelled /\ cancelled' = TRUE
  /\ UNCHANGED <<want, interrupted, messages, others, result, recorded, late>>
Wait ==
  /\ result = "wait" /\ Calls \intersect {"read", "ask", "process"} = {}
  /\ "error" \in Calls => cancelled
  /\ result' = IF "error" \in Calls THEN "error" ELSE "nil"
  /\ cancelled' = TRUE
  /\ UNCHANGED <<want, interrupted, messages, others, recorded, late>>
Interrupt ==
  /\ May("cancel") /\ result = "wait" /\ ~cancelled
  /\ cancelled' = TRUE /\ interrupted' = TRUE
  /\ UNCHANGED <<want, messages, others, result, recorded, late>>

Searcher == AskPage \/ ProcessPage \/ PassOn \/ SendError
Informer == Receive \/ Inform
Goes == Searcher \/ Informer \/ ReadResults \/ SearchFiles \/ WorkspaceInfo \/ Abort \/ Wait
Next == Goes \/ Interrupt

Spec == Init /\ [][Next]_vars
FairSpec == Spec /\ WF_vars(Goes)

-----------------------------------------------------------------------------
(* Properties. *)

TypeOK ==
  /\ want \in Wants /\ cancelled \in BOOLEAN /\ interrupted \in BOOLEAN
  /\ searcher \in {"ask", "process", "pass", "fail", "ended"} /\ page \in 1..Len(Pages)
  /\ informer \in {"recv", "inform", "record", "ended"} /\ Len(infoC) <= InfoCap /\ Len(srC) <= 1
  /\ result \in {"wait", "nil", "error"} /\ late \subseteq recorded

Everything ==
  {<<"workspace", 1>>}
  \union (IF "messages" \in want
          THEN {<<"page", p>> : p \in 1..Len(Pages)} \union {<<"info", c>> : c \in UNION {ChannelsOf(p) : p \in 1..Len(Pages)}}
          ELSE {})
  \union (IF "files" \in want THEN {<<"files", p>> : p \in 1..FilePages} ELSE {})

\* A search that succeeds has recorded every page of results and every channel they are from,
\* unless the user cancelled it: the worker then leaves the channels that are left.  Nothing is
\* recorded after a success, and after a failure one page and one channel at most.
SearchWhole ==
  /\ result = "nil" => late = {}
  /\ result = "nil" /\ ~interrupted => recorded = Everything
  /\ \A x, y \in late : x[1] = y[1] => x = y
  /\ interrupted /\ result = "nil" => \A x \in Everything \ recorded : x[1] = "info"

\* Every search returns.
SearchReturns == <>(result # "wait")
=============================================================================
