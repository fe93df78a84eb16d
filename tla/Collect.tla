------------------------------- MODULE Collect -------------------------------
(***************************************************************************)
(* collectAll of internal/chunk/directory.go: one goroutine walks over the *)
(* files of a chunk directory, workers read them, the caller gathers the   *)
(* results and returns at the first error or when its context is done.     *)
(***************************************************************************)
EXTENDS Naturals, Sequences, FiniteSets

CONSTANTS
  Directories,  \* what may be collected: the files in the order of the walk, those whose opening fails,
                \* those that are not JSON, and those for which the callback returns an error
  Workers       \* numwrk, as a set

VARIABLES
  given,        \* the directory that is collected
  walk,         \* control point of the walking goroutine
  at,           \* how many files it is done with
  fileC,        \* the channel of files
  fileOpen,     \* fileC is not closed
  errC,         \* the channel with the outcome of the walk
  worker,       \* [Workers -> control point and file]
  resultsOpen,  \* resultsC is not closed
  all,          \* the files whose values have been gathered, in order
  status,       \* "running", "ok", "error" or "cancelled"
  cancelled,    \* the context is done
  handles       \* files that are open

vars == <<given, walk, at, fileC, fileOpen, errC, worker, resultsOpen, all, status, cancelled, handles>>

Order == given.order
Unreadable == given.unreadable
Broken == given.broken      \* passed over
Failing == given.failing
Files == {Order[i] : i \in 1..Len(Order)}
NoFile == "nofile"
Waiting == [pc |-> "recv", file |-> NoFile]
Left == [pc |-> "left", file |-> NoFile]

Init ==
  /\ given \in Directories
  /\ walk = "next" /\ at = 0
  /\ fileC = <<>> /\ fileOpen = TRUE /\ errC = <<>>
  /\ worker = [w \in Workers |-> Waiting]
  /\ resultsOpen = TRUE
  /\ all = <<>> /\ status = "running" /\ cancelled = FALSE
  /\ handles = {}

----------------------------------------------------------------------------
(* The goroutine that walks. *)

\* The next file is opened; one that is not JSON stays open and is passed over.
WalkFile ==
  /\ walk = "next" /\ at < Len(Order)
  /\ LET f == Order[at + 1] IN
     \/ /\ f \in Unreadable
        /\ walk' = "failed" /\ UNCHANGED <<at, handles>>
     \/ /\ f \in Broken
        /\ at' = at + 1 /\ handles' = handles \union {f} /\ UNCHANGED walk
     \/ /\ f \notin Unreadable \union Broken
        /\ walk' = "send" /\ handles' = handles \union {f} /\ UNCHANGED at
  /\ UNCHANGED <<fileC, fileOpen, errC, worker, resultsOpen, all, status, cancelled>>

\* fileC has room for as many files as there are workers.
WalkSend ==
  /\ walk = "send" /\ Len(fileC) < Cardinality(Workers)
  /\ fileC' = Append(fileC, Order[at + 1])
  /\ at' = at + 1 /\ walk' = "next"
  /\ UNCHANGED <<fileOpen, errC, worker, resultsOpen, all, status, cancelled, handles>>

\* The outcome goes to errC, then fileC is closed.
WalkEnd ==
  /\ walk = "failed" \/ (walk = "next" /\ at = Len(Order))
  /\ errC' = <<IF walk = "failed" THEN "error" ELSE "nil">>
  /\ walk' = "left" /\ fileOpen' = FALSE
  /\ UNCHANGED <<at, fileC, worker, resultsOpen, all, status, cancelled, handles>>

----------------------------------------------------------------------------
(* The workers. *)

WorkerTake(w) ==
  /\ worker[w].pc = "recv" /\ fileC # <<>>
  /\ worker' = [worker EXCEPT ![w] = [pc |-> "result", file |-> Head(fileC)]]
  /\ fileC' = Tail(fileC)
  /\ UNCHANGED <<walk, at, fileOpen, errC, resultsOpen, all, status, cancelled, handles>>

WorkerClose(w) ==
  /\ worker[w].pc = "close"
  /\ handles' = handles \ {worker[w].file}
  /\ worker' = [worker EXCEPT ![w] = Waiting]
  /\ UNCHANGED <<walk, at, fileC, fileOpen, errC, resultsOpen, all, status, cancelled>>

WorkerLeave(w) ==
  /\ worker[w].pc = "recv" /\ fileC = <<>> /\ ~fileOpen
  /\ worker' = [worker EXCEPT ![w] = Left]
  /\ UNCHANGED <<walk, at, fileC, fileOpen, errC, resultsOpen, all, status, cancelled, handles>>

CloseResults ==
  /\ resultsOpen /\ \A w \in Workers : worker[w].pc = "left"
  /\ resultsOpen' = FALSE
  /\ UNCHANGED <<walk, at, fileC, fileOpen, errC, worker, all, status, cancelled, handles>>

----------------------------------------------------------------------------
(* The caller. *)

\* A worker's result meets the caller, who returns at the first error.
Gather(w) ==
  /\ status = "running" /\ worker[w].pc = "result"
  /\ worker' = [worker EXCEPT ![w].pc = "close"]
  /\ IF worker[w].file \in Failing
     THEN status' = "error" /\ UNCHANGED all
     ELSE all' = Append(all, worker[w].file) /\ UNCHANGED status
  /\ UNCHANGED <<walk, at, fileC, fileOpen, errC, resultsOpen, cancelled, handles>>

\* The results alone decide.
FinishWithoutWalk ==
  /\ status = "running" /\ ~resultsOpen
  /\ status' = "ok"
  /\ UNCHANGED <<walk, at, fileC, fileOpen, errC, worker, resultsOpen, all, cancelled, handles>>

\* The end of the results, and the outcome of the walk.
Finish ==
  /\ status = "running" /\ ~resultsOpen /\ errC # <<>>
  /\ status' = IF errC[1] = "nil" THEN "ok" ELSE "error"
  /\ errC' = <<>>
  /\ UNCHANGED <<walk, at, fileC, fileOpen, worker, resultsOpen, all, cancelled, handles>>

SeeCancel ==
  /\ status = "running" /\ cancelled
  /\ status' = "cancelled"
  /\ UNCHANGED <<walk, at, fileC, fileOpen, errC, worker, resultsOpen, all, cancelled, handles>>

Cancel ==
  /\ ~cancelled
  /\ cancelled' = TRUE
  /\ UNCHANGED <<walk, at, fileC, fileOpen, errC, worker, resultsOpen, all, status, handles>>

Walker == WalkFile \/ WalkSend \/ WalkEnd
Worker(w) == WorkerTake(w) \/ WorkerClose(w) \/ WorkerLeave(w)
\* Channels, in collectAll: its select takes a result, the end of the results or the context.
Caller == (\E w \in Workers : Gather(w)) \/ Finish \/ SeeCancel

Next ==
  /\ Walker \/ (\E w \in Workers : Worker(w)) \/ CloseResults \/ Caller \/ Cancel
  /\ UNCHANGED given

Spec == Init /\ [][Next]_vars

----------------------------------------------------------------------------
(* Properties. *)

TypeOK ==
  /\ given \in Directories /\ walk \in {"next", "send", "failed", "left"} /\ at \in 0..Len(Order)
  /\ fileC \in Seq(Files) /\ Len(fileC) <= Cardinality(Workers)
  /\ errC \in Seq({"nil", "error"})
  /\ \A w \in Workers : worker[w] \in [pc : {"recv", "result", "close", "left"},
                                       file : Files \union {NoFile}]
  /\ all \in Seq(Files) /\ handles \subseteq Files
  /\ status \in {"running", "ok", "error", "cancelled"}

\* Success means that each readable file has been read once and none failed, and that
\* nothing of it is left: no goroutine runs and no file but those passed over is open.
OkMeansAll ==
  status = "ok" =>
    /\ Unreadable \union Failing = {}
    /\ {all[i] : i \in 1..Len(all)} = Files \ Broken
    /\ \A i, j \in 1..Len(all) : all[i] = all[j] => i = j
    /\ walk = "left" /\ \A w \in Workers : worker[w].pc = "left"
    /\ handles \subseteq Broken

\* The caller always returns; and unless it returns early, with an error of a file or a
\* context that is done, every goroutine ends and every file that was read is closed.
CollectEnds ==
  /\ <>(status # "running")
  /\ <>(\/ status = "cancelled" \/ (status = "error" /\ Failing # {})
        \/ (walk = "left" /\ (\A w \in Workers : worker[w].pc = "left")
            /\ handles \subseteq Broken))
=============================================================================
