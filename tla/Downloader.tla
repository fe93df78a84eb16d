------------------------------ MODULE Downloader ------------------------------
(***************************************************************************)
(* The file downloader (downloader/downloader.go) with the processors that *)
(* feed it (internal/convert/transform/fileproc).                          *)
(*                                                                         *)
(* Callers hand it the files of messages; one mutex serialises Start,      *)
(* Download and Stop; a filter goroutine drops what was requested before,  *)
(* and Workers goroutines fetch into a temporary file and copy that to the *)
(* output.  A file is the sequence of two halves of what its URL holds.    *)
(***************************************************************************)
EXTENDS Naturals, Sequences, FiniteSets

CONSTANTS
  Callers,      \* goroutines that call Files
  List,         \* List[c]: the sequence of files of the message c processes
  Invalid,      \* the files IsValid refuses
  Path, Url,    \* Path[f], Url[f]: destination and download address of a file
  Workers,      \* the download workers
  Buffer,       \* capacity of the requests channel (defFileBufSz)
  Retries,      \* attempts for one file
  MaxSessions   \* bound: how often the owner starts the downloader

VARIABLES
  holder,       \* who holds mu
  started,      \* the started flag
  requests,     \* the requests channel
  closed,       \* it is closed
  seen,         \* what the filter has let through
  hand,         \* what the filter is about to send: a sequence of at most one file
  filtered,     \* the filtered channel is open
  worker,       \* [Workers -> control point, file, attempts, temporary file, offset]
  sentinel,     \* the goroutine that waits for the workers is there
  done,         \* messages in the done channel
  cancelled,    \* the context given to Start is done
  caller,       \* [Callers -> control point and files still to be handed over]
  owner,        \* control point of the goroutine that starts and stops
  sessions,     \* Starts so far
  accepted,     \* history: files Download accepted in this session
  handled,      \* history: [file -> times a worker took it in this session]
  result,       \* history: [file -> "none", "failed" or "saved"]
  files         \* the output: [path -> content]

calls == <<holder, started, owner, caller, sessions>>
queue == <<requests, closed, seen, hand, filtered>>
pool == <<worker, sentinel, done, cancelled>>
history == <<accepted, handled, result>>
vars == <<calls, queue, pool, history, files>>

Files == DOMAIN Path
Paths == {Path[f] : f \in Files}
Whole(f) == << <<Url[f], 1>>, <<Url[f], 2>> >>
Nobody == "nobody"
Owner == "owner"
NoFile == "nofile"

ASSUME DownloaderAssumption ==
  /\ {Nobody, Owner} \cap Callers = {} /\ NoFile \notin Files
  /\ DOMAIN Url = Files /\ List \in [Callers -> Seq(Files \union Invalid)]
  /\ Workers # {} /\ Buffer \in Nat /\ Retries \in Nat

Idle == [pc |-> "recv", file |-> NoFile, tries |-> 0, tmp |-> <<>>, pos |-> 0]
Gone == [Idle EXCEPT !.pc = "gone"]

\* What a file holds after data is written at an offset, which may lie behind its end.
WriteAt(content, pos, data) ==
  [i \in 1..(IF Len(content) > pos + Len(data) THEN Len(content) ELSE pos + Len(data)) |->
     IF i > pos /\ i <= pos + Len(data) THEN data[i - pos]
     ELSE IF i <= Len(content) THEN content[i] ELSE <<NoFile, 0>>]

Init ==
  /\ holder = Nobody /\ started = FALSE /\ owner = "idle" /\ sessions = 0
  /\ caller = [c \in Callers |-> [pc |-> "idle", todo |-> List[c]]]
  /\ requests = <<>> /\ closed = FALSE /\ seen = {} /\ hand = <<>> /\ filtered = FALSE
  /\ worker = [w \in Workers |-> Gone]
  /\ sentinel = FALSE /\ done = 0 /\ cancelled = FALSE
  /\ accepted = {}
  /\ handled = [f \in Files |-> 0]
  /\ result = [f \in Files |-> "none"]
  /\ files = [p \in Paths |-> <<>>]

----------------------------------------------------------------------------
(* The owner: Start and Stop. *)

Start ==
  /\ owner = "idle" /\ sessions < MaxSessions
  /\ holder = Nobody /\ ~started
  /\ started' = TRUE /\ sessions' = sessions + 1 /\ owner' = "running"
  /\ requests' = <<>> /\ closed' = FALSE
  /\ seen' = {} /\ hand' = <<>> /\ filtered' = TRUE
  /\ worker' = [w \in Workers |-> Idle]
  /\ sentinel' = TRUE /\ cancelled' = FALSE
  /\ accepted' = {}
  /\ handled' = [f \in Files |-> 0]
  /\ result' = [f \in Files |-> "none"]
  /\ UNCHANGED <<holder, caller, done, files>>

\* Stop returns without waiting for the workers.
StopNoWait ==
  /\ owner = "running" /\ holder = Nobody
  /\ started' = FALSE /\ closed' = TRUE /\ owner' = "idle"
  /\ UNCHANGED <<holder, caller, sessions, requests, seen, hand, filtered, pool, history, files>>

\* Stop up to the wait for the workers; it keeps the mutex.
Stop ==
  /\ owner = "running" /\ holder = Nobody
  /\ holder' = Owner
  /\ started' = FALSE /\ closed' = TRUE /\ owner' = "waiting"
  /\ UNCHANGED <<caller, sessions, requests, seen, hand, filtered, pool, history, files>>

Stopped ==
  /\ owner = "waiting" /\ done > 0
  /\ done' = done - 1
  /\ holder' = Nobody /\ owner' = "idle"
  /\ UNCHANGED <<started, caller, sessions, queue, worker, sentinel, cancelled, history, files>>

\* The context given to Start.
Cancel ==
  /\ started /\ ~cancelled
  /\ cancelled' = TRUE
  /\ UNCHANGED <<calls, queue, worker, sentinel, done, history, files>>

----------------------------------------------------------------------------
(* A caller: Files with Download. *)

Skip(c) ==
  /\ caller[c].pc = "idle" /\ caller[c].todo # <<>>
  /\ Head(caller[c].todo) \in Invalid
  /\ caller' = [caller EXCEPT ![c].todo = Tail(@)]
  /\ UNCHANGED <<holder, started, owner, sessions, queue, pool, history, files>>

\* Download takes the mutex and looks at started; without it Files gives up.
Lock(c) ==
  /\ caller[c].pc = "idle" /\ caller[c].todo # <<>>
  /\ Head(caller[c].todo) \notin Invalid
  /\ holder = Nobody
  /\ IF started
     THEN holder' = c /\ caller' = [caller EXCEPT ![c].pc = "sending"]
     ELSE caller' = [caller EXCEPT ![c].todo = <<>>] /\ UNCHANGED holder
  /\ UNCHANGED <<started, owner, sessions, queue, pool, history, files>>

\* The send, under the mutex.
Enqueue(c) ==
  /\ caller[c].pc = "sending" /\ Len(requests) < Buffer
  /\ requests' = Append(requests, Head(caller[c].todo))
  /\ accepted' = accepted \union {Head(caller[c].todo)}
  /\ caller' = [caller EXCEPT ![c] = [pc |-> "idle", todo |-> Tail(@.todo)]]
  /\ holder' = Nobody
  /\ UNCHANGED <<started, owner, sessions, closed, seen, hand, filtered, pool, handled, result,
                 files>>

----------------------------------------------------------------------------
(* The goroutine of fltSeen. *)

\* A request is a duplicate when URL and path are those of an earlier one.
Filter ==
  /\ filtered /\ hand = <<>> /\ requests # <<>>
  /\ LET f == Head(requests) IN
     IF <<Url[f], Path[f]>> \in seen
     THEN UNCHANGED <<seen, hand>>
     ELSE seen' = seen \union {<<Url[f], Path[f]>>} /\ hand' = <<f>>
  /\ requests' = Tail(requests)
  /\ UNCHANGED <<calls, closed, filtered, pool, history, files>>

FilterEnd ==
  /\ filtered /\ hand = <<>> /\ requests = <<>> /\ closed
  /\ filtered' = FALSE
  /\ UNCHANGED <<calls, requests, closed, seen, hand, pool, history, files>>

----------------------------------------------------------------------------
(* The workers: worker and download, with the loop of WithRetry. *)

Take(w) ==
  /\ worker[w].pc = "recv" /\ hand # <<>>
  /\ hand' = <<>>
  /\ worker' = [worker EXCEPT ![w] = [Idle EXCEPT !.pc = "fetch", !.file = hand[1]]]
  /\ handled' = [handled EXCEPT ![hand[1]] = @ + 1]
  /\ UNCHANGED <<calls, requests, closed, seen, filtered, sentinel, done, cancelled, accepted,
                 result, files>>

Finish(w, what) ==
  /\ result' = [result EXCEPT ![worker[w].file] = what]
  /\ worker' = [worker EXCEPT ![w] = Idle]

\* No attempt is made when the context is done, or when none is left.
GiveUp(w) ==
  /\ worker[w].pc = "fetch"
  /\ cancelled \/ worker[w].tries = Retries
  /\ Finish(w, "failed")
  /\ UNCHANGED <<calls, queue, sentinel, done, cancelled, accepted, handled, files>>

\* The temporary file after an attempt that wrote the first n halves before it failed.
Attempted(w, n, pos) ==
  [worker EXCEPT ![w].tries = @ + 1, ![w].pos = pos,
                 ![w].tmp = WriteAt(@, worker[w].pos, SubSeq(Whole(worker[w].file), 1, n))]

\* A failed attempt does not rewind the temporary file.
FailedAttemptNoSeek(w) ==
  /\ worker[w].pc = "fetch" /\ ~cancelled /\ worker[w].tries < Retries
  /\ \E n \in 0..1 : worker' = Attempted(w, n, worker[w].pos + n)
  /\ UNCHANGED <<calls, queue, sentinel, done, cancelled, history, files>>

\* One attempt more than there are.
FailedAttemptOnceMore(w) ==
  /\ worker[w].pc = "fetch" /\ ~cancelled /\ worker[w].tries <= Retries
  /\ worker' = Attempted(w, 0, 0)
  /\ UNCHANGED <<calls, queue, sentinel, done, cancelled, history, files>>

\* A failed attempt rewinds the temporary file; after a transient failure there is another.
FailedAttempt(w) ==
  /\ worker[w].pc = "fetch" /\ ~cancelled /\ worker[w].tries < Retries
  /\ \/ \E n \in 0..1 : worker' = Attempted(w, n, 0) /\ UNCHANGED result
     \/ Finish(w, "failed")
  /\ UNCHANGED <<calls, queue, sentinel, done, cancelled, accepted, handled, files>>

\* The attempt that succeeds; the output file is created, which empties it.
Fetch(w) ==
  /\ worker[w].pc = "fetch" /\ ~cancelled /\ worker[w].tries < Retries
  /\ \/ /\ worker' = [worker EXCEPT ![w].pc = "copy", ![w].pos = 0,
                       ![w].tmp = WriteAt(@, worker[w].pos, Whole(worker[w].file))]
        /\ files' = [files EXCEPT ![Path[worker[w].file]] = <<>>]
        /\ UNCHANGED result
     \/ Finish(w, "failed") /\ UNCHANGED files
  /\ UNCHANGED <<calls, queue, sentinel, done, cancelled, accepted, handled>>

\* io.Copy, half by half; it may fail at any point.
Copy(w) ==
  /\ worker[w].pc = "copy"
  /\ LET f == worker[w].file  n == worker[w].pos  tmp == worker[w].tmp IN
     \/ /\ n < Len(tmp)
        /\ files' = [files EXCEPT ![Path[f]] = WriteAt(@, n, <<tmp[n + 1]>>)]
        /\ worker' = [worker EXCEPT ![w].pos = n + 1]
        /\ UNCHANGED result
     \/ n = Len(tmp) /\ Finish(w, "saved") /\ UNCHANGED files
     \/ n < Len(tmp) /\ Finish(w, "failed") /\ UNCHANGED files
  /\ UNCHANGED <<calls, queue, sentinel, done, cancelled, accepted, handled>>

\* A worker that looks at the context leaves early.
LeaveOnCancel(w) ==
  /\ worker[w].pc = "recv" /\ (cancelled \/ (hand = <<>> /\ ~filtered))
  /\ worker' = [worker EXCEPT ![w] = Gone]
  /\ UNCHANGED <<calls, queue, sentinel, done, cancelled, history, files>>

\* Workers leave when the filtered channel is closed, and never because of the context.
Leave(w) ==
  /\ worker[w].pc = "recv" /\ hand = <<>> /\ ~filtered
  /\ worker' = [worker EXCEPT ![w] = Gone]
  /\ UNCHANGED <<calls, queue, sentinel, done, cancelled, history, files>>

Sentinel ==
  /\ sentinel /\ \A w \in Workers : worker[w] = Gone
  /\ sentinel' = FALSE /\ done' = done + 1
  /\ UNCHANGED <<calls, queue, worker, cancelled, history, files>>

WorkerStep(w) ==
  Take(w) \/ GiveUp(w) \/ FailedAttempt(w) \/ Fetch(w) \/ Copy(w) \/ Leave(w)
CallerStep(c) == Skip(c) \/ Lock(c) \/ Enqueue(c)
FilterStep == Filter \/ FilterEnd

Next ==
  \/ Start \/ Stop \/ Stopped \/ Cancel
  \/ \E c \in Callers : CallerStep(c)
  \/ FilterStep
  \/ \E w \in Workers : WorkerStep(w)
  \/ Sentinel

Spec == Init /\ [][Next]_vars

----------------------------------------------------------------------------
(* Properties. *)

TypeOK ==
  /\ holder \in Callers \union {Nobody, Owner}
  /\ started \in BOOLEAN /\ closed \in BOOLEAN /\ filtered \in BOOLEAN
  /\ sentinel \in BOOLEAN /\ cancelled \in BOOLEAN
  /\ owner \in {"idle", "running", "waiting"}
  /\ \A c \in Callers : caller[c].pc \in {"idle", "sending"} /\ caller[c].todo \in Seq(Files \union Invalid)
  /\ requests \in Seq(Files) /\ Len(requests) <= Buffer
  /\ hand \in Seq(Files) /\ Len(hand) <= 1
  /\ \A w \in Workers :
       /\ worker[w].pc \in {"gone", "recv", "fetch", "copy"}
       /\ worker[w].file \in Files \union {NoFile}
       /\ worker[w].tries \in 0..Retries
  /\ done \in 0..1
  /\ accepted \subseteq Files
  /\ result \in [Files -> {"none", "failed", "saved"}]

\* When Stop has returned, each file that Download accepted has been tried, by one worker and
\* once however often it was requested, and no goroutine of the session is left.
StopDrains ==
  /\ \A f \in Files : handled[f] <= 1
  /\ owner = "idle" /\ sessions > 0 =>
       /\ \A f \in accepted : \E g \in accepted :
            Url[g] = Url[f] /\ Path[g] = Path[f] /\ result[g] # "none"
       /\ \A w \in Workers : worker[w] = Gone
       /\ ~filtered /\ ~sentinel /\ done = 0

\* A file reported as saved is whole, whatever attempts failed before, unless another file
\* is requested for the same path.
SavedIsWhole ==
  \A f \in Files :
    result[f] = "saved" =>
      \/ files[Path[f]] = Whole(f)
      \/ \E g \in accepted : Path[g] = Path[f] /\ Url[g] # Url[f]

\* Every call comes to an end: Stop is not kept waiting by callers, nor callers by Stop, by a
\* full channel or by a context that is done.
CallsReturn ==
  /\ owner = "waiting" ~> owner = "idle"
  /\ \A c \in Callers : caller[c].todo # <<>> ~> caller[c].todo = <<>>
=============================================================================
