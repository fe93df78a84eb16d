---------------------------- MODULE ExportConvert ----------------------------
(***************************************************************************)
(* Conversion of an archive to the export format: ToExport.Convert         *)
(* (internal/convert/export.go) with the converter of                      *)
(* internal/convert/transform/export.go and the file copier.               *)
(*                                                                         *)
(* Workers convert channels, an index writer, a copy worker and an avatar  *)
(* worker run beside them; the results of the last two pass through merge  *)
(* to a goroutine that hands their errors to errC, which the caller reads  *)
(* until a sentinel closes it.                                             *)
(***************************************************************************)
EXTENDS Naturals, Sequences, FiniteSets

CONSTANTS
  Channels,     \* the channels of the source, a sequence
  Messages,     \* Messages[c]: the messages of channel c, in the order of Sorted
  Day,          \* Day[m]: the day of message m
  Thread,       \* Thread[m]: "none", "ok", "missing" or "broken", what reading its thread yields
  Uncopied,     \* messages whose files cannot be copied
  FullDays,     \* days whose files sometimes cannot be written
  Avatars,      \* avatars: a sequence of outcomes, "nil" or "error"
  IndexFails,   \* WriteIndex fails
  Swallows,     \* the source is a chunk directory, whose Sorted drops errors
  Workers       \* c.workers, as a set

VARIABLES
  chC,          \* channels the generator has not sent
  worker,       \* [Workers -> control point, channel, messages taken, mm, prevDt]
  index,        \* "writing", "written", "error" or "failed"
  written,      \* [<<channel, day>> -> messages of the file]
  erred,        \* history: channels of which Append or Flush returned an error
  request,      \* the channel filerequest
  requestOpen,
  copier,       \* the copy worker: [pc, the result it has for fileresult]
  avatar,       \* the avatar worker: how many avatars it has sent
  result,       \* the channels fileresult and avtrresult
  resultOpen,
  forward,      \* the goroutines of merge: what each holds
  merged,       \* the channel merge returned
  hand,         \* what the result goroutine sends to errC
  errC,
  errOpen,
  failed,       \* the caller's flag
  status,       \* "running", "ok", "error" or "cancelled"
  cancelled,
  panicked,     \* something was sent on errC after it was closed
  copied        \* history: messages whose files were copied

convert == <<chC, worker, index, written, erred>>
copying == <<request, requestOpen, copier, avatar, copied>>
results == <<result, resultOpen, forward, merged, hand, panicked>>
caller == <<failed, status, cancelled>>
vars == <<convert, copying, results, errC, errOpen, caller>>

Chans == {Channels[i] : i \in 1..Len(Channels)}
Msgs == DOMAIN Day
Days == {Day[m] : m \in Msgs}
Sources == {"files", "avatars"}
NoChan == "nochannel"
NoDay == "noday"
Free == [pc |-> "recv", ch |-> NoChan, at |-> 0, mm |-> <<>>, prev |-> NoDay]

Init ==
  /\ chC = Channels
  /\ worker = [w \in Workers |-> Free]
  /\ index = "writing"
  /\ written = [f \in Chans \X Days |-> <<>>]
  /\ erred = {}
  /\ request = <<>> /\ requestOpen = TRUE
  /\ copier = [pc |-> "recv", res |-> <<>>]
  /\ avatar = 0 /\ copied = {}
  /\ result = [s \in Sources |-> <<>>] /\ resultOpen = [s \in Sources |-> TRUE]
  /\ forward = [s \in Sources |-> <<>>]
  /\ merged = <<>> /\ hand = <<>> /\ panicked = FALSE
  /\ errC = <<>> /\ errOpen = TRUE
  /\ failed = FALSE /\ status = "running" /\ cancelled = FALSE

----------------------------------------------------------------------------
(* The workers: Convert of the converter, writeMessages, Append and Flush. *)

Take(w) ==
  /\ worker[w].pc = "recv" /\ chC # <<>>
  /\ chC' = Tail(chC)
  /\ worker' = [worker EXCEPT ![w] = [Free EXCEPT !.pc = "append", !.ch = Head(chC)]]
  /\ UNCHANGED <<index, written, erred, copying, results, errC, errOpen, caller>>

\* The range over chC ends once the generator has sent the last channel.
Leave(w) ==
  /\ worker[w].pc = "recv" /\ chC = <<>>
  /\ worker' = [worker EXCEPT ![w].pc = "left"]
  /\ UNCHANGED <<chC, index, written, erred, copying, results, errC, errOpen, caller>>

\* Flush writes what there is of the day; the file is created anew.
Flush(w) ==
  LET f == worker[w] IN
  written' = IF f.mm = <<>> THEN written ELSE [written EXCEPT ![<<f.ch, f.prev>>] = f.mm]
FlushFails(w) == worker[w].mm # <<>> /\ worker[w].prev \in FullDays

Next1(w) == Messages[worker[w].ch][worker[w].at + 1]
HasNext(w) == worker[w].at < Len(Messages[worker[w].ch])

\* Append up to the message functions: the day changes, the thread is read.  A message whose
\* thread is missing is dropped.
Append1(w) ==
  /\ worker[w].pc = "append" /\ HasNext(w)
  /\ LET f == worker[w]  m == Next1(w)  fresh == Day[m] # f.prev
         g == IF fresh THEN [f EXCEPT !.mm = <<>>, !.prev = Day[m]] ELSE f IN
     \/ /\ IF fresh THEN Flush(w) ELSE UNCHANGED written
        /\ Thread[m] # "broken"
        /\ worker' = [worker EXCEPT ![w] =
             IF Thread[m] = "missing" THEN [g EXCEPT !.at = @ + 1] ELSE [g EXCEPT !.pc = "send"]]
        /\ UNCHANGED erred
     \/ /\ fresh /\ FlushFails(w)
        /\ worker' = [worker EXCEPT ![w].pc = "broken"]
        /\ erred' = erred \union {f.ch}
        /\ UNCHANGED written
     \/ /\ IF fresh THEN Flush(w) ELSE UNCHANGED written
        /\ Thread[m] = "broken"
        /\ worker' = [worker EXCEPT ![w] = [g EXCEPT !.pc = "broken"]]
        /\ erred' = erred \union {f.ch}
  /\ UNCHANGED <<chC, index, copying, results, errC, errOpen, caller>>

\* The message function asks for the files of the message, then the message is appended.
Send(w) ==
  /\ worker[w].pc = "send" /\ request = <<>>
  /\ request' = <<Next1(w)>>
  /\ worker' = [worker EXCEPT ![w].pc = "append", ![w].at = @ + 1, ![w].mm = Append(@, Next1(w))]
  /\ UNCHANGED <<chC, index, written, erred, requestOpen, copier, avatar, copied, results, errC,
                 errOpen, caller>>

\* writeMessages returns: what there is of the last day is flushed, after an error too.
WriteLast(w) ==
  /\ worker[w].pc = "broken" \/ (worker[w].pc = "append" /\ ~HasNext(w))
  /\ \/ /\ Flush(w)
        /\ worker' = [worker EXCEPT ![w] =
             IF worker[w].pc = "broken" /\ ~Swallows THEN [@ EXCEPT !.pc = "error"] ELSE Free]
        /\ UNCHANGED erred
     \/ /\ FlushFails(w)
        /\ worker' = [worker EXCEPT ![w].pc = "error"]
        /\ erred' = erred \union {worker[w].ch}
        /\ UNCHANGED written
  /\ UNCHANGED <<chC, index, copying, results, errC, errOpen, caller>>

\* errC has room for as many errors as there are workers; a worker leaves after an error.
WorkerError(w) ==
  /\ worker[w].pc = "error" /\ Len(errC) < Cardinality(Workers)
  /\ errC' = Append(errC, "worker")
  /\ worker' = [worker EXCEPT ![w].pc = "left"]
  /\ UNCHANGED <<chC, index, written, erred, copying, results, errOpen, caller>>

\* The index writer runs while channels are converted.
WriteIndex ==
  \/ /\ index = "writing"
     /\ index' = IF IndexFails THEN "error" ELSE "written"
     /\ UNCHANGED errC
  \/ /\ index = "error" /\ Len(errC) < Cardinality(Workers)
     /\ index' = "failed" /\ errC' = Append(errC, "index")
WriteIndexStep ==
  /\ WriteIndex
  /\ UNCHANGED <<chC, worker, written, erred, copying, results, errOpen, caller>>

ConvertersDone == (\A w \in Workers : worker[w].pc = "left") /\ index \in {"written", "failed"}

----------------------------------------------------------------------------
(* The copy worker, the avatar worker and merge. *)

Copy ==
  /\ copier.pc = "recv" /\ request # <<>>
  /\ request' = <<>>
  /\ LET m == Head(request) IN
     /\ copier' = [pc |-> "send", res |-> <<IF m \in Uncopied THEN "error" ELSE "nil">>]
     /\ copied' = IF m \in Uncopied THEN copied ELSE copied \union {m}
  /\ UNCHANGED <<convert, requestOpen, avatar, results, errC, errOpen, caller>>

CopyResult ==
  /\ copier.pc = "send" /\ result["files"] = <<>>
  /\ result' = [result EXCEPT !["files"] = copier.res]
  /\ copier' = [pc |-> "recv", res |-> <<>>]
  /\ UNCHANGED <<convert, request, requestOpen, avatar, copied, resultOpen, forward, merged, hand,
                 panicked, errC, errOpen, caller>>

CopyEnd ==
  /\ copier.pc = "recv" /\ request = <<>> /\ ~requestOpen
  /\ copier' = [copier EXCEPT !.pc = "left"]
  /\ resultOpen' = [resultOpen EXCEPT !["files"] = FALSE]
  /\ UNCHANGED <<convert, request, requestOpen, avatar, copied, result, forward, merged, hand,
                 panicked, errC, errOpen, caller>>

AvatarResult ==
  /\ resultOpen["avatars"] /\ avatar < Len(Avatars) /\ result["avatars"] = <<>>
  /\ result' = [result EXCEPT !["avatars"] = <<Avatars[avatar + 1]>>]
  /\ avatar' = avatar + 1
  /\ UNCHANGED <<convert, request, requestOpen, copier, copied, resultOpen, forward, merged, hand,
                 panicked, errC, errOpen, caller>>

AvatarEnd ==
  /\ resultOpen["avatars"] /\ avatar = Len(Avatars)
  /\ resultOpen' = [resultOpen EXCEPT !["avatars"] = FALSE]
  /\ UNCHANGED <<convert, copying, result, forward, merged, hand, panicked, errC, errOpen, caller>>

Forward(s) ==
  \/ /\ forward[s] = <<>> /\ result[s] # <<>>
     /\ forward' = [forward EXCEPT ![s] = result[s]]
     /\ result' = [result EXCEPT ![s] = <<>>]
     /\ UNCHANGED merged
  \/ /\ forward[s] # <<>> /\ merged = <<>>
     /\ merged' = forward[s] /\ forward' = [forward EXCEPT ![s] = <<>>]
     /\ UNCHANGED result
Merge(s) ==
  /\ Forward(s)
  /\ UNCHANGED <<convert, copying, resultOpen, hand, panicked, errC, errOpen, caller>>

\* The result goroutine keeps the errors to itself.
ResultDropped ==
  /\ hand = <<>> /\ merged # <<>>
  /\ merged' = <<>>
  /\ UNCHANGED <<convert, copying, result, resultOpen, forward, hand, panicked, errC, errOpen,
                 caller>>

\* The result goroutine: a send on errC after it was closed panics.
Result ==
  /\ \/ /\ hand = <<>> /\ merged # <<>>
        /\ hand' = IF Head(merged) = "error" THEN merged ELSE <<>>
        /\ merged' = <<>>
        /\ UNCHANGED <<errC, panicked>>
     \/ /\ hand # <<>> /\ errOpen /\ Len(errC) < Cardinality(Workers)
        /\ errC' = Append(errC, "result") /\ hand' = <<>>
        /\ UNCHANGED <<merged, panicked>>
     \/ /\ hand # <<>> /\ ~errOpen
        /\ panicked' = TRUE /\ hand' = <<>>
        /\ UNCHANGED <<merged, errC>>
  /\ UNCHANGED <<convert, copying, result, resultOpen, forward, errOpen, caller>>

----------------------------------------------------------------------------
(* The sentinel and the caller. *)

CloseRequests ==
  /\ requestOpen /\ ConvertersDone
  /\ requestOpen' = FALSE
  /\ UNCHANGED <<convert, request, copier, avatar, copied, results, errC, errOpen, caller>>

CloseErrors ==
  /\ errOpen /\ ~requestOpen /\ copier.pc = "left" /\ ~resultOpen["avatars"]
  /\ errOpen' = FALSE
  /\ UNCHANGED <<convert, copying, results, errC, caller>>

Read ==
  /\ status = "running"
  /\ \/ /\ errC # <<>>
        /\ errC' = Tail(errC) /\ failed' = TRUE /\ UNCHANGED status
     \/ /\ errC = <<>> /\ ~errOpen
        /\ status' = (IF failed THEN "error" ELSE "ok") /\ UNCHANGED <<errC, failed>>
     \/ /\ cancelled
        /\ status' = "cancelled" /\ UNCHANGED <<errC, failed>>
  /\ UNCHANGED <<convert, copying, results, errOpen, cancelled>>

Cancel ==
  /\ ~cancelled /\ status = "running"
  /\ cancelled' = TRUE
  /\ UNCHANGED <<convert, copying, results, errC, errOpen, failed, status>>

Worker(w) == Take(w) \/ Leave(w) \/ Append1(w) \/ Send(w) \/ WriteLast(w) \/ WorkerError(w)
Copier == Copy \/ CopyResult \/ CopyEnd
AvatarWorker == AvatarResult \/ AvatarEnd

Next ==
  /\ ~panicked
  /\ \/ \E w \in Workers : Worker(w)
     \/ WriteIndexStep
     \/ Copier \/ AvatarWorker \/ (\E s \in Sources : Merge(s)) \/ Result
     \/ CloseRequests \/ CloseErrors \/ Read \/ Cancel

Spec == Init /\ [][Next]_vars

----------------------------------------------------------------------------
(* Properties. *)

TypeOK ==
  /\ \A w \in Workers : worker[w].pc \in {"recv", "append", "send", "broken", "error", "left"}
  /\ index \in {"writing", "written", "error", "failed"}
  /\ erred \subseteq Chans /\ copied \subseteq Msgs
  /\ copier.pc \in {"recv", "send", "left"}
  /\ Len(errC) <= Cardinality(Workers)
  /\ status \in {"running", "ok", "error", "cancelled"}

\* Success means that each message of each channel is in the file of its day, in order, that the
\* index is written and that all files are copied.  Missing are only the starts of missing
\* threads, and a failed copy whose result was still on its way when errC was closed.
Late ==
  \/ panicked \/ hand # <<>> \/ "error" \in {merged[i] : i \in 1..Len(merged)}
  \/ \E s \in Sources : \/ "error" \in {forward[s][i] : i \in 1..Len(forward[s])}
                        \/ "error" \in {result[s][i] : i \in 1..Len(result[s])}
KeptOn(c, d) ==
  {i \in 1..Len(Messages[c]) : Day[Messages[c][i]] = d /\ Thread[Messages[c][i]] # "missing"}
\* The sequence s is of the messages of c at these places, in their order.
InOrder(s, c, places) ==
  /\ Len(s) = Cardinality(places)
  /\ \A i \in places : s[Cardinality({j \in places : j <= i})] = Messages[c][i]
OkMeansConverted ==
  status = "ok" =>
    /\ \A c \in Chans, d \in Days : InOrder(written[<<c, d>>], c, KeptOn(c, d))
    /\ index = "written"
    /\ \/ Late
       \/ /\ "error" \notin {Avatars[i] : i \in 1..Len(Avatars)}
          /\ \A c \in Chans : \A i \in 1..Len(Messages[c]) :
               Thread[Messages[c][i]] # "missing" => Messages[c][i] \in copied

\* The caller comes to an end, whatever fails and wherever.
ConvertReturns == <>(status # "running" \/ panicked)

\* "If cb returns an error, the iteration should be stopped and the error should be returned":
\* a channel of which Append failed is not reported as converted.
CallbackErrorReturned == status = "ok" => erred = {}
=============================================================================
