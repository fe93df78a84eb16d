------------------------------- MODULE EmojiDl -------------------------------
(***************************************************************************)
(* Download of the emojis (cmd/slackdump/internal/emoji/emojidl): fetch of *)
(* emoji.go and DlEdgeFS of emoedge.go.  A generator walks over the pages  *)
(* of the list, workers fetch, the caller gathers the results; DlEdgeFS    *)
(* first waits for the total that comes with the first page and writes the *)
(* index at the end.  All channels are unbuffered: a send is the step in   *)
(* which it is received.                                                   *)
(***************************************************************************)
EXTENDS Naturals, Sequences, FiniteSets

CONSTANTS
  Pages,        \* the pages of the list, sequences of emojis
  Aliases,      \* emojis that stand for others and are not fetched
  Broken,       \* emojis whose fetching fails
  Workers,
  Ways          \* what a download may be: records of
                \* edge: DlEdgeFS rather than fetch; failAt: the page that cannot be had, 0 for none;
                \* files: files are wanted, otherwise the workers are nofetchworkers; failFast

VARIABLES
  way,
  gen,          \* the generator: control point, page, emojis sent of it
  sentTotal,    \* the once of the total
  worker,       \* [Workers -> control point and emoji]
  resultOpen,   \* resultC is not closed
  main,         \* the caller
  emojis,       \* the emojis gathered
  stored,       \* the emojis whose files were written
  indexed,      \* index.json is written
  cancelled     \* the context is done

vars == <<way, gen, sentTotal, worker, resultOpen, main, emojis, stored, indexed, cancelled>>

NoEmoji == "none"
All == UNION {{Pages[p][i] : i \in 1..Len(Pages[p])} : p \in 1..Len(Pages)}
Free == [pc |-> "recv", em |-> NoEmoji]

Init ==
  /\ way \in Ways
  /\ gen = [pc |-> "page", page |-> 1, at |-> 0]
  /\ sentTotal = FALSE
  /\ worker = [w \in Workers |-> Free]
  /\ resultOpen = TRUE
  /\ main = IF way.edge THEN "total" ELSE "loop"
  /\ emojis = {} /\ stored = {} /\ indexed = ~way.edge /\ cancelled = FALSE

----------------------------------------------------------------------------
(* The generator; when it is left, emojiC and totalC are closed. *)

\* A page that fails ends the list.
GenPageLenient ==
  /\ gen.pc = "page"
  /\ gen' = IF gen.page > Len(Pages) \/ gen.page = way.failAt THEN [gen EXCEPT !.pc = "left"]
            ELSE IF way.edge /\ ~sentTotal THEN [gen EXCEPT !.pc = "total"]
            ELSE [gen EXCEPT !.pc = "emit"]
  /\ UNCHANGED <<way, sentTotal, worker, resultOpen, main, emojis, stored, indexed, cancelled>>

GenPage ==
  /\ gen.pc = "page"
  /\ gen' = IF gen.page > Len(Pages) THEN [gen EXCEPT !.pc = "left"]
            ELSE IF gen.page = way.failAt THEN [gen EXCEPT !.pc = "error"]
            ELSE IF way.edge /\ ~sentTotal THEN [gen EXCEPT !.pc = "total"]
            ELSE [gen EXCEPT !.pc = "emit"]
  /\ UNCHANGED <<way, sentTotal, worker, resultOpen, main, emojis, stored, indexed, cancelled>>

\* The total meets the caller.
GenTotal ==
  /\ gen.pc = "total" /\ main = "total"
  /\ sentTotal' = TRUE /\ gen' = [gen EXCEPT !.pc = "emit"] /\ main' = "loop"
  /\ UNCHANGED <<way, worker, resultOpen, emojis, stored, indexed, cancelled>>

\* The error meets the caller in its loop.
GenError ==
  /\ gen.pc = "error" /\ main = "loop"
  /\ gen' = [gen EXCEPT !.pc = "left"] /\ main' = "failed"
  /\ UNCHANGED <<way, sentTotal, worker, resultOpen, emojis, stored, indexed, cancelled>>

GenEmit(w) ==
  /\ gen.pc = "emit" /\ gen.at < Len(Pages[gen.page])
  /\ worker[w].pc = "recv"
  /\ worker' = [worker EXCEPT ![w] = [pc |-> "work", em |-> Pages[gen.page][gen.at + 1]]]
  /\ gen' = [gen EXCEPT !.at = @ + 1]
  /\ UNCHANGED <<way, sentTotal, resultOpen, main, emojis, stored, indexed, cancelled>>

GenNext ==
  /\ gen.pc = "emit"
  /\ gen' = IF gen.at = Len(Pages[gen.page]) THEN [pc |-> "page", page |-> gen.page + 1, at |-> 0]
            ELSE [gen EXCEPT !.pc = "left"]
  /\ gen.at = Len(Pages[gen.page]) \/ cancelled
  /\ UNCHANGED <<way, sentTotal, worker, resultOpen, main, emojis, stored, indexed, cancelled>>

----------------------------------------------------------------------------
(* worker, fetchEmoji and nofetchworker. *)

Fetch(w) ==
  /\ worker[w].pc = "work"
  /\ LET em == worker[w].em  bad == way.files /\ em \notin Aliases /\ (em \in Broken \/ cancelled) IN
     /\ worker' = [worker EXCEPT ![w].pc =
                     IF ~bad THEN "done" ELSE IF cancelled THEN "cancelled" ELSE "failed"]
     /\ stored' = IF way.files /\ em \notin Aliases /\ ~bad THEN stored \union {em} ELSE stored
  /\ UNCHANGED <<way, gen, sentTotal, resultOpen, main, emojis, indexed, cancelled>>

\* A worker leaves at the end of the emojis; one that fetches also when the context is done.
WorkerEnd(w) ==
  /\ worker[w].pc = "recv"
  /\ \/ gen.pc = "left" /\ worker' = [worker EXCEPT ![w].pc = "left"]
     \/ way.files /\ cancelled /\ worker' = [worker EXCEPT ![w].pc = "cancelled"]
  /\ UNCHANGED <<way, gen, sentTotal, resultOpen, main, emojis, stored, indexed, cancelled>>

CloseResults ==
  /\ resultOpen /\ \A w \in Workers : worker[w].pc = "left"
  /\ resultOpen' = FALSE
  /\ UNCHANGED <<way, gen, sentTotal, worker, main, emojis, stored, indexed, cancelled>>

----------------------------------------------------------------------------
(* The caller. *)

\* totalC was closed without a total.
NoTotal ==
  /\ main = "total" /\ gen.pc = "left"
  /\ main' = "loop"
  /\ UNCHANGED <<way, gen, sentTotal, worker, resultOpen, emojis, stored, indexed, cancelled>>

\* A result meets the caller; a worker that saw the context done has left.
Gather(w) ==
  LET r == worker[w].pc  em == worker[w].em IN
  /\ main = "loop" /\ r \in {"done", "failed", "cancelled"}
  /\ worker' = [worker EXCEPT ![w] = IF em = NoEmoji THEN [@ EXCEPT !.pc = "left"] ELSE Free]
  /\ IF r = "cancelled" \/ (r = "failed" /\ way.failFast)
     THEN main' = "failed" /\ UNCHANGED emojis
     ELSE emojis' = emojis \union {em} /\ UNCHANGED main
  /\ UNCHANGED <<way, gen, sentTotal, resultOpen, stored, indexed, cancelled>>

LoopEnd ==
  /\ main = "loop" /\ ~resultOpen
  /\ \/ main' = "ok" /\ indexed' = TRUE
     \/ way.edge /\ main' = "failed" /\ UNCHANGED indexed
  /\ UNCHANGED <<way, gen, sentTotal, worker, resultOpen, emojis, stored, cancelled>>

Cancel ==
  /\ ~cancelled /\ main \in {"total", "loop"}
  /\ cancelled' = TRUE
  /\ UNCHANGED <<way, gen, sentTotal, worker, resultOpen, main, emojis, stored, indexed>>

Generator == GenPage \/ GenTotal \/ GenError \/ (\E w \in Workers : GenEmit(w)) \/ GenNext
Worker(w) == Fetch(w) \/ WorkerEnd(w)
Caller == NoTotal \/ (\E w \in Workers : Gather(w)) \/ LoopEnd

Next == Generator \/ (\E w \in Workers : Worker(w)) \/ CloseResults \/ Caller \/ Cancel

Spec == Init /\ [][Next]_vars

\* Goroutines that can go on do.
FairSpec ==
  Spec /\ WF_vars(Generator) /\ (\A w \in Workers : WF_vars(Worker(w)))
       /\ WF_vars(CloseResults) /\ WF_vars(Caller)

----------------------------------------------------------------------------
(* Properties. *)

TypeOK ==
  /\ gen.pc \in {"page", "total", "error", "emit", "left"} /\ gen.page \in 1..(Len(Pages) + 1)
  /\ \A w \in Workers : worker[w] \in
       [pc : {"recv", "work", "done", "failed", "cancelled", "left"}, em : All \union {NoEmoji}]
  /\ main \in {"total", "loop", "ok", "failed"}
  /\ emojis \subseteq All /\ stored \subseteq All

\* Unless it was cancelled, a download that succeeds has every emoji of every page in the index
\* and, when files are wanted, the file of each that is no alias and could be fetched; with
\* FailFast all could.
OkMeansEmojis ==
  main = "ok" /\ ~cancelled =>
    /\ emojis = All /\ indexed
    /\ way.files => stored = All \ (Aliases \union Broken)
    /\ way.files /\ way.failFast => Broken \cap All \subseteq Aliases

\* A download comes to an end.
DownloadEnds == <>(main \in {"ok", "failed"})

\* "if there's a generator error, this will receive 0": the wait for the total ends.
TotalArrives == main = "total" ~> main # "total"
=============================================================================
