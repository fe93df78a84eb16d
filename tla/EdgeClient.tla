------------------------------- MODULE EdgeClient -------------------------------
(* Slack's private API as internal/edge calls it: the channels of an enterprise    *)
(* workspace, asked of three endpoints at once and completed by two more           *)
(* (slacker.go), the users of conversations (userlist.go), the information on      *)
(* users, which comes in rounds, and the emojis of an administrator.  A listing is *)
(* what is asked of one endpoint, page after page; edge.go sends each request, and *)
(* once more when it is limited: but by then its body has been read.               *)
EXTENDS Integers, Sequences, FiniteSets, SequencesExt
CONSTANTS
  Pages,       \* function from the listings to the IDs on each of their pages: sequences of sequences
  EdgeCalls,   \* what may be called: "channels", "public", "direct", "mixed", "users", "emoji"
  MaxFaults    \* requests that are not answered as they should be
VARIABLES
  call,
  at,          \* function from listings to "off", "ask", "wait", "send", "read", "write" or "done"
  page,        \* function from listings to the page asked for
  got,         \* function from listings to the IDs received
  failed,      \* the listings that ended in an error
  blank,       \* the listings a refusal was taken for an empty page of
  resultC,     \* the channel from which the caller receives the listings that have ended
  seen,        \* function from listings to what a goroutine read of the list it appends to
  list,        \* what has been put together
  phase,       \* "workers", "counts", "info", "returned" or "panic"
  err,         \* whether an error is returned
  faults, eof  \* unanswered requests, and whether one of them ended in an end of file
vars == <<call, at, page, got, failed, blank, resultC, seen, list, phase, err, faults, eof>>

Listings == DOMAIN Pages
Tasks(c) ==
  CASE c = "channels" -> {"boot", "ims", "search"}
    [] c = "mixed" -> {"public", "direct"}
    [] OTHER -> {c}
\* Those that look whether the answer is "ok", and those of callEdgeAPI.
Validates(l) == l \in {"search", "users"}
EdgeAPI(l) == l \in {"public", "users"}
ChanCap == 2

\* What a page brings: of users those that are ready and not known yet, of the channels that
\* ClientCounts returned those that have not been seen.
Known(l) == ToSet(got[l])
Ready(n) == FlattenSeq(SubSeq(Pages["users"], 1, n))
FetchIDs == SelectSeq(got["counts"], LAMBDA c : c \notin ToSet(list))
PageOf(l) ==
  CASE l = "users" -> SelectSeq(Ready(page[l]), LAMBDA u : u \notin Known(l))
    [] l = "info" -> FetchIDs
    [] OTHER -> Pages[l][page[l]]
LastPage(l) == l = "info" \/ page[l] = Len(Pages[l])

Init ==
  /\ call \in EdgeCalls
  /\ at = [l \in Listings |-> IF l \in Tasks(call) THEN "ask" ELSE "off"]
  /\ page = [l \in Listings |-> 1] /\ got = [l \in Listings |-> <<>>]
  /\ failed = {} /\ blank = {} /\ resultC = <<>> /\ list = <<>>
  /\ seen = [l \in Listings |-> <<>>]
  /\ phase = "workers" /\ err = FALSE /\ faults = 0 /\ eof = FALSE

\* A listing that has ended is sent to the caller, appended to the list, or used as it is.
AfterEnd(l) == IF call # "channels" THEN "read" ELSE IF l \in Tasks(call) THEN "send" ELSE "done"
End(l) == at' = [at EXCEPT ![l] = AfterEnd(l)]
Fail(l) ==
  /\ failed' = failed \cup {l}
  /\ at' = [at EXCEPT ![l] = IF AfterEnd(l) = "send" THEN "send" ELSE "done"]
  /\ UNCHANGED <<page, got, blank>>

\* ParseResponse of a page: the IDs are appended and the next page is asked for after the limiter.
ParseResponse(l) ==
  /\ got' = [got EXCEPT ![l] = @ \o PageOf(l)]
  /\ IF LastPage(l) THEN End(l) ELSE at' = [at EXCEPT ![l] = "wait"]
  /\ UNCHANGED <<page, failed, blank, faults, eof>>

\* A refusal has no cursor and no items, and where nobody looks at it, it is the last page; the
\* direct messages are asked for one by one.
Refused(l) ==
  \/ Validates(l) /\ Fail(l)
  \/ /\ ~Validates(l)
     /\ blank' = blank \cup {l}
     /\ IF l = "direct" /\ ~LastPage(l) THEN at' = [at EXCEPT ![l] = "wait"] ELSE End(l)
     /\ UNCHANGED <<page, got, failed>>

\* do: a request that is limited is sent again without its body, and so without its token; when it
\* is limited again, or there is no time to wait for, it fails.
Limited(l) ==
  /\ faults < MaxFaults /\ faults' = faults + 1 /\ UNCHANGED eof
  /\ Refused(l) \/ Fail(l)
\* One goroutine's error cancels the context of the others.
Cancelled == call = "mixed" /\ failed # {}
Broken(l) ==
  /\ faults < MaxFaults \/ Cancelled
  /\ faults' = IF Cancelled THEN faults ELSE faults + 1
  /\ Fail(l) /\ UNCHANGED eof

Request(l) ==
  /\ at[l] = "ask"
  /\ ParseResponse(l) \/ Limited(l) \/ Broken(l)
  /\ UNCHANGED <<call, resultC, seen, list, phase, err>>

\* callEdgeAPI passes over an end of file, and with it over there being no response.
CallEdgeAPI(l) ==
  /\ at[l] = "ask" /\ EdgeAPI(l) /\ phase # "panic"
  /\ faults < MaxFaults /\ faults' = faults + 1 /\ eof' = TRUE
  /\ phase' = "panic"
  /\ UNCHANGED <<call, at, page, got, failed, blank, resultC, seen, list, err>>

\* The limiter; its wait fails when the context is cancelled.
Wait(l) ==
  /\ at[l] = "wait"
  /\ \/ /\ at' = [at EXCEPT ![l] = "ask"]
        /\ page' = [page EXCEPT ![l] = @ + 1]
        /\ UNCHANGED <<got, failed, blank>>
     \/ Cancelled /\ Fail(l)
  /\ UNCHANGED <<call, resultC, seen, list, phase, err, faults, eof>>

\* GetConversationsContext: the channel holds two results, the caller takes one after another and
\* keeps the first of each channel; an error returns at once.
Send(l) ==
  /\ at[l] = "send" /\ Len(resultC) < ChanCap
  /\ resultC' = Append(resultC, l) /\ at' = [at EXCEPT ![l] = "done"]
  /\ UNCHANGED <<call, page, got, failed, blank, seen, list, phase, err, faults, eof>>
Receive ==
  /\ call = "channels" /\ phase = "workers" /\ resultC # <<>>
  /\ resultC' = Tail(resultC)
  /\ IF Head(resultC) \in failed
     THEN phase' = "returned" /\ err' = TRUE /\ UNCHANGED list
     ELSE /\ list' = list \o SelectSeq(got[Head(resultC)], LAMBDA c : c \notin ToSet(list))
          /\ UNCHANGED <<phase, err>>
  /\ UNCHANGED <<call, at, page, got, failed, blank, seen, faults, eof>>
\* When the channel is closed: ClientCounts, and ConversationsGenericInfo of those not seen.
ClientCounts ==
  /\ call = "channels" /\ phase = "workers" /\ resultC = <<>>
  /\ \A l \in Tasks(call) : at[l] = "done"
  /\ phase' = "counts" /\ at' = [at EXCEPT !["counts"] = "ask"]
  /\ UNCHANGED <<call, page, got, failed, blank, resultC, seen, list, err, faults, eof>>
ConversationsGenericInfo ==
  /\ phase = "counts" /\ at["counts"] = "done"
  /\ IF "counts" \in failed
     THEN phase' = "returned" /\ err' = TRUE /\ UNCHANGED at
     ELSE phase' = "info" /\ at' = [at EXCEPT !["info"] = "ask"] /\ UNCHANGED err
  /\ UNCHANGED <<call, page, got, failed, blank, resultC, seen, list, faults, eof>>
ReturnChannels ==
  /\ phase = "info" /\ at["info"] = "done"
  /\ phase' = "returned" /\ err' = ("info" \in failed)
  /\ list' = list \o got["info"]
  /\ UNCHANGED <<call, at, page, got, failed, blank, resultC, seen, faults, eof>>

\* UsersList: each goroutine appends to the same slice, which it reads before and writes after.
Read(l) ==
  /\ at[l] = "read" /\ at' = [at EXCEPT ![l] = "write"] /\ seen' = [seen EXCEPT ![l] = list]
  /\ UNCHANGED <<call, page, got, failed, blank, resultC, list, phase, err, faults, eof>>
UsersList(l) ==
  /\ at[l] = "write" /\ at' = [at EXCEPT ![l] = "done"] /\ list' = seen[l] \o got[l]
  /\ UNCHANGED <<call, page, got, failed, blank, resultC, seen, phase, err, faults, eof>>
Return ==
  /\ call # "channels" /\ phase = "workers" /\ \A l \in Tasks(call) : at[l] = "done"
  /\ phase' = "returned" /\ err' = (failed # {})
  /\ UNCHANGED <<call, at, page, got, failed, blank, resultC, seen, list, faults, eof>>

Next ==
  \/ phase # "panic" /\ \E l \in Listings : Request(l) \/ Wait(l) \/ Send(l) \/ Read(l) \/ UsersList(l)
  \/ \E l \in Listings : CallEdgeAPI(l)
  \/ Receive \/ ClientCounts \/ ConversationsGenericInfo \/ ReturnChannels \/ Return
Spec == Init /\ [][Next]_vars /\ WF_vars(Next)

TypeOK ==
  /\ call \in EdgeCalls
  /\ at \in [Listings -> {"off", "ask", "wait", "send", "read", "write", "done"}]
  /\ \A l \in Listings : page[l] \in 1..Len(Pages[l])
  /\ failed \subseteq Listings /\ blank \subseteq Listings /\ Len(resultC) <= ChanCap
  /\ phase \in {"workers", "counts", "info", "returned", "panic"}
  /\ err \in BOOLEAN /\ eof \in BOOLEAN /\ faults \in 0..MaxFaults

\* A call that returns no error has every ID of every listing that was answered, each once; when
\* goroutines append to the same slice, those of one listing at least.  Only a listing whose answers
\* nobody looks at is cut short by a refusal, and only an end of file brings the program down.
AllOf(l) == ToSet(FlattenSeq(Pages[l]))
CallIsWhole ==
  /\ phase = "returned" /\ ~err =>
       LET asked == IF call = "channels" THEN Tasks(call) \cup {"counts"} ELSE Tasks(call)
           lost(l) == l \in blank \/ (l = "counts" /\ "info" \in blank) \/ AllOf(l) \subseteq ToSet(list)
       IN /\ Cardinality(ToSet(list)) = Len(list)
          /\ ToSet(list) \subseteq UNION {AllOf(l) : l \in asked}
          /\ IF call = "mixed" THEN \E l \in asked : lost(l) ELSE \A l \in asked : lost(l)
  /\ blank # {} => faults > 0
  /\ blank \cap {"search", "users"} = {}
  /\ phase = "panic" => eof

\* A call returns, and no goroutine of it stays behind, even when it has returned an error early.
CallReturns == <>(phase = "panic" \/ (phase = "returned" /\ \A l \in Listings : at[l] \in {"off", "done"}))
=============================================================================
