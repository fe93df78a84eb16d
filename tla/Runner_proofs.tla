---------------------------- MODULE Runner_proofs ----------------------------
(***************************************************************************)
(* Proofs about runWorkers, for any links, capacities, modes and faults:   *)
(* no error is lost, a send on a closed Go channel takes a failure, and a  *)
(* nil return means that everything has been fetched; and about the two    *)
(* other calls that start goroutines and report success for all of them,   *)
(* the download of the emojis and the conversion to the export format.     *)
(***************************************************************************)
EXTENDS MCRuns, FiniteSetTheorems, TLAPS

Senders == {"users", "conv", "gen"}   \* the goroutines that may fail

\* The control points of the goroutines.
Points ==
  /\ DOMAIN pc = Goroutines
  /\ pc["users"] \in {"work", "fail", "close", "done"}
  /\ pc["conv"] \in {"read", "fail", "wait", "close", "done"}
  /\ pc["gen"] \in {"work", "fail", "close", "done"}
  /\ pc["loop"] \in {"recv", "put", "done"}
  /\ pc["channel"] \in {"recv", "collect", "record", "transform", "thanks", "sorry", "done"}
  /\ pc["main"] \in {"collect", "nil", "error"}

\* What the Go channels and the hands of the goroutines hold.
Contents ==
  /\ chansC \in Seq(Links) /\ userIDC \in Seq(Links) /\ resultsC \in Seq({"ok", "error"})
  /\ DOMAIN item = {"loop", "channel"}
  /\ pc["loop"] = "put" => item["loop"] \in Links
  /\ pc["channel"] \in {"collect", "record"} => item["channel"] \in Links
  /\ sent \in 0..NumLinks /\ recorded \subseteq Links
  /\ Uses("channelUsers") => users \subseteq Links

\* The goroutines end in an order: errC is closed when nobody is left that sends on it, and the
\* collector of user IDs by the end of the conversations.
Order ==
  /\ \A g \in Senders : pc[g] = "fail" => Failed(g)
  /\ "err" \in shut => pc["users"] = "done" /\ pc["conv"] = "done"
  /\ ~Uses("api") => pc["gen"] \in {"work", "done"}
  /\ pc["conv"] \in {"close", "done"} /\ Uses("api") => pc["gen"] = "done"
  /\ "userID" \in shut => pc["conv"] = "done"
  /\ pc["conv"] \in {"wait", "close", "done"} =>
       Failed("conv") \/ (pc["loop"] = "done" /\ pc["channel"] = "done" /\ resultsC = <<>>)
  /\ Returned => "err" \in shut /\ errC = <<>>

\* An error is with its goroutine, in errC or collected, or another one is instead of it.
ErrorsKept ==
  /\ \A g \in Senders : Failed(g) =>
       pc[g] = "fail" \/ <<g, "work">> \in collected \/ (errC # <<>> /\ errC[1] = <<g, "work">>)
  /\ raised # {} => collected # {} \/ errC # <<>> \/ \E g \in Senders : pc[g] = "fail"
  /\ pc["main"] = "nil" => collected = {}

EndInv == Points /\ Order /\ ErrorsKept /\ PanicNeedsFailure

-----------------------------------------------------------------------------

LEMMA InitEnd == Init => Points /\ Order /\ ErrorsKept /\ PanicNeedsFailure
BY DEF Init, Points, Order, ErrorsKept, PanicNeedsFailure, Goroutines, Workers, Senders, Failed,
       Returned, Uses

\* A goroutine that goes on moves itself only.
LEMMA GotoOne ==
  ASSUME Points, NEW g \in Goroutines, NEW l, Goto(g, l)
  PROVE  DOMAIN pc' = Goroutines /\ pc'[g] = l /\ \A h \in Goroutines \ {g} : pc'[h] = pc[h]
BY DEF Points, Goto

LEMMA StepEnd == ASSUME EndInv, [Next]_vars PROVE EndInv'
<1> USE DEF EndInv, Points, Order, ErrorsKept, PanicNeedsFailure, Goroutines, Workers, Senders,
            Failed, Returned, Uses, At, Goto, Raise, chans
<1>1. CASE Users
  <2>1. CASE UsersPage
    BY <2>1 DEF UsersPage, Fail
  <2>2. CASE UsersOfChannels
    BY <2>2 DEF UsersOfChannels, Fail
  <2> QED
    BY <1>1, <2>1, <2>2 DEF Users
<1>2. CASE Generator
  <2>1. CASE HandOver
    BY <2>1 DEF HandOver
  <2>2. CASE StopGenerating
    BY <2>2 DEF StopGenerating, Fail
  <2>3. CASE CloseChannels
    BY <2>3 DEF CloseChannels
  <2> QED
    BY <1>2, <2>1, <2>2, <2>3 DEF Generator
<1>3. CASE Loop
  <2>1. CASE LoopStop
    BY <2>1 DEF LoopStop, Result
  <2>2. CASE LoopPut
    BY <2>2 DEF LoopPut
  <2> QED
    BY <1>3, <2>1, <2>2 DEF Loop
<1>4. CASE Channel
  <2>1. CASE ChannelTake
    BY <2>1 DEF ChannelTake, Result
  <2>2. CASE CollectIDs
    BY <2>2 DEF CollectIDs
  <2>3. CASE Record
    BY <2>3 DEF Record
  <2>4. CASE Transform
    BY <2>4 DEF Transform
  <2>5. CASE SendResult
    BY <2>5 DEF SendResult, Result
  <2> QED
    BY <1>4, <2>1, <2>2, <2>3, <2>4, <2>5 DEF Channel
<1>5. CASE Conv
  <2>1. CASE ReadResults
    BY <2>1 DEF ReadResults, Fail, AfterWork
  <2>2. CASE Wait
    BY <2>2 DEF Wait
  <2> QED
    BY <1>5, <2>1, <2>2 DEF Conv
<1>6. ASSUME NEW g \in Workers, Ending(g) PROVE EndInv'
  <2>1. CASE SendError(g)
    <3>1. "err" \notin shut
      BY <2>1 DEF SendError
    <3>2. errC' = << <<g, "work">> >> /\ errC' # <<>> /\ errC'[1] = <<g, "work">>
      BY <2>1, <3>1 DEF SendError
    <3>3. pc' = [pc EXCEPT ![g] = AfterWork(g)]
          /\ UNCHANGED <<mode, shut, resultsC, collected, raised, panics>>
      BY <2>1, <3>1 DEF SendError
    <3>4. errC = <<>> /\ pc[g] = "fail" /\ panics = {}
      BY <2>1, <3>1 DEF SendError
    <3>5. CASE g = "users"
      <4>1. pc' = [pc EXCEPT !["users"] = "close"]
        BY <3>3, <3>5 DEF AfterWork
      <4> QED
        BY <3>3, <3>4, <4>1, <3>1, <3>2, <3>5
    <3>6. CASE g = "conv"
      <4>1. pc' = [pc EXCEPT !["conv"] = "wait"]
        BY <3>3, <3>6 DEF AfterWork
      <4> QED
        BY <3>3, <3>4, <4>1, <3>1, <3>2, <3>6
    <3> QED
      BY <3>5, <3>6
  <2>2. CASE TryClose(g)
    BY <2>2 DEF TryClose, ClosesIDs, NoUsersFails, OfferError
  <2> QED
    BY <1>6, <2>1, <2>2 DEF Ending
<1>7. CASE SendError("gen")
  BY <1>7 DEF SendError, AfterWork
<1>8. CASE CloseErrC
  BY <1>8 DEF CloseErrC
<1>9. CASE Collect
  <2>1. UNCHANGED <<mode, shut, raised, panics>>
    BY <1>9 DEF Collect
  <2>2. CASE errC # <<>> /\ errC' = <<>> /\ collected' = collected \cup {errC[1]} /\ UNCHANGED pc
    BY <1>9, <2>1, <2>2 DEF Collect
  <2>3. CASE /\ errC = <<>> /\ "err" \in shut /\ UNCHANGED <<errC, collected>>
             /\ Goto("main", IF collected = {} THEN "nil" ELSE "error")
    BY <1>9, <2>1, <2>3 DEF Collect
  <2> QED
    BY <1>9, <2>2, <2>3 DEF Collect
<1>10. CASE Convert
  BY <1>10 DEF Convert
<1>11. CASE Cancel
  BY <1>11 DEF Cancel
<1>12. CASE UNCHANGED vars
  BY <1>12 DEF vars
<1> QED
  BY <1>1, <1>2, <1>3, <1>4, <1>5, <1>6, <1>7, <1>8, <1>9, <1>10, <1>11, <1>12 DEF Next

LEMMA EndAlways == Spec => []EndInv
<1>1. Init => EndInv
  BY InitEnd DEF EndInv
<1>2. EndInv /\ [Next]_vars => EndInv'
  BY StepEnd
<1> QED
  BY <1>1, <1>2, PTL DEF Spec

\* For any links, capacities, modes and faults: a nil return of runWorkers means that nothing failed,
\* and an error return reports the failure of every worker, though errC holds a single error and the
\* errors of closing are given up when it is full (runner.go:180-196).
THEOREM ErrorsAreReported == Spec => []ErrorsReported
<1>1. EndInv => ErrorsReported
  <2> SUFFICES ASSUME EndInv, Returned PROVE ErrorsReported
    BY DEF EndInv, Points, ErrorsReported, Returned
  <2>1. errC = <<>> /\ pc["users"] = "done" /\ pc["conv"] = "done" /\ pc["gen"] \in {"work", "done"}
    BY DEF EndInv, Points, Order
  <2>2. \A g \in Senders : pc[g] # "fail"
    BY <2>1 DEF Senders
  <2>3. \A g \in Senders : Failed(g) => <<g, "work">> \in collected
    BY <2>1, <2>2 DEF EndInv, ErrorsKept
  <2>4. pc["main"] = "nil" => raised = {}
    BY <2>1, <2>2 DEF EndInv, ErrorsKept
  <2> QED
    BY <2>3, <2>4 DEF ErrorsReported, Senders, Workers
<1> QED
  BY <1>1, EndAlways, PTL

\* For any links, capacities, modes and faults: nothing is sent on errC once it is closed, and a send of
\* user IDs finds its channel closed only when Conversations has failed and left its goroutines running.
THEOREM PanicTakesFailure == Spec => []PanicNeedsFailure
<1>1. EndInv => PanicNeedsFailure
  BY DEF EndInv
<1> QED
  BY <1>1, EndAlways, PTL

-----------------------------------------------------------------------------
(* What a nil return means.                                                *)

In(s, x) == \E i \in 1..Len(s) : s[i] = x

LEMMA InAppend ==
  ASSUME NEW S, NEW s \in Seq(S), NEW e \in S
  PROVE  /\ Append(s, e) \in Seq(S) /\ Append(s, e) # <<>>
         /\ \A x : In(Append(s, e), x) <=> In(s, x) \/ x = e
<1>1. /\ Append(s, e) \in Seq(S) /\ Append(s, e) # <<>>
      /\ Len(Append(s, e)) = Len(s) + 1 /\ Append(s, e)[Len(s) + 1] = e
      /\ \A i \in 1..Len(s) : Append(s, e)[i] = s[i]
  OBVIOUS
<1>2. Len(s) \in Nat
  OBVIOUS
<1> QED
  BY <1>1, <1>2 DEF In

LEMMA InTail ==
  ASSUME NEW S, NEW s \in Seq(S), s # <<>>
  PROVE  /\ Head(s) \in S /\ Tail(s) \in Seq(S)
         /\ \A x : In(s, x) <=> In(Tail(s), x) \/ x = Head(s)
<1>1. /\ Head(s) = s[1] /\ s[1] \in S /\ Tail(s) \in Seq(S)
      /\ Len(s) \in Nat \ {0} /\ Len(Tail(s)) = Len(s) - 1
      /\ \A i \in 1..Len(s) - 1 : Tail(s)[i] = s[i + 1]
  OBVIOUS
<1>2. ASSUME NEW x, In(s, x) PROVE In(Tail(s), x) \/ x = Head(s)
  <2>1. PICK i \in 1..Len(s) : s[i] = x
    BY <1>2 DEF In
  <2>2. CASE i = 1
    BY <1>1, <2>1, <2>2
  <2>3. CASE i # 1
    <3>1. i - 1 \in 1..Len(Tail(s)) /\ Tail(s)[i - 1] = x
      BY <1>1, <2>1, <2>3
    <3> QED
      BY <3>1 DEF In
  <2> QED
    BY <2>2, <2>3
<1>3. ASSUME NEW x, In(Tail(s), x) \/ x = Head(s) PROVE In(s, x)
  <2>1. CASE x = Head(s)
    BY <1>1, <2>1 DEF In
  <2>2. CASE In(Tail(s), x)
    <3>1. PICK i \in 1..Len(Tail(s)) : Tail(s)[i] = x
      BY <2>2 DEF In
    <3>2. i + 1 \in 1..Len(s) /\ s[i + 1] = x
      BY <1>1, <3>1
    <3> QED
      BY <3>2 DEF In
  <2> QED
    BY <1>3, <2>1, <2>2
<1> QED
  BY <1>1, <1>2, <1>3

LEMMA InEmpty == \A x : ~In(<<>>, x)
BY DEF In

\* Conversations has failed, or the error that will make it fail is on its way.
Doomed == Failed("conv") \/ In(resultsC, "error") \/ pc["channel"] = "sorry"

\* A link that was generated is on its way until its page is recorded, and the goroutines leave only
\* when nothing more is on its way.
LinksKept ==
  /\ \A l \in 1..sent :
       \/ l \in recorded \/ In(chansC, l) \/ Doomed
       \/ pc["loop"] = "put" /\ item["loop"] = l
       \/ pc["channel"] \in {"collect", "record"} /\ item["channel"] = l
  /\ pc["channel"] = "done" => (pc["loop"] = "done" /\ chansC = <<>>) \/ Doomed
  /\ pc["loop"] = "done" => pc["gen"] = "done" \/ Doomed
  /\ pc["gen"] \in {"close", "done"} =>
       sent = NumLinks \/ Failed("gen") \/ (cancelled /\ ~Uses("api"))

\* The users of what has been recorded have been fetched or are in the queue of IDs; the coordinator
\* is started with all of them.
UsersKept ==
  /\ Uses("channelUsers") =>
       \A l \in Links : l \in recorded \/ (pc["channel"] = "record" /\ item["channel"] = l) =>
         l \in users \/ In(userIDC, l) \/ Failed("users")
  /\ Uses("channelUsers") /\ pc["users"] \in {"close", "done"} =>
       (userIDC = <<>> /\ "userID" \in shut) \/ Failed("users")
  /\ ~Uses("channelUsers") /\ pc["users"] \in {"close", "done"} =>
       users = 1..UserPages \/ cancelled \/ Failed("users")
  /\ pc["users"] = "done" /\ ~cancelled => startedWith = users

FlowInv == EndInv /\ Contents /\ LinksKept /\ UsersKept

LEMMA InitFlow == Init => FlowInv
<1> SUFFICES ASSUME Init PROVE FlowInv
  OBVIOUS
<1>1. EndInv
  BY InitEnd DEF EndInv
<1>2. /\ pc["users"] = "work" /\ pc["gen"] = "work" /\ pc["loop"] = "recv" /\ pc["channel"] = "recv"
      /\ DOMAIN item = {"loop", "channel"} /\ sent = 0 /\ recorded = {} /\ users = {}
      /\ chansC = <<>> /\ resultsC = <<>> /\ userIDC = <<>>
  BY DEF Init, Goroutines, Workers
<1>3. Contents
  BY <1>2, RunnerAssumption DEF Contents
<1> QED
  BY <1>1, <1>2, <1>3 DEF FlowInv, LinksKept, UsersKept

\* The contents keep their types.
LEMMA StepContents == ASSUME EndInv, Contents, [Next]_vars PROVE Contents'
<1> USE DEF EndInv, Points, Contents, Goroutines, Workers, Uses, At, Goto, chans
<1>a. /\ chansC # <<>> => Head(chansC) \in Links /\ Tail(chansC) \in Seq(Links)
      /\ userIDC # <<>> => Head(userIDC) \in Links /\ Tail(userIDC) \in Seq(Links)
      /\ resultsC # <<>> => Tail(resultsC) \in Seq({"ok", "error"})
  BY InTail
<1>b. /\ \A l \in Links : Append(chansC, l) \in Seq(Links) /\ Append(userIDC, l) \in Seq(Links)
      /\ \A r \in {"ok", "error"} : Append(resultsC, r) \in Seq({"ok", "error"})
  BY InAppend
<1>1. CASE Users
  <2>1. CASE UsersPage
    BY <2>1 DEF UsersPage, Fail
  <2>2. CASE UsersOfChannels
    BY <2>2, <1>a DEF UsersOfChannels, Fail
  <2> QED
    BY <1>1, <2>1, <2>2 DEF Users
<1>2. CASE Generator
  <2>1. CASE HandOver
    <3>1. sent' = sent + 1 /\ sent' \in 0..NumLinks /\ sent' \in Links
      BY <2>1, RunnerAssumption DEF HandOver, Links
    <3> QED
      BY <2>1, <3>1 DEF HandOver
  <2>2. CASE StopGenerating
    BY <2>2 DEF StopGenerating, Fail
  <2>3. CASE CloseChannels
    BY <2>3 DEF CloseChannels
  <2> QED
    BY <1>2, <2>1, <2>2, <2>3 DEF Generator
<1>3. CASE Loop
  <2>1. CASE LoopStop
    BY <2>1, <1>b DEF LoopStop, Result
  <2>2. CASE LoopPut
    BY <2>2, <1>b DEF LoopPut
  <2> QED
    BY <1>3, <2>1, <2>2 DEF Loop
<1>4. CASE Channel
  <2>1. CASE ChannelTake
    BY <2>1, <1>a, <1>b DEF ChannelTake, Result
  <2>2. CASE CollectIDs
    BY <2>2, <1>b DEF CollectIDs
  <2>3. CASE Record
    BY <2>3 DEF Record
  <2>4. CASE Transform
    BY <2>4 DEF Transform
  <2>5. CASE SendResult
    BY <2>5, <1>b DEF SendResult, Result
  <2> QED
    BY <1>4, <2>1, <2>2, <2>3, <2>4, <2>5 DEF Channel
<1>5. CASE Conv
  <2>1. CASE ReadResults
    BY <2>1, <1>a DEF ReadResults, Fail, AfterWork
  <2>2. CASE Wait
    BY <2>2 DEF Wait
  <2> QED
    BY <1>5, <2>1, <2>2 DEF Conv
<1>6. ASSUME NEW g \in Workers \cup {"gen"}, SendError(g) PROVE Contents'
  BY <1>6 DEF SendError
<1>7. ASSUME NEW g \in Workers, TryClose(g) PROVE Contents'
  BY <1>7 DEF TryClose
<1>8. CASE CloseErrC
  BY <1>8 DEF CloseErrC
<1>9. CASE Collect
  BY <1>9 DEF Collect
<1>10. CASE Convert
  BY <1>10 DEF Convert
<1>11. CASE Cancel
  BY <1>11 DEF Cancel
<1>12. CASE UNCHANGED vars
  BY <1>12 DEF vars
<1> QED
  BY <1>1, <1>2, <1>3, <1>4, <1>5, <1>6, <1>7, <1>8, <1>9, <1>10, <1>11, <1>12 DEF Next, Ending

\* No link is lost.
LEMMA StepLinks == ASSUME EndInv, Contents, LinksKept, [Next]_vars PROVE LinksKept'
<1> USE DEF EndInv, Senders, Points, Order, Contents, Goroutines, Workers, Uses, At, Goto, Raise, Failed, chans, LinksKept, Doomed
<1>a. \A l \in Links : \A x : In(Append(chansC, l), x) <=> In(chansC, x) \/ x = l
  BY InAppend DEF Contents
<1>d. \A l \in Links : \A x : In(Append(userIDC, l), x) <=> In(userIDC, x) \/ x = l
  BY InAppend DEF Contents
<1>e. \A r \in {"ok", "error"} : \A x : In(Append(resultsC, r), x) <=> In(resultsC, x) \/ x = r
  BY InAppend DEF Contents
<1>b. /\ chansC # <<>> => \A x : In(chansC, x) <=> In(Tail(chansC), x) \/ x = Head(chansC)
      /\ userIDC # <<>> => \A x : In(userIDC, x) <=> In(Tail(userIDC), x) \/ x = Head(userIDC)
      /\ resultsC # <<>> => \A x : In(resultsC, x) <=> In(Tail(resultsC), x) \/ x = Head(resultsC)
  BY InTail DEF Contents
<1>c. \A x : ~In(<<>>, x)
  BY InEmpty
<1>1. CASE Users
  <2>1. CASE UsersPage
    BY <2>1 DEF UsersPage, Fail
  <2>2. CASE UsersOfChannels
    BY <2>2, <1>b, <1>c DEF UsersOfChannels, Fail
  <2> QED
    BY <1>1, <2>1, <2>2 DEF Users
<1>2. CASE Generator
  <2>1. CASE HandOver
    BY <2>1 DEF HandOver
  <2>2. CASE StopGenerating
    BY <2>2 DEF StopGenerating, Fail
  <2>3. CASE CloseChannels
    BY <2>3 DEF CloseChannels
  <2> QED
    BY <1>2, <2>1, <2>2, <2>3 DEF Generator
<1>3. CASE Loop
  <2>1. CASE LoopStop
    BY <2>1, <1>e DEF LoopStop, Result
  <2>2. CASE LoopPut
    BY <2>2, <1>a DEF LoopPut
  <2> QED
    BY <1>3, <2>1, <2>2 DEF Loop
<1>4. CASE Channel
  <2>1. CASE ChannelTake
    BY <2>1, <1>b, <1>c, <1>e DEF ChannelTake, Result
  <2>2. CASE CollectIDs
    BY <2>2, <1>d DEF CollectIDs
  <2>3. CASE Record
    BY <2>3 DEF Record
  <2>4. CASE Transform
    BY <2>4 DEF Transform
  <2>5. CASE SendResult
    BY <2>5, <1>e DEF SendResult, Result
  <2> QED
    BY <1>4, <2>1, <2>2, <2>3, <2>4, <2>5 DEF Channel
<1>5. CASE Conv
  <2>1. CASE ReadResults
    BY <2>1, <1>b, <1>c DEF ReadResults, Fail, AfterWork
  <2>2. CASE Wait
    BY <2>2 DEF Wait
  <2> QED
    BY <1>5, <2>1, <2>2 DEF Conv
<1>6. ASSUME NEW g \in Workers \cup {"gen"}, SendError(g) PROVE LinksKept'
  BY <1>6 DEF SendError, AfterWork
<1>7. ASSUME NEW g \in Workers, TryClose(g) PROVE LinksKept'
  BY <1>7 DEF TryClose, ClosesIDs, OfferError
<1>8. CASE CloseErrC
  BY <1>8 DEF CloseErrC
<1>9. CASE Collect
  BY <1>9 DEF Collect
<1>10. CASE Convert
  BY <1>10 DEF Convert
<1>11. CASE Cancel
  BY <1>11 DEF Cancel
<1>12. CASE UNCHANGED vars
  BY <1>12 DEF vars
<1> QED
  BY <1>1, <1>2, <1>3, <1>4, <1>5, <1>6, <1>7, <1>8, <1>9, <1>10, <1>11, <1>12 DEF Next, Ending

\* No user is lost.
LEMMA StepUsers == ASSUME EndInv, Contents, UsersKept, [Next]_vars PROVE UsersKept'
<1> USE DEF EndInv, Senders, Points, Order, Contents, Goroutines, Workers, Uses, At, Goto, Raise, Failed, chans, UsersKept
<1>a. \A l \in Links : \A x : In(Append(chansC, l), x) <=> In(chansC, x) \/ x = l
  BY InAppend DEF Contents
<1>d. \A l \in Links : \A x : In(Append(userIDC, l), x) <=> In(userIDC, x) \/ x = l
  BY InAppend DEF Contents
<1>e. \A r \in {"ok", "error"} : \A x : In(Append(resultsC, r), x) <=> In(resultsC, x) \/ x = r
  BY InAppend DEF Contents
<1>b. /\ chansC # <<>> => \A x : In(chansC, x) <=> In(Tail(chansC), x) \/ x = Head(chansC)
      /\ userIDC # <<>> => \A x : In(userIDC, x) <=> In(Tail(userIDC), x) \/ x = Head(userIDC)
      /\ resultsC # <<>> => \A x : In(resultsC, x) <=> In(Tail(resultsC), x) \/ x = Head(resultsC)
  BY InTail DEF Contents
<1>c. \A x : ~In(<<>>, x)
  BY InEmpty
<1>1. CASE Users
  <2>1. CASE UsersPage
    BY <2>1 DEF UsersPage, Fail
  <2>2. CASE UsersOfChannels
    BY <2>2, <1>b, <1>c DEF UsersOfChannels, Fail
  <2> QED
    BY <1>1, <2>1, <2>2 DEF Users
<1>2. CASE Generator
  <2>1. CASE HandOver
    BY <2>1 DEF HandOver
  <2>2. CASE StopGenerating
    BY <2>2 DEF StopGenerating, Fail
  <2>3. CASE CloseChannels
    BY <2>3 DEF CloseChannels
  <2> QED
    BY <1>2, <2>1, <2>2, <2>3 DEF Generator
<1>3. CASE Loop
  <2>1. CASE LoopStop
    BY <2>1, <1>e DEF LoopStop, Result
  <2>2. CASE LoopPut
    BY <2>2, <1>a DEF LoopPut
  <2> QED
    BY <1>3, <2>1, <2>2 DEF Loop
<1>4. CASE Channel
  <2>1. CASE ChannelTake
    BY <2>1, <1>b, <1>c, <1>e DEF ChannelTake, Result
  <2>2. CASE CollectIDs
    <3>1. UNCHANGED <<mode, cancelled, shut, item, recorded, users, startedWith, raised>> /\ item["channel"] \in Links
      BY <2>2 DEF CollectIDs
    <3>2. CASE UNCHANGED <<userIDC, pc>>
      BY <3>1, <3>2
    <3>3. CASE cancelled /\ Goto("channel", "sorry") /\ UNCHANGED userIDC
      BY <3>1, <3>3
    <3>4. CASE /\ "userID" \notin shut /\ userIDC' = Append(userIDC, item["channel"])
               /\ Goto("channel", "record")
      <4>1. \A x : In(userIDC', x) <=> In(userIDC, x) \/ x = item["channel"]
        BY <1>d, <3>1, <3>4
      <4>2. pc'["users"] = pc["users"] /\ pc'["channel"] = "record"
        BY <3>4
      <4> QED
        BY <2>2, <3>1, <3>4, <4>1, <4>2 DEF CollectIDs
    <3> QED
      BY <2>2, <3>2, <3>3, <3>4 DEF CollectIDs
  <2>3. CASE Record
    BY <2>3 DEF Record
  <2>4. CASE Transform
    BY <2>4 DEF Transform
  <2>5. CASE SendResult
    BY <2>5, <1>e DEF SendResult, Result
  <2> QED
    BY <1>4, <2>1, <2>2, <2>3, <2>4, <2>5 DEF Channel
<1>5. CASE Conv
  <2>1. CASE ReadResults
    BY <2>1, <1>b, <1>c DEF ReadResults, Fail, AfterWork
  <2>2. CASE Wait
    BY <2>2 DEF Wait
  <2> QED
    BY <1>5, <2>1, <2>2 DEF Conv
<1>6. ASSUME NEW g \in Workers \cup {"gen"}, SendError(g) PROVE UsersKept'
  BY <1>6 DEF SendError, AfterWork
<1>7. ASSUME NEW g \in Workers, TryClose(g) PROVE UsersKept'
  BY <1>7 DEF TryClose, ClosesIDs, OfferError
<1>8. CASE CloseErrC
  BY <1>8 DEF CloseErrC
<1>9. CASE Collect
  BY <1>9 DEF Collect
<1>10. CASE Convert
  BY <1>10 DEF Convert
<1>11. CASE Cancel
  BY <1>11 DEF Cancel
<1>12. CASE UNCHANGED vars
  BY <1>12 DEF vars
<1> QED
  BY <1>1, <1>2, <1>3, <1>4, <1>5, <1>6, <1>7, <1>8, <1>9, <1>10, <1>11, <1>12 DEF Next, Ending

LEMMA FlowAlways == Spec => []FlowInv
<1>1. FlowInv /\ [Next]_vars => FlowInv'
  BY StepEnd, StepContents, StepLinks, StepUsers DEF FlowInv
<1> QED
  BY <1>1, InitFlow, PTL DEF Spec

\* For any links, capacities, modes and faults: runWorkers returns nil only when every link has been
\* recorded, the users have been fetched, and the coordinator was started with all of them; unless the
\* context was done while a given list or the list of all users was still being read.
THEOREM NilReturnMeansAll == Spec => []NilMeansAll
<1>1. FlowInv => NilMeansAll
  <2> SUFFICES ASSUME FlowInv, pc["main"] = "nil", cancelled => Uses("api") PROVE NilMeansAll
    BY DEF NilMeansAll
  <2> USE DEF FlowInv, EndInv, Points, Order, Returned
  <2>1. /\ pc["users"] = "done" /\ pc["conv"] = "done" /\ errC = <<>> /\ raised = {}
    BY DEF ErrorsKept, Senders
  <2>2. \A g : ~Failed(g)
    BY <2>1 DEF Failed
  <2>3. pc["loop"] = "done" /\ pc["channel"] = "done" /\ ~Doomed
    BY <2>1, <2>2, InEmpty DEF Doomed
  <2>4. pc["gen"] = "done" /\ chansC = <<>> /\ sent = NumLinks
    BY <2>2, <2>3 DEF LinksKept
  <2>5. recorded = Links
    BY <2>3, <2>4, InEmpty DEF LinksKept, Contents, Links
  <2>6. CASE Uses("channelUsers")
    <3>1. users = Links
      BY <2>1, <2>2, <2>5, <2>6, InEmpty DEF UsersKept, Contents
    <3> QED
      BY <2>1, <2>5, <2>6, <3>1 DEF NilMeansAll, UsersKept
  <2>7. CASE ~Uses("channelUsers")
    BY <2>1, <2>2, <2>5, <2>7 DEF NilMeansAll, UsersKept
  <2> QED
    BY <2>6, <2>7
<1> QED
  BY <1>1, FlowAlways, PTL

-----------------------------------------------------------------------------
(* No Go channel of a run exceeds its capacity.                            *)

RunTypes ==
  /\ TypeOK
  /\ requestC \in Seq(Links \cup {None}) /\ errC \in {<<>>} \cup {<<e>> : e \in Errors}

LEMMA InitTypes == Init => RunTypes
<1> SUFFICES ASSUME Init PROVE RunTypes
  OBVIOUS
<1>1. NumLinks \in Nat /\ {ChanSz, ResultSz, UserIDSz, RequestSz} \subseteq Nat
  BY RunnerAssumption
<1>2. /\ chansC = <<>> /\ resultsC = <<>> /\ userIDC = <<>> /\ requestC = <<>> /\ errC = <<>> /\ Len(<<>>) = 0
      /\ requestC \in Seq(Links \cup {None})
  BY DEF Init
<1>3. /\ DOMAIN pc = Goroutines /\ item \in [{"loop", "channel"} -> Links \cup {None}] /\ sent \in 0..NumLinks
      /\ mode \in [uses : Modes, faults : FaultSets] /\ cancelled \in BOOLEAN
      /\ shut = {} /\ recorded = {} /\ users = {} /\ startedWith = {} /\ collected = {} /\ raised = {} /\ panics = {}
  <2>1. item \in [{"loop", "channel"} -> Links \cup {None}] /\ sent \in 0..NumLinks
    BY <1>1 DEF Init
  <2>2. DOMAIN pc = Goroutines
    BY DEF Init
  <2> QED
    BY <2>1, <2>2 DEF Init
<1> QED
  BY <1>1, <1>2, <1>3 DEF RunTypes, TypeOK

LEMMA StepTypes == ASSUME EndInv, Contents, RunTypes, [Next]_vars PROVE RunTypes'
<1> USE DEF RunTypes, TypeOK, Contents, Goroutines, Workers, At, Goto, Raise, chans
<1>a. /\ NumLinks \in Nat /\ ChanSz \in Nat \ {0} /\ ResultSz \in Nat \ {0} /\ UserIDSz \in Nat \ {0}
      /\ RequestSz \in Nat \ {0} /\ Links \subseteq Nat /\ None \in Nat
  BY RunnerAssumption DEF Links, None
<1>b. /\ chansC # <<>> => Head(chansC) \in Links /\ Len(Tail(chansC)) <= ChanSz
      /\ userIDC # <<>> => Head(userIDC) \in Links /\ Len(Tail(userIDC)) <= UserIDSz
      /\ resultsC # <<>> => Len(Tail(resultsC)) <= ResultSz
      /\ requestC # <<>> => Tail(requestC) \in Seq(Links \cup {None}) /\ Len(Tail(requestC)) <= RequestSz
  <2>1. ASSUME NEW S, NEW s \in Seq(S), NEW n \in Nat, Len(s) <= n, s # <<>>
        PROVE  Head(s) \in S /\ Tail(s) \in Seq(S) /\ Len(Tail(s)) <= n
    <3>1. Head(s) \in S /\ Tail(s) \in Seq(S) /\ Len(Tail(s)) = Len(s) - 1 /\ Len(s) \in Nat
      BY <2>1
    <3> QED
      BY <2>1, <3>1
  <2>2. /\ chansC \in Seq(Links) /\ userIDC \in Seq(Links) /\ resultsC \in Seq({"ok", "error"})
        /\ requestC \in Seq(Links \cup {None})
        /\ Len(chansC) <= ChanSz /\ Len(userIDC) <= UserIDSz /\ Len(resultsC) <= ResultSz /\ Len(requestC) <= RequestSz
    OBVIOUS
  <2> HIDE DEF RunTypes, TypeOK, Contents
  <2> QED
    BY <1>a, <2>1, <2>2
<1>c. /\ \A x : Len(chansC) < ChanSz => Len(Append(chansC, x)) <= ChanSz
      /\ \A x : Len(userIDC) < UserIDSz => Len(Append(userIDC, x)) <= UserIDSz
      /\ \A x : Len(resultsC) < ResultSz => Len(Append(resultsC, x)) <= ResultSz
      /\ \A x \in Links \cup {None} : Len(requestC) < RequestSz =>
           Append(requestC, x) \in Seq(Links \cup {None}) /\ Len(Append(requestC, x)) <= RequestSz
  <2>1. ASSUME NEW S, NEW s \in Seq(S), NEW n \in Nat, Len(s) < n, NEW x
        PROVE  Len(Append(s, x)) <= n
    <3>1. Len(Append(s, x)) = Len(s) + 1 /\ Len(s) \in Nat
      OBVIOUS
    <3> QED
      BY <2>1, <3>1
  <2>2. \A x \in Links \cup {None} : Append(requestC, x) \in Seq(Links \cup {None})
    OBVIOUS
  <2>3. /\ chansC \in Seq(Links) /\ userIDC \in Seq(Links) /\ resultsC \in Seq({"ok", "error"})
        /\ requestC \in Seq(Links \cup {None})
    OBVIOUS
  <2> HIDE DEF RunTypes, TypeOK, Contents
  <2> QED
    BY <1>a, <2>1, <2>2, <2>3
<1>d. \A g \in Goroutines, k \in {"work", "close"} : <<g, k>> \in Errors
  BY DEF Errors
<1>e. Len(<<>>) = 0 /\ \A x : Len(<<x>>) = 1
  OBVIOUS
<1>g. \A e \in Errors : <<e>> \in {<<>>} \cup {<<x>> : x \in Errors}
  OBVIOUS
<1>h. /\ <<"users", "work">> \in Errors /\ <<"conv", "work">> \in Errors /\ <<"gen", "work">> \in Errors
      /\ <<"gen", "close">> \in Errors
  BY <1>d
<1>f. \A x : Tail(<<x>>) = <<>> /\ <<x>>[1] = x
  OBVIOUS
<1>i. ASSUME NEW e \in Errors, errC' = errC \/ errC' = <<e>>
      PROVE  errC' \in {<<>>} \cup {<<x>> : x \in Errors} /\ Len(errC') <= 1
  <2>1. CASE errC' = errC
    BY <2>1
  <2>2. CASE errC' = <<e>>
    <3> HIDE DEF RunTypes, TypeOK, Contents
    <3> QED
      BY <2>2, <1>e, <1>g
  <2> QED
    BY <1>i, <2>1, <2>2
<1>1. CASE Users
  <2>1. CASE UsersPage
    <3>1. users' \subseteq Nat /\ users \subseteq users' /\ raised' \subseteq Errors
      <4>1. \A p \in 1..UserPages : 1..p \subseteq Nat /\ 1..(p - 1) \subseteq 1..p
        BY RunnerAssumption
      <4> QED
        BY <2>1, <4>1, <1>h DEF UsersPage, Fail
    <3> QED
      BY <2>1, <3>1 DEF UsersPage, Fail
  <2>2. CASE UsersOfChannels
    <3>1. users' \subseteq Nat /\ users \subseteq users' /\ raised' \subseteq Errors /\ Len(userIDC') <= UserIDSz
      <4>1. users' \subseteq Nat /\ users \subseteq users'
        BY <2>2, <1>a, <1>b DEF UsersOfChannels
      <4>2. raised' \subseteq Errors
        BY <2>2, <1>h DEF UsersOfChannels, Fail
      <4>3. Len(userIDC') <= UserIDSz
        BY <2>2, <1>b DEF UsersOfChannels
      <4> QED
        BY <4>1, <4>2, <4>3
    <3> QED
      BY <2>2, <3>1 DEF UsersOfChannels, Fail
  <2> QED
    BY <1>1, <2>1, <2>2 DEF Users
<1>2. CASE Generator
  <2>1. CASE HandOver
    <3>1. sent' = sent + 1 /\ sent' \in 0..NumLinks /\ sent' \in Links
      BY <2>1, <1>a DEF HandOver, Links
    <3> QED
      BY <2>1, <3>1 DEF HandOver
  <2>2. CASE StopGenerating
    BY <2>2, <1>h DEF StopGenerating, Fail
  <2>3. CASE CloseChannels
    <3>1. errC' = errC \/ errC' = << <<"gen", "close">> >>
      BY <2>3 DEF CloseChannels
    <3>2. errC' \in {<<>>} \cup {<<e>> : e \in Errors} /\ Len(errC') <= 1
      BY <3>1, <1>h, <1>i
    <3>3. raised' \subseteq Errors
      BY <2>3, <1>h DEF CloseChannels
    <3> QED
      BY <2>3, <3>2, <3>3 DEF CloseChannels
  <2> QED
    BY <1>2, <2>1, <2>2, <2>3 DEF Generator
<1>3. CASE Loop
  <2>1. CASE LoopStop
    BY <2>1, <1>c DEF LoopStop, Result
  <2>2. CASE LoopPut
    BY <2>2, <1>c DEF LoopPut
  <2> QED
    BY <1>3, <2>1, <2>2 DEF Loop
<1>4. CASE Channel
  <2>1. CASE ChannelTake
    BY <2>1, <1>b, <1>c DEF ChannelTake, Result
  <2>2. CASE CollectIDs
    BY <2>2, <1>c DEF CollectIDs
  <2>3. CASE Record
    BY <2>3 DEF Record
  <2>4. CASE Transform
    BY <2>4, <1>c DEF Transform
  <2>5. CASE SendResult
    BY <2>5, <1>c DEF SendResult, Result
  <2> QED
    BY <1>4, <2>1, <2>2, <2>3, <2>4, <2>5 DEF Channel
<1>5. CASE Conv
  <2>1. CASE ReadResults
    <3>1. raised' \subseteq Errors
      BY <2>1, <1>h DEF ReadResults, Fail
    <3>2. Len(resultsC') <= ResultSz
      BY <2>1, <1>b DEF ReadResults
    <3> QED
      BY <2>1, <3>1, <3>2 DEF ReadResults, Fail
  <2>2. CASE Wait
    BY <2>2 DEF Wait
  <2> QED
    BY <1>5, <2>1, <2>2 DEF Conv
<1>6. ASSUME NEW g \in Workers \cup {"gen"}, SendError(g) PROVE RunTypes'
  <2>1. <<g, "work">> \in Errors
    BY <1>d
  <2> QED
    <3>1. errC' = errC \/ errC' = << <<g, "work">> >>
      BY <1>6 DEF SendError
    <3>2. errC' \in {<<>>} \cup {<<e>> : e \in Errors} /\ Len(errC') <= 1
      BY <2>1, <3>1, <1>i
    <3> QED
      BY <1>6, <3>2 DEF SendError
<1>7. ASSUME NEW g \in Workers, TryClose(g) PROVE RunTypes'
  <2>1. <<g, "close">> \in Errors
    BY <1>d
  <2> QED
    <3>1. errC' = errC \/ errC' = << <<g, "close">> >>
      BY <1>7 DEF TryClose, OfferError
    <3>2. errC' \in {<<>>} \cup {<<e>> : e \in Errors} /\ Len(errC') <= 1
      BY <2>1, <3>1, <1>i
    <3>3. raised' \subseteq Errors
      BY <1>7, <2>1 DEF TryClose, OfferError
    <3> QED
      BY <1>7, <3>2, <3>3 DEF TryClose
<1>8. CASE CloseErrC
  BY <1>8 DEF CloseErrC
<1>9. CASE Collect
  <2>1. errC # <<>> => errC[1] \in Errors
    BY <1>f
  <2> QED
    BY <1>9, <2>1, <1>e, <1>g DEF Collect
<1>10. CASE Convert
  BY <1>10, <1>b DEF Convert
<1>11. CASE Cancel
  BY <1>11 DEF Cancel
<1>12. CASE UNCHANGED vars
  BY <1>12 DEF vars
<1> QED
  BY <1>1, <1>2, <1>3, <1>4, <1>5, <1>6, <1>7, <1>8, <1>9, <1>10, <1>11, <1>12 DEF Next, Ending

-----------------------------------------------------------------------------
(* The download of the emojis.                                             *)

EmojiTypes ==
  /\ EM!TypeOK /\ way \in Ways
  /\ gen \in [pc : {"page", "total", "error", "emit", "left"}, page : 1..(Len(EmPages) + 1), at : Nat]
  /\ gen.pc \in {"total", "error", "emit"} => gen.page <= Len(EmPages)
  /\ gen.pc = "emit" => gen.at <= Len(EmPages[gen.page])
  /\ gen.pc \in {"page", "total"} => gen.at = 0
  /\ DOMAIN emWorker = EmWorkers
  /\ emResultOpen \in BOOLEAN /\ indexed \in BOOLEAN /\ emCancelled \in BOOLEAN

\* What a worker has, and why it has got so far.
EmojiHands == \A w \in EmWorkers :
  /\ emWorker[w].pc \in {"work", "done", "failed"} => emWorker[w].em \in EM!All
  /\ emWorker[w].pc = "cancelled" => emCancelled
  /\ emWorker[w].pc = "failed" => way.files /\ emWorker[w].em \in Broken \ Aliases
  /\ emWorker[w].pc = "done" => ~way.files \/ emWorker[w].em \in Aliases \cup stored
  /\ emWorker[w].pc = "left" => gen.pc = "left" \/ emCancelled

\* The files that are there, and the emojis gathered whose files are not.
EmojiFiles ==
  /\ stored \subseteq EM!All \ (Aliases \cup Broken)
  /\ way.files => \A e \in emojis \ Aliases : e \in stored \/ (e \in Broken /\ ~way.failFast)

\* An emoji the generator has passed is gathered or with a worker, unless the download is lost.
Emitted(p, i) == p < gen.page \/ (p = gen.page /\ i <= gen.at)
WithWorker(e) == \E w \in EmWorkers : emWorker[w].pc \in {"work", "done", "failed"} /\ emWorker[w].em = e
EmojiPassed ==
  main # "failed" /\ ~emCancelled =>
    \A p \in 1..Len(EmPages) : \A i \in 1..Len(EmPages[p]) :
      Emitted(p, i) => EmPages[p][i] \in emojis \/ WithWorker(EmPages[p][i])

\* The generator ends when all is passed, the workers after it, the results after them.
EmojiEnds ==
  /\ gen.pc = "left" => gen.page = Len(EmPages) + 1 \/ emCancelled \/ main = "failed"
  /\ ~emResultOpen => \A w \in EmWorkers : emWorker[w].pc = "left"
  /\ main = "ok" => ~emResultOpen /\ indexed

EmojiInv == EmojiTypes /\ EmojiHands /\ EmojiFiles /\ EmojiPassed /\ EmojiEnds


LEMMA PagesForm ==
  /\ Len(EmPages) \in Nat
  /\ \A p \in 1..Len(EmPages) :
       /\ Len(EmPages[p]) \in Nat
       /\ \A i \in 1..Len(EmPages[p]) : EmPages[p][i] \in EM!All
  /\ EM!NoEmoji \notin EM!All
<1>1. Len(EmPages) \in Nat /\ DOMAIN EmPages = 1..Len(EmPages)
  BY EmojiAssumption
<1>2. ASSUME NEW p \in 1..Len(EmPages)
      PROVE  /\ Len(EmPages[p]) \in Nat /\ DOMAIN EmPages[p] = 1..Len(EmPages[p])
             /\ \A i \in 1..Len(EmPages[p]) : EmPages[p][i] \in EM!All /\ EmPages[p][i] # "none"
  <2>1. EmPages[p] \in Seq(STRING)
    BY <1>1, EmojiAssumption
  <2>2. Len(EmPages[p]) \in Nat /\ DOMAIN EmPages[p] = 1..Len(EmPages[p])
    BY <2>1
  <2>3. \A i \in 1..Len(EmPages[p]) : EmPages[p][i] \in EM!All
    BY DEF EM!All
  <2>4. \A i \in 1..Len(EmPages[p]) : EmPages[p][i] # "none"
    BY <1>1, <2>2, EmojiAssumption
  <2> QED
    BY <2>2, <2>3, <2>4
<1>3. EM!NoEmoji \notin EM!All
  BY <1>2 DEF EM!All, EM!NoEmoji
<1> QED
  BY <1>1, <1>2, <1>3

LEMMA GenPageKept ==
  ASSUME EmojiInv, EM!GenPage
  PROVE  EmojiInv'
<1> USE DEF EmojiInv, EM!GenPage
<1>1. EmojiTypes'
  BY PagesForm DEF EmojiTypes, EM!TypeOK
<1>2. EmojiHands'
  BY PagesForm DEF EmojiTypes, EM!TypeOK, EmojiHands
<1>3. EmojiFiles'
  BY PagesForm DEF EmojiTypes, EM!TypeOK, EmojiHands, EmojiFiles
<1>4. EmojiPassed'
  BY PagesForm DEF EmojiTypes, EM!TypeOK, EmojiHands, EmojiPassed, Emitted, WithWorker
<1>5. EmojiEnds'
  BY PagesForm DEF EmojiTypes, EM!TypeOK, EmojiHands, EmojiEnds
<1> QED
  BY <1>1, <1>2, <1>3, <1>4, <1>5

LEMMA GenTotalKept ==
  ASSUME EmojiInv, EM!GenTotal
  PROVE  EmojiInv'
<1> USE DEF EmojiInv, EM!GenTotal
<1>1. EmojiTypes'
  BY PagesForm DEF EmojiTypes, EM!TypeOK
<1>2. EmojiHands'
  BY PagesForm DEF EmojiTypes, EM!TypeOK, EmojiHands
<1>3. EmojiFiles'
  BY PagesForm DEF EmojiTypes, EM!TypeOK, EmojiHands, EmojiFiles
<1>4. EmojiPassed'
  BY PagesForm DEF EmojiTypes, EM!TypeOK, EmojiHands, EmojiPassed, Emitted, WithWorker
<1>5. EmojiEnds'
  BY PagesForm DEF EmojiTypes, EM!TypeOK, EmojiHands, EmojiEnds
<1> QED
  BY <1>1, <1>2, <1>3, <1>4, <1>5

LEMMA GenErrorKept ==
  ASSUME EmojiInv, EM!GenError
  PROVE  EmojiInv'
<1> USE DEF EmojiInv, EM!GenError
<1>1. EmojiTypes'
  BY PagesForm DEF EmojiTypes, EM!TypeOK
<1>2. EmojiHands'
  BY PagesForm DEF EmojiTypes, EM!TypeOK, EmojiHands
<1>3. EmojiFiles'
  BY PagesForm DEF EmojiTypes, EM!TypeOK, EmojiHands, EmojiFiles
<1>4. EmojiPassed'
  BY PagesForm DEF EmojiTypes, EM!TypeOK, EmojiHands, EmojiPassed, Emitted, WithWorker
<1>5. EmojiEnds'
  BY PagesForm DEF EmojiTypes, EM!TypeOK, EmojiHands, EmojiEnds
<1> QED
  BY <1>1, <1>2, <1>3, <1>4, <1>5

LEMMA GenEmitKept ==
  ASSUME EmojiInv, NEW w \in EmWorkers, EM!GenEmit(w)
  PROVE  EmojiInv'
<1> USE DEF EmojiInv, EM!GenEmit
<1>1. EmojiTypes'
  BY PagesForm DEF EmojiTypes, EM!TypeOK
<1>2. EmojiHands'
  BY PagesForm DEF EmojiTypes, EM!TypeOK, EmojiHands
<1>3. EmojiFiles'
  BY PagesForm DEF EmojiTypes, EM!TypeOK, EmojiHands, EmojiFiles
<1>4. EmojiPassed'
  BY PagesForm DEF EmojiTypes, EM!TypeOK, EmojiHands, EmojiPassed, Emitted, WithWorker
<1>5. EmojiEnds'
  BY PagesForm DEF EmojiTypes, EM!TypeOK, EmojiHands, EmojiEnds
<1> QED
  BY <1>1, <1>2, <1>3, <1>4, <1>5

LEMMA GenNextKept ==
  ASSUME EmojiInv, EM!GenNext
  PROVE  EmojiInv'
<1> USE DEF EmojiInv, EM!GenNext
<1>1. EmojiTypes'
  BY PagesForm DEF EmojiTypes, EM!TypeOK
<1>2. EmojiHands'
  BY PagesForm DEF EmojiTypes, EM!TypeOK, EmojiHands
<1>3. EmojiFiles'
  BY PagesForm DEF EmojiTypes, EM!TypeOK, EmojiHands, EmojiFiles
<1>4. EmojiPassed'
  BY PagesForm DEF EmojiTypes, EM!TypeOK, EmojiHands, EmojiPassed, Emitted, WithWorker
<1>5. EmojiEnds'
  BY PagesForm DEF EmojiTypes, EM!TypeOK, EmojiHands, EmojiEnds
<1> QED
  BY <1>1, <1>2, <1>3, <1>4, <1>5

LEMMA FetchKept ==
  ASSUME EmojiInv, NEW w \in EmWorkers, EM!Fetch(w)
  PROVE  EmojiInv'
<1> USE DEF EmojiInv, EM!Fetch
<1>1. EmojiTypes'
  <2>1. \A v \in EmWorkers : emWorker'[v] \in
          [pc : {"recv", "work", "done", "failed", "cancelled", "left"}, em : EM!All \union {EM!NoEmoji}]
    <3>1. PICK l \in {"done", "cancelled", "failed"} : emWorker' = [emWorker EXCEPT ![w].pc = l]
      OBVIOUS
    <3> HIDE DEF EM!Fetch
    <3> QED
      BY <3>1 DEF EmojiTypes, EM!TypeOK
  <2>2. emWorker[w].em \in EM!All
    BY DEF EmojiHands
  <2>3. stored' \subseteq EM!All /\ DOMAIN emWorker' = EmWorkers
    BY <2>2 DEF EmojiTypes, EM!TypeOK
  <2> QED
    BY <2>1, <2>3 DEF EmojiTypes, EM!TypeOK
<1>2. EmojiHands'
  BY PagesForm DEF EmojiTypes, EM!TypeOK, EmojiHands
<1>3. EmojiFiles'
  BY PagesForm DEF EmojiTypes, EM!TypeOK, EmojiHands, EmojiFiles
<1>4. EmojiPassed'
  BY PagesForm DEF EmojiTypes, EM!TypeOK, EmojiHands, EmojiPassed, Emitted, WithWorker
<1>5. EmojiEnds'
  BY PagesForm DEF EmojiTypes, EM!TypeOK, EmojiHands, EmojiEnds
<1> QED
  BY <1>1, <1>2, <1>3, <1>4, <1>5

LEMMA WorkerEndKept ==
  ASSUME EmojiInv, NEW w \in EmWorkers, EM!WorkerEnd(w)
  PROVE  EmojiInv'
<1> USE DEF EmojiInv, EM!WorkerEnd
<1>1. EmojiTypes'
  BY PagesForm DEF EmojiTypes, EM!TypeOK
<1>2. EmojiHands'
  BY PagesForm DEF EmojiTypes, EM!TypeOK, EmojiHands
<1>3. EmojiFiles'
  BY PagesForm DEF EmojiTypes, EM!TypeOK, EmojiHands, EmojiFiles
<1>4. EmojiPassed'
  BY PagesForm DEF EmojiTypes, EM!TypeOK, EmojiHands, EmojiPassed, Emitted, WithWorker
<1>5. EmojiEnds'
  BY PagesForm DEF EmojiTypes, EM!TypeOK, EmojiHands, EmojiEnds
<1> QED
  BY <1>1, <1>2, <1>3, <1>4, <1>5

LEMMA CloseResultsKept ==
  ASSUME EmojiInv, EM!CloseResults
  PROVE  EmojiInv'
<1> USE DEF EmojiInv, EM!CloseResults
<1>1. EmojiTypes'
  BY PagesForm DEF EmojiTypes, EM!TypeOK
<1>2. EmojiHands'
  BY PagesForm DEF EmojiTypes, EM!TypeOK, EmojiHands
<1>3. EmojiFiles'
  BY PagesForm DEF EmojiTypes, EM!TypeOK, EmojiHands, EmojiFiles
<1>4. EmojiPassed'
  BY PagesForm DEF EmojiTypes, EM!TypeOK, EmojiHands, EmojiPassed, Emitted, WithWorker
<1>5. EmojiEnds'
  BY PagesForm DEF EmojiTypes, EM!TypeOK, EmojiHands, EmojiEnds
<1> QED
  BY <1>1, <1>2, <1>3, <1>4, <1>5

LEMMA NoTotalKept ==
  ASSUME EmojiInv, EM!NoTotal
  PROVE  EmojiInv'
<1> USE DEF EmojiInv, EM!NoTotal
<1>1. EmojiTypes'
  BY PagesForm DEF EmojiTypes, EM!TypeOK
<1>2. EmojiHands'
  BY PagesForm DEF EmojiTypes, EM!TypeOK, EmojiHands
<1>3. EmojiFiles'
  BY PagesForm DEF EmojiTypes, EM!TypeOK, EmojiHands, EmojiFiles
<1>4. EmojiPassed'
  BY PagesForm DEF EmojiTypes, EM!TypeOK, EmojiHands, EmojiPassed, Emitted, WithWorker
<1>5. EmojiEnds'
  BY PagesForm DEF EmojiTypes, EM!TypeOK, EmojiHands, EmojiEnds
<1> QED
  BY <1>1, <1>2, <1>3, <1>4, <1>5

LEMMA GatherKept ==
  ASSUME EmojiInv, NEW w \in EmWorkers, EM!Gather(w)
  PROVE  EmojiInv'
<1> USE DEF EmojiInv, EM!Gather
<1>1. EmojiTypes'
  <2>1. \A v \in EmWorkers : emWorker'[v] \in
          [pc : {"recv", "work", "done", "failed", "cancelled", "left"}, em : EM!All \union {EM!NoEmoji}]
    BY DEF EmojiTypes, EM!TypeOK, EM!Free
  <2>2. emojis' \subseteq EM!All /\ main' \in {"total", "loop", "ok", "failed"}
    BY DEF EmojiTypes, EM!TypeOK, EmojiHands
  <2> QED
    BY <2>1, <2>2 DEF EmojiTypes, EM!TypeOK
<1>2. EmojiHands'
  BY PagesForm DEF EmojiTypes, EM!TypeOK, EmojiHands, EM!Free
<1>3. EmojiFiles'
  BY PagesForm DEF EmojiTypes, EM!TypeOK, EmojiHands, EmojiFiles, EM!Free
<1>4. EmojiPassed'
  BY PagesForm DEF EmojiTypes, EM!TypeOK, EmojiHands, EmojiPassed, Emitted, WithWorker, EM!Free
<1>5. EmojiEnds'
  BY PagesForm DEF EmojiTypes, EM!TypeOK, EmojiHands, EmojiEnds, EM!Free
<1> QED
  BY <1>1, <1>2, <1>3, <1>4, <1>5

LEMMA LoopEndKept ==
  ASSUME EmojiInv, EM!LoopEnd
  PROVE  EmojiInv'
<1> USE DEF EmojiInv, EM!LoopEnd
<1>1. EmojiTypes'
  BY PagesForm DEF EmojiTypes, EM!TypeOK
<1>2. EmojiHands'
  BY PagesForm DEF EmojiTypes, EM!TypeOK, EmojiHands
<1>3. EmojiFiles'
  BY PagesForm DEF EmojiTypes, EM!TypeOK, EmojiHands, EmojiFiles
<1>4. EmojiPassed'
  BY PagesForm DEF EmojiTypes, EM!TypeOK, EmojiHands, EmojiPassed, Emitted, WithWorker
<1>5. EmojiEnds'
  BY PagesForm DEF EmojiTypes, EM!TypeOK, EmojiHands, EmojiEnds
<1> QED
  BY <1>1, <1>2, <1>3, <1>4, <1>5

LEMMA CancelKept ==
  ASSUME EmojiInv, EM!Cancel
  PROVE  EmojiInv'
<1> USE DEF EmojiInv, EM!Cancel
<1>1. EmojiTypes'
  BY PagesForm DEF EmojiTypes, EM!TypeOK
<1>2. EmojiHands'
  BY PagesForm DEF EmojiTypes, EM!TypeOK, EmojiHands
<1>3. EmojiFiles'
  BY PagesForm DEF EmojiTypes, EM!TypeOK, EmojiHands, EmojiFiles
<1>4. EmojiPassed'
  BY PagesForm DEF EmojiTypes, EM!TypeOK, EmojiHands, EmojiPassed, Emitted, WithWorker
<1>5. EmojiEnds'
  BY PagesForm DEF EmojiTypes, EM!TypeOK, EmojiHands, EmojiEnds
<1> QED
  BY <1>1, <1>2, <1>3, <1>4, <1>5

LEMMA EmojiInitInv == ASSUME EM!Init PROVE EmojiInv
<1> USE DEF EM!Init
<1>1. EmojiTypes
  <2>1. gen \in [pc : {"page", "total", "error", "emit", "left"}, page : 1..(Len(EmPages) + 1), at : Nat]
        /\ gen.pc = "page" /\ gen.at = 0 /\ gen.page \in 1..(Len(EmPages) + 1)
    BY PagesForm
  <2>2. /\ way \in Ways /\ emResultOpen \in BOOLEAN /\ emCancelled \in BOOLEAN
        /\ emojis \subseteq EM!All /\ stored \subseteq EM!All /\ main \in {"total", "loop"}
    OBVIOUS
  <2>3. indexed \in BOOLEAN
    BY EmojiAssumption
  <2>4. DOMAIN emWorker = EmWorkers /\ \A w \in EmWorkers : emWorker[w] \in
          [pc : {"recv", "work", "done", "failed", "cancelled", "left"}, em : EM!All \union {EM!NoEmoji}]
    BY DEF EM!Free
  <2> HIDE DEF EM!Init
  <2> QED
    BY <2>1, <2>2, <2>3, <2>4 DEF EmojiTypes, EM!TypeOK
<1>2. EmojiHands /\ EmojiFiles /\ EmojiEnds
  BY DEF EmojiHands, EmojiFiles, EmojiEnds, EM!Free
<1>3. EmojiPassed
  BY PagesForm DEF EmojiPassed, Emitted
<1> QED
  BY <1>1, <1>2, <1>3 DEF EmojiInv

LEMMA EmojiStep == EmojiInv /\ [EM!Next]_(EM!vars) => EmojiInv'
<1>1. ASSUME EmojiInv, UNCHANGED EM!vars
      PROVE  EmojiInv'
  <2> USE <1>1 DEF EmojiInv, EM!vars
  <2>1. EmojiTypes' /\ EmojiHands'
    BY DEF EmojiTypes, EM!TypeOK, EmojiHands
  <2>2. EmojiFiles' /\ EmojiEnds' /\ EmojiPassed'
    BY DEF EmojiFiles, EmojiEnds, EmojiPassed, Emitted, WithWorker
  <2> QED
    BY <2>1, <2>2
<1> QED
  BY <1>1, GenPageKept, GenTotalKept, GenErrorKept, GenEmitKept, GenNextKept, FetchKept, WorkerEndKept,
     CloseResultsKept, NoTotalKept, GatherKept, LoopEndKept, CancelKept
  DEF EM!Next, EM!Generator, EM!Worker, EM!Caller

\* When the caller is through, all workers have left, and the generator before them.
LEMMA EmojiOk == EmojiInv => EM!OkMeansEmojis
<1> SUFFICES ASSUME EmojiInv, main = "ok", ~emCancelled
             PROVE  /\ emojis = EM!All /\ indexed
                    /\ way.files => stored = EM!All \ (Aliases \union Broken)
                    /\ way.files /\ way.failFast => Broken \cap EM!All \subseteq Aliases
  BY DEF EM!OkMeansEmojis
<1> USE DEF EmojiInv
<1>1. \A w \in EmWorkers : emWorker[w].pc = "left"
  BY DEF EmojiEnds
<1>2. gen.page = Len(EmPages) + 1
  BY <1>1, EmojiAssumption DEF EmojiEnds, EmojiHands
<1>3. \A p \in 1..Len(EmPages) : \A i \in 1..Len(EmPages[p]) : Emitted(p, i)
  BY <1>2, PagesForm DEF Emitted
<1>4. EM!All \subseteq emojis
  BY <1>1, <1>3 DEF EmojiPassed, WithWorker, EM!All
<1>5. emojis = EM!All
  BY <1>4 DEF EmojiTypes, EM!TypeOK
<1> QED
  BY <1>5 DEF EmojiFiles, EmojiEnds

-----------------------------------------------------------------------------
(* The conversion to the export format.                                    *)

\* Something has failed that makes the conversion fail, and this stays so.
Trouble ==
  \/ \E w \in EcWorkers : worker[w].pc \in {"broken", "error"}
  \/ index = "error" \/ ecErrC # <<>> \/ failed

\* The error of a copy is on its way to the caller.
Failing == <<"error">>
ErrorOnWay ==
  \/ copier.res = Failing \/ merged = Failing \/ hand # <<>>
  \/ \E s \in EC!Sources : result[s] = Failing \/ forward[s] = Failing
  \/ panicked \/ ecErrC # <<>> \/ failed

\* The files of a message are copied, are about to be, or could not be.
Asked(m) == m \in copied \/ request = <<m>> \/ ErrorOnWay
AskedUpto(c, n) ==
  \A i \in 1..Len(EcMessages[c]) :
    i <= n /\ EcThread[EcMessages[c][i]] # "missing" => Asked(EcMessages[c][i])

\* The file of a day has all of its messages, in order.
Upto(c, d, n) == {i \in EC!KeptOn(c, d) : i <= n}
Full(c, d) == EC!InOrder(written[<<c, d>>], c, EC!KeptOn(c, d))

Holds == {<<>>, <<"nil">>, <<"error">>}   \* what a Go channel or a goroutine has of the results
ConvTypes ==
  /\ EC!TypeOK
  /\ worker \in [EcWorkers -> [pc : {"recv", "append", "send", "broken", "error", "left"},
       ch : EC!Chans \cup {EC!NoChan}, at : Nat, mm : Seq(EC!Msgs), prev : EC!Days \cup {EC!NoDay}]]
  /\ \A w \in EcWorkers :
       /\ worker[w].pc \in {"append", "send", "broken"} =>
            worker[w].ch \in EC!Chans /\ worker[w].at <= Len(EcMessages[worker[w].ch])
       /\ worker[w].pc = "send" => worker[w].at < Len(EcMessages[worker[w].ch])
  /\ chC \in Seq(EC!Chans) /\ written \in [EC!Chans \X EC!Days -> Seq(EC!Msgs)]
  /\ request \in {<<>>} \cup {<<m>> : m \in EC!Msgs} /\ requestOpen \in BOOLEAN
  /\ DOMAIN copier = {"pc", "res"} /\ copier.res \in Holds /\ (copier.pc # "send" => copier.res = <<>>)
  /\ result \in [EC!Sources -> Holds] /\ forward \in [EC!Sources -> Holds]
  /\ merged \in Holds /\ hand \in Holds /\ avatar \in 0..Len(Avatars)
  /\ ecErrC \in Seq({"worker", "index", "result"}) /\ failed \in BOOLEAN

\* What a worker has of the day it is at, and the files of the days it has left behind.
ConvWorker(w) ==
  LET f == worker[w]  c == f.ch IN
  f.pc \in {"append", "send"} =>
    /\ EC!InOrder(f.mm, c, Upto(c, f.prev, f.at))
    /\ \A d \in EC!Days : d # f.prev /\ (\A i \in EC!KeptOn(c, d) : i <= f.at) => Full(c, d)
    /\ AskedUpto(c, f.at)
    /\ f.pc = "append" /\ f.at > 0 => f.prev = EcDay[EcMessages[c][f.at]]
    /\ f.pc = "send" => f.prev = EcDay[EC!Next1(w)] /\ EcThread[EC!Next1(w)] # "missing"
ConvWorkers == ~Trouble => \A w \in EcWorkers : ConvWorker(w)

\* A file is written at once or not at all, and a channel waits, is with a worker or is converted.
ConvFiles == ~Trouble => \A c \in EC!Chans, d \in EC!Days : written[<<c, d>>] = <<>> \/ Full(c, d)
Done(c) == (\A d \in EC!Days : Full(c, d)) /\ AskedUpto(c, Len(EcMessages[c]))
Busy(w, c) == worker[w].pc \in {"append", "send"} /\ worker[w].ch = c
ConvChannels ==
  ~Trouble => \A c \in EC!Chans : In(chC, c) \/ (\E w \in EcWorkers : Busy(w, c)) \/ Done(c)

ConvAvatars == \A i \in 1..Len(Avatars) : i <= avatar /\ Avatars[i] = "error" => ErrorOnWay

\* The goroutines end in an order: the workers when there are no channels, the requests after them,
\* the copy worker after these, and errC after all who send on it but the one of the results.
ConvEnds ==
  /\ ~Trouble /\ (\E w \in EcWorkers : worker[w].pc = "left") => chC = <<>>
  /\ index = "failed" => ecErrC # <<>> \/ failed
  /\ ~requestOpen => EC!ConvertersDone
  /\ copier.pc = "left" => ~requestOpen /\ request = <<>>
  /\ ~resultOpen["avatars"] => avatar = Len(Avatars)
  /\ ~errOpen => ~requestOpen /\ copier.pc = "left" /\ ~resultOpen["avatars"]
  /\ status = "ok" => ~errOpen /\ ecErrC = <<>> /\ ~failed

ConvInv == ConvTypes /\ ConvWorkers /\ ConvFiles /\ ConvChannels /\ ConvAvatars /\ ConvEnds

LEMMA SameCardinality == \A S : EC!Cardinality(S) = Cardinality(S)
BY DEF EC!Cardinality, Cardinality

\* The places of a set of naturals up to one of them: at least that one, at most all.
LEMMA RankBounds ==
  ASSUME NEW S \in SUBSET Nat, IsFiniteSet(S), NEW i \in S
  PROVE  /\ Cardinality(S) \in Nat
         /\ Cardinality({j \in S : j <= i}) \in 1..Cardinality(S)
<1> DEFINE R == {j \in S : j <= i}
<1>1. R \in SUBSET S /\ R # {}
  OBVIOUS
<1>2. IsFiniteSet(R) /\ Cardinality(R) <= Cardinality(S)
  BY <1>1, FS_Subset
<1>3. Cardinality(R) # 0
  BY <1>1, <1>2, FS_EmptySet
<1>4. Cardinality(S) \in Nat /\ Cardinality(R) \in Nat
  BY <1>2, FS_CardinalityType
<1> HIDE DEF R
<1>5. Cardinality(R) \in 1..Cardinality(S)
  BY <1>2, <1>3, <1>4
<1> QED
  BY <1>4, <1>5 DEF R

LEMMA ConvForm ==
  /\ EcChannels \in Seq(EC!Chans) /\ Cardinality(EcWorkers) \in Nat \ {0}
  /\ \A c \in EC!Chans :
       /\ EcMessages[c] \in Seq(EC!Msgs) /\ Len(EcMessages[c]) \in Nat
       /\ \A i \in 1..Len(EcMessages[c]) :
            EcMessages[c][i] \in EC!Msgs /\ EcDay[EcMessages[c][i]] \in EC!Days
       /\ \A i, j, k \in 1..Len(EcMessages[c]) :
            i <= j /\ j <= k /\ EcDay[EcMessages[c][i]] = EcDay[EcMessages[c][k]] =>
              EcDay[EcMessages[c][j]] = EcDay[EcMessages[c][i]]
<1>1. DOMAIN EcChannels = 1..Len(EcChannels) /\ Len(EcChannels) \in Nat
  BY ConvertAssumption
<1>2. EcChannels \in Seq(EC!Chans)
  BY ConvertAssumption DEF EC!Chans
<1>3. Cardinality(EcWorkers) \in Nat \ {0}
  <2>1. Cardinality(EcWorkers) \in Nat
    BY ConvertAssumption, FS_CardinalityType
  <2>2. Cardinality(EcWorkers) # 0
    BY ConvertAssumption, FS_EmptySet
  <2> QED
    BY <2>1, <2>2
<1>4. ASSUME NEW c \in EC!Chans
      PROVE  /\ EcMessages[c] \in Seq(EC!Msgs) /\ Len(EcMessages[c]) \in Nat
             /\ \A i \in 1..Len(EcMessages[c]) :
                  EcMessages[c][i] \in EC!Msgs /\ EcDay[EcMessages[c][i]] \in EC!Days
             /\ \A i, j, k \in 1..Len(EcMessages[c]) :
                  i <= j /\ j <= k /\ EcDay[EcMessages[c][i]] = EcDay[EcMessages[c][k]] =>
                    EcDay[EcMessages[c][j]] = EcDay[EcMessages[c][i]]
  <2>1. PICK n \in DOMAIN EcChannels : EcChannels[n] = c
    BY <1>1 DEF EC!Chans
  <2>2. EcMessages[c] \in Seq(DOMAIN EcDay)
    BY <2>1, ConvertAssumption
  <2>3. DOMAIN EcMessages[c] = 1..Len(EcMessages[c]) /\ Len(EcMessages[c]) \in Nat
    BY <2>2
  <2>4. \A i \in 1..Len(EcMessages[c]) : EcMessages[c][i] \in EC!Msgs
    BY <2>2, <2>3 DEF EC!Msgs
  <2>5. \A i \in 1..Len(EcMessages[c]) : EcDay[EcMessages[c][i]] \in EC!Days
    BY <2>4 DEF EC!Days
  <2>6. \A i, j, k \in 1..Len(EcMessages[c]) :
          i <= j /\ j <= k /\ EcDay[EcMessages[c][i]] = EcDay[EcMessages[c][k]] =>
            EcDay[EcMessages[c][j]] = EcDay[EcMessages[c][i]]
    <3>1. \A i, j, k \in DOMAIN EcMessages[EcChannels[n]] :
            i <= j /\ j <= k /\ EcDay[EcMessages[EcChannels[n]][i]] = EcDay[EcMessages[EcChannels[n]][k]] =>
              EcDay[EcMessages[EcChannels[n]][j]] = EcDay[EcMessages[EcChannels[n]][i]]
      BY ONLY n \in DOMAIN EcChannels, ConvertAssumption, Zenon
    <3> QED
      BY ONLY <3>1, <2>1, <2>3
  <2> QED
    BY <2>2, <2>3, <2>4, <2>5, <2>6 DEF EC!Msgs
<1> QED
  BY <1>2, <1>3, <1>4

LEMMA UptoForm ==
  ASSUME NEW c \in EC!Chans, NEW d, NEW n \in Nat
  PROVE  /\ Upto(c, d, n) \in SUBSET Nat /\ IsFiniteSet(Upto(c, d, n))
         /\ Cardinality(Upto(c, d, n)) \in Nat
<1>1. IsFiniteSet(1..Len(EcMessages[c]))
  <2>1. 1 \in Int /\ Len(EcMessages[c]) \in Int
    BY ConvForm
  <2> QED
    BY <2>1, FS_Interval
<1>2. Upto(c, d, n) \in SUBSET (1..Len(EcMessages[c]))
  BY DEF Upto, EC!KeptOn
<1>3. IsFiniteSet(Upto(c, d, n)) /\ 1..Len(EcMessages[c]) \subseteq Nat
  BY <1>1, <1>2, FS_Subset
<1> QED
  BY <1>2, <1>3, FS_CardinalityType

\* Nothing is in order at no places, and the other way round.
LEMMA NothingInOrder ==
  ASSUME NEW S, NEW s \in Seq(S), NEW c
  PROVE  EC!InOrder(s, c, {}) <=> s = <<>>
<1>1. Len(s) = 0 <=> s = <<>>
  OBVIOUS
<1>2. Cardinality({}) = 0
  BY FS_EmptySet
<1> QED
  BY <1>1, <1>2, SameCardinality, Zenon DEF EC!InOrder

\* A message that is kept is the next in order.
LEMMA NextInOrder ==
  ASSUME NEW c \in EC!Chans, NEW d, NEW n \in Nat, n + 1 \in EC!KeptOn(c, d),
         NEW s \in Seq(EC!Msgs), EC!InOrder(s, c, Upto(c, d, n))
  PROVE  EC!InOrder(Append(s, EcMessages[c][n + 1]), c, Upto(c, d, n + 1))
<1> DEFINE U == Upto(c, d, n)
           V == Upto(c, d, n + 1)
           t == Append(s, EcMessages[c][n + 1])
           RU(i) == {j \in U : j <= i}
           RV(i) == {j \in V : j <= i}
<1>1. U \in SUBSET Nat /\ IsFiniteSet(U) /\ Cardinality(U) \in Nat
  BY UptoForm
<1>2. V \in SUBSET Nat /\ IsFiniteSet(V) /\ Cardinality(V) \in Nat
  BY UptoForm
<1>3. V = U \cup {n + 1} /\ n + 1 \notin U
  BY DEF Upto, EC!KeptOn
<1>4. Cardinality(V) = Cardinality(U) + 1
  BY <1>1, <1>3, FS_AddElement
<1>5. Len(s) = Cardinality(U) /\ \A i \in U : s[Cardinality(RU(i))] = EcMessages[c][i]
  BY SameCardinality, Zenon DEF EC!InOrder
<1>6. EcMessages[c][n + 1] \in EC!Msgs
  BY ConvForm DEF EC!KeptOn
<1>7. /\ Len(t) = Len(s) + 1 /\ t[Len(s) + 1] = EcMessages[c][n + 1]
      /\ \A k \in 1..Len(s) : t[k] = s[k]
  BY <1>6
<1>8. ASSUME NEW i \in V PROVE t[Cardinality(RV(i))] = EcMessages[c][i]
  <2>1. CASE i \in U
    <3>1. i \in Nat /\ i <= n
      BY <2>1, <1>1 DEF Upto
    <3>2. RV(i) = RU(i)
      BY <3>1, <1>3
    <3>3. Cardinality(RU(i)) \in 1..Cardinality(U)
      BY <2>1, <1>1, RankBounds
    <3> HIDE DEF t, RU, RV, U, V
    <3> QED
      BY <2>1, <3>2, <3>3, <1>5, <1>7
  <2>2. CASE i = n + 1
    <3>1. RV(i) = V
      BY <2>2, <1>3 DEF Upto
    <3> HIDE DEF t, RU, RV, U, V
    <3> QED
      BY <2>2, <3>1, <1>4, <1>5, <1>7
  <2> QED
    BY <2>1, <2>2, <1>3
<1>9. Len(t) = Cardinality(V)
  BY <1>4, <1>5, <1>7
<1> QED
  BY <1>8, <1>9, SameCardinality, Zenon DEF EC!InOrder

\* A message of another day, or one that is dropped, changes nothing.
LEMMA SameUpto ==
  ASSUME NEW c \in EC!Chans, NEW d, NEW n \in Nat, n + 1 \notin EC!KeptOn(c, d)
  PROVE  Upto(c, d, n + 1) = Upto(c, d, n)
BY ConvForm DEF Upto, EC!KeptOn

-----------------------------------------------------------------------------
(* What a step of the conversion leaves as it is.                          *)

\* An error that is on its way stays on its way, and so do the files of a message.
LEMMA ErrorStays == ASSUME ConvTypes, EC!Next PROVE ErrorOnWay => ErrorOnWay'
<1> USE DEF ErrorOnWay, Failing, EC!Sources, EC!convert, EC!copying, EC!results, EC!caller
<1>1. ecErrC \in Seq({"worker", "index", "result"}) /\ result \in [EC!Sources -> Holds]
      /\ forward \in [EC!Sources -> Holds] /\ DOMAIN copier = {"pc", "res"}
      /\ \A e \in {"worker", "index", "result"} : Append(ecErrC, e) # <<>>
  <2>1. ecErrC \in Seq({"worker", "index", "result"})
    BY DEF ConvTypes
  <2>2. \A e \in {"worker", "index", "result"} : Append(ecErrC, e) # <<>>
    BY <2>1, InAppend
  <2> QED
    BY <2>1, <2>2 DEF ConvTypes
<1>2. ASSUME NEW w \in EcWorkers, EC!Worker(w) PROVE ErrorOnWay => ErrorOnWay'
  BY <1>1, <1>2 DEF EC!Worker, EC!Take, EC!Leave, EC!Append1, EC!Send, EC!WriteLast, EC!WorkerError
<1>3. CASE EC!WriteIndexStep
  BY <1>1, <1>3 DEF EC!WriteIndexStep, EC!WriteIndex
<1>4. CASE EC!Copier
  <2>1. CASE EC!Copy
    BY <2>1, <1>1 DEF EC!Copy, ConvTypes
  <2>2. CASE EC!CopyResult
    BY <2>2, <1>1 DEF EC!CopyResult, ConvTypes, Holds
  <2>3. CASE EC!CopyEnd
    BY <2>3, <1>1 DEF EC!CopyEnd
  <2> QED
    BY <1>4, <2>1, <2>2, <2>3 DEF EC!Copier
<1>5. CASE EC!AvatarWorker
  BY <1>1, <1>5 DEF EC!AvatarWorker, EC!AvatarResult, EC!AvatarEnd, Holds
<1>6. ASSUME NEW s \in EC!Sources, EC!Merge(s) PROVE ErrorOnWay => ErrorOnWay'
  BY <1>1, <1>6 DEF EC!Merge, EC!Forward, Holds
<1>7. CASE EC!Result
  BY <1>1, <1>7 DEF EC!Result, ConvTypes, Holds
<1>8. CASE EC!CloseRequests \/ EC!CloseErrors \/ EC!Cancel
  BY <1>8 DEF EC!CloseRequests, EC!CloseErrors, EC!Cancel
<1>9. CASE EC!Read
  BY <1>9 DEF EC!Read
<1> QED
  BY <1>2, <1>3, <1>4, <1>5, <1>6, <1>7, <1>8, <1>9 DEF EC!Next

LEMMA AskedStays == ASSUME ConvTypes, EC!Next PROVE \A m : Asked(m) => Asked(m)'
<1> SUFFICES ASSUME NEW m, Asked(m), ~ErrorOnWay' PROVE m \in copied' \/ request' = <<m>>
  BY DEF Asked
<1>1. m \in copied \/ request = <<m>>
  BY ErrorStays DEF Asked
<1> USE DEF EC!convert, EC!copying, EC!results, EC!caller
<1>2. ASSUME NEW w \in EcWorkers, EC!Worker(w) PROVE m \in copied' \/ request' = <<m>>
  BY <1>1, <1>2 DEF EC!Worker, EC!Take, EC!Leave, EC!Append1, EC!Send, EC!WriteLast, EC!WorkerError
<1>3. CASE EC!WriteIndexStep
  BY <1>1, <1>3 DEF EC!WriteIndexStep
<1>4. CASE EC!Copier
  <2>1. CASE EC!Copy
    <3>1. copier'.res # <<"error">>
      BY DEF ErrorOnWay, Failing
    <3> QED
      BY <1>1, <2>1, <3>1 DEF EC!Copy
  <2>2. CASE EC!CopyResult \/ EC!CopyEnd
    BY <1>1, <2>2 DEF EC!CopyResult, EC!CopyEnd
  <2> QED
    BY <1>4, <2>1, <2>2 DEF EC!Copier
<1>5. CASE EC!AvatarWorker
  BY <1>1, <1>5 DEF EC!AvatarWorker, EC!AvatarResult, EC!AvatarEnd
<1>6. ASSUME NEW s \in EC!Sources, EC!Merge(s) PROVE m \in copied' \/ request' = <<m>>
  BY <1>1, <1>6 DEF EC!Merge
<1>7. CASE EC!Result \/ EC!CloseRequests \/ EC!CloseErrors \/ EC!Cancel \/ EC!Read
  BY <1>1, <1>7 DEF EC!Result, EC!CloseRequests, EC!CloseErrors, EC!Cancel, EC!Read
<1> QED
  BY <1>2, <1>3, <1>4, <1>5, <1>6, <1>7 DEF EC!Next

\* Trouble stays: a worker or the index writer hands its error over, the caller notes it.
LEMMA TroubleStays == ASSUME ConvTypes, EC!Next PROVE Trouble => Trouble'
<1> USE DEF Trouble, EC!convert, EC!copying, EC!results, EC!caller
<1>1. ecErrC \in Seq({"worker", "index", "result"}) /\ DOMAIN worker = EcWorkers
      /\ \A e \in {"worker", "index", "result"} : Append(ecErrC, e) # <<>>
  <2>1. ecErrC \in Seq({"worker", "index", "result"})
    BY DEF ConvTypes
  <2>2. \A e \in {"worker", "index", "result"} : Append(ecErrC, e) # <<>>
    BY <2>1, InAppend
  <2> QED
    BY <2>1, <2>2 DEF ConvTypes
<1>2. ASSUME NEW w \in EcWorkers, EC!Worker(w), Trouble PROVE Trouble'
  <2>1. CASE EC!Take(w) \/ EC!Leave(w)
    BY <2>1, <1>1, <1>2 DEF EC!Take, EC!Leave
  <2>2. CASE EC!Append1(w)
    BY <2>2, <1>1, <1>2 DEF EC!Append1
  <2>3. CASE EC!Send(w)
    BY <2>3, <1>1, <1>2 DEF EC!Send
  <2>4. CASE EC!WriteLast(w)
    <3>1. CASE worker[w].pc = "broken"
      <4>1. worker'[w].pc = "error"
        BY <2>4, <3>1, <1>1 DEF EC!WriteLast, ConvTypes
      <4> QED
        BY <4>1
    <3>2. CASE worker[w].pc = "append"
      BY <2>4, <3>2, <1>1, <1>2 DEF EC!WriteLast
    <3> QED
      BY <2>4, <3>1, <3>2 DEF EC!WriteLast
  <2>5. CASE EC!WorkerError(w)
    BY <2>5, <1>1, <1>2 DEF EC!WorkerError
  <2> QED
    BY <1>2, <2>1, <2>2, <2>3, <2>4, <2>5 DEF EC!Worker
<1>3. CASE EC!WriteIndexStep
  BY <1>1, <1>3 DEF EC!WriteIndexStep, EC!WriteIndex
<1>4. CASE EC!Copier
  BY <1>4 DEF EC!Copier, EC!Copy, EC!CopyResult, EC!CopyEnd
<1>5. CASE EC!AvatarWorker
  BY <1>5 DEF EC!AvatarWorker, EC!AvatarResult, EC!AvatarEnd
<1>6. ASSUME NEW s \in EC!Sources, EC!Merge(s) PROVE Trouble => Trouble'
  BY <1>6 DEF EC!Merge
<1>7. CASE EC!Result
  BY <1>1, <1>7 DEF EC!Result
<1>8. CASE EC!CloseRequests \/ EC!CloseErrors \/ EC!Cancel
  BY <1>8 DEF EC!CloseRequests, EC!CloseErrors, EC!Cancel
<1>9. CASE EC!Read
  BY <1>9 DEF EC!Read
<1> QED
  BY <1>2, <1>3, <1>4, <1>5, <1>6, <1>7, <1>8, <1>9 DEF EC!Next

\* Whoever does not touch the channels, the workers and the files leaves the work as it is.
LEMMA WorkStays ==
  ASSUME ConvInv, EC!Next, UNCHANGED <<chC, worker, written>>
  PROVE  ConvWorkers' /\ ConvFiles' /\ ConvChannels'
<1>1. (Trouble => Trouble') /\ \A m : Asked(m) => Asked(m)'
  BY TroubleStays, AskedStays DEF ConvInv
<1>2. /\ \A c \in EC!Chans, n \in Nat : AskedUpto(c, n) => AskedUpto(c, n)'
      /\ \A c \in EC!Chans, d \in EC!Days : Full(c, d) <=> Full(c, d)'
  BY <1>1 DEF AskedUpto, Full
<1>3. ConvFiles'
  BY <1>1, <1>2 DEF ConvInv, ConvFiles
<1>4. ConvChannels'
  BY <1>1, <1>2, ConvForm DEF ConvInv, ConvChannels, Done, Busy
<1>5. ASSUME NEW w \in EcWorkers, ~Trouble' PROVE ConvWorker(w)'
  <2>1. ConvWorker(w) /\ worker'[w] = worker[w] /\ EC!Next1(w)' = EC!Next1(w)
    BY <1>1, <1>5 DEF ConvInv, ConvWorkers, EC!Next1
  <2>2. worker[w].pc \in {"append", "send"} => worker[w].ch \in EC!Chans /\ worker[w].at \in Nat
    BY DEF ConvInv, ConvTypes
  <2> QED
    BY <1>2, <2>1, <2>2 DEF ConvWorker
<1> QED
  BY <1>3, <1>4, <1>5 DEF ConvWorkers

-----------------------------------------------------------------------------
(* The workers.                                                            *)

\* When the day is over, its file is written with all of its messages.
LEMMA Flushed ==
  ASSUME ConvInv, ~Trouble, NEW w \in EcWorkers, worker[w].pc = "append",
         EC!HasNext(w) => EcDay[EC!Next1(w)] # worker[w].prev, EC!Flush(w),
         NEW CONSTANT c, c = worker[w].ch
  PROVE  /\ \A e \in EC!Chans, d \in EC!Days : Full(e, d) => Full(e, d)'
         /\ \A e \in EC!Chans, d \in EC!Days : written'[<<e, d>>] = <<>> \/ Full(e, d)'
         /\ \A d \in EC!Days :
              (\A i \in EC!KeptOn(c, d) : i <= worker[w].at) => Full(c, d)'
<1> DEFINE f == worker[w]
<1> SUFFICES ASSUME NEW CONSTANT p, p = f.prev PROVE
      /\ \A e \in EC!Chans, d \in EC!Days : Full(e, d) => Full(e, d)'
      /\ \A e \in EC!Chans, d \in EC!Days : written'[<<e, d>>] = <<>> \/ Full(e, d)'
      /\ \A d \in EC!Days : (\A i \in EC!KeptOn(c, d) : i <= f.at) => Full(c, d)'
  OBVIOUS
<1>1. /\ c \in EC!Chans /\ f.at \in Nat /\ f.at <= Len(EcMessages[c]) /\ f.mm \in Seq(EC!Msgs)
      /\ written \in [EC!Chans \X EC!Days -> Seq(EC!Msgs)]
  BY DEF ConvInv, ConvTypes
<1>2. /\ EC!InOrder(f.mm, c, Upto(c, p, f.at))
      /\ \A d \in EC!Days : d # p /\ (\A i \in EC!KeptOn(c, d) : i <= f.at) => Full(c, d)
      /\ f.at > 0 => p = EcDay[EcMessages[c][f.at]]
  BY DEF ConvInv, ConvWorkers, ConvWorker
<1>3. /\ Len(EcMessages[c]) \in Nat
      /\ \A i \in 1..Len(EcMessages[c]) : EcDay[EcMessages[c][i]] \in EC!Days
      /\ \A i, j, k \in 1..Len(EcMessages[c]) :
            i <= j /\ j <= k /\ EcDay[EcMessages[c][i]] = EcDay[EcMessages[c][k]] =>
              EcDay[EcMessages[c][j]] = EcDay[EcMessages[c][i]]
  BY <1>1, ConvForm
<1>4. ASSUME f.mm # <<>> PROVE Upto(c, p, f.at) = EC!KeptOn(c, p) /\ p \in EC!Days
  <2>1. Upto(c, p, f.at) # {}
    BY <1>1, <1>2, <1>4, NothingInOrder
  <2>2. f.at \in 1..Len(EcMessages[c]) /\ p = EcDay[EcMessages[c][f.at]]
    BY <1>1, <1>2, <2>1 DEF Upto, EC!KeptOn
  <2>3. ASSUME NEW i \in EC!KeptOn(c, p), i > f.at PROVE FALSE
    <3>1. i \in 1..Len(EcMessages[c]) /\ EcDay[EcMessages[c][i]] = p
      BY DEF EC!KeptOn
    <3>2. f.at + 1 \in 1..Len(EcMessages[c]) /\ f.at <= f.at + 1 /\ f.at + 1 <= i
      BY <1>1, <1>3, <2>3, <3>1
    <3>3. EcDay[EcMessages[c][f.at + 1]] = p
      BY <1>3, <2>2, <3>1, <3>2
    <3>4. EcDay[EcMessages[c][f.at + 1]] # p
      BY <1>1, <1>3, <3>2 DEF EC!HasNext, EC!Next1
    <3> QED
      BY <3>3, <3>4
  <2>4. \A i \in EC!KeptOn(c, p) : i \in 1..Len(EcMessages[c])
    BY DEF EC!KeptOn
  <2>5. \A i \in EC!KeptOn(c, p) : i <= f.at
    BY <1>1, <1>3, <2>3, <2>4
  <2> QED
    BY <1>3, <2>2, <2>5 DEF Upto
<1>5. f.mm # <<>> => written' = [written EXCEPT ![<<c, p>>] = f.mm]
  BY DEF EC!Flush
<1>6. f.mm # <<>> => Full(c, p)'
  <2>1. SUFFICES ASSUME f.mm # <<>> PROVE Full(c, p)'
    OBVIOUS
  <2>2. written'[<<c, p>>] = f.mm
    BY <1>1, <1>4, <1>5, <2>1
  <2> QED
    BY <1>2, <1>4, <2>1, <2>2 DEF Full
<1>7. \A e \in EC!Chans, d \in EC!Days :
        written'[<<e, d>>] = written[<<e, d>>] \/ (e = c /\ d = p /\ f.mm # <<>>)
  BY <1>1, <1>5 DEF EC!Flush
<1>8. \A e \in EC!Chans, d \in EC!Days : Full(e, d) => Full(e, d)'
  BY <1>6, <1>7 DEF Full
<1>9. \A e \in EC!Chans, d \in EC!Days : written[<<e, d>>] = <<>> \/ Full(e, d)
  BY DEF ConvInv, ConvFiles
<1>10. \A e \in EC!Chans, d \in EC!Days : written'[<<e, d>>] = <<>> \/ Full(e, d)'
  BY <1>6, <1>7, <1>8, <1>9
<1>11. ASSUME NEW d \in EC!Days, \A i \in EC!KeptOn(c, d) : i <= f.at PROVE Full(c, d)'
  <2>1. CASE d # p
    BY <1>1, <1>2, <1>8, <1>11, <2>1
  <2>2. CASE d = p /\ f.mm # <<>>
    BY <1>6, <2>2
  <2>3. CASE d = p /\ f.mm = <<>>
    <3>1. EC!InOrder(<<>>, c, EC!KeptOn(c, d))
      <4>1. Upto(c, p, f.at) = EC!KeptOn(c, d)
        BY <1>11, <2>3 DEF Upto
      <4> QED
        BY <1>2, <2>3, <4>1
    <3> QED
      BY <1>1, <1>8, <1>9, <3>1 DEF Full
  <2> QED
    BY <2>1, <2>2, <2>3
<1> QED
  BY <1>8, <1>10, <1>11

\* A new day begins with nothing of it before.
LEMMA NewDay ==
  ASSUME ConvInv, ~Trouble, NEW w \in EcWorkers, worker[w].pc = "append", EC!HasNext(w),
         EcDay[EC!Next1(w)] # worker[w].prev
  PROVE  Upto(worker[w].ch, EcDay[EC!Next1(w)], worker[w].at) = {}
<1> DEFINE f == worker[w]
           c == f.ch
           p == EcDay[EC!Next1(w)]
<1>1. /\ c \in EC!Chans /\ f.at \in Nat /\ f.at + 1 \in 1..Len(EcMessages[c])
      /\ EC!Next1(w) = EcMessages[c][f.at + 1]
  BY ConvForm DEF ConvInv, ConvTypes, EC!HasNext, EC!Next1
<1>2. f.at > 0 => f.prev = EcDay[EcMessages[c][f.at]]
  BY DEF ConvInv, ConvWorkers, ConvWorker
<1>3. ASSUME NEW i \in Upto(c, p, f.at) PROVE FALSE
  <2>1. i \in 1..Len(EcMessages[c]) /\ i <= f.at /\ EcDay[EcMessages[c][i]] = p
    BY DEF Upto, EC!KeptOn
  <2>2. f.at \in 1..Len(EcMessages[c]) /\ f.at <= f.at + 1 /\ f.at > 0
    BY <1>1, <2>1
  <2>3. EcDay[EcMessages[c][f.at]] = p
    <3>1. i \in 1..Len(EcMessages[c]) /\ i <= f.at /\ f.at <= f.at + 1
      BY <2>1, <2>2
    <3>2. EcDay[EcMessages[c][i]] = EcDay[EcMessages[c][f.at + 1]]
      BY <1>1, <2>1
    <3>3. \A i1, j, k \in 1..Len(EcMessages[c]) :
            i1 <= j /\ j <= k /\ EcDay[EcMessages[c][i1]] = EcDay[EcMessages[c][k]] =>
              EcDay[EcMessages[c][j]] = EcDay[EcMessages[c][i1]]
      BY <1>1, ConvForm
    <3> HIDE DEF f, c, p
    <3> QED
      BY <1>1, <2>1, <2>2, <3>1, <3>2, <3>3
  <2> QED
    BY <1>2, <2>2, <2>3
<1> QED
  BY <1>3

\* The other workers go on as they were.
LEMMA OtherWorker ==
  ASSUME ConvInv, EC!Next, ~Trouble', NEW v \in EcWorkers, worker'[v] = worker[v],
         \A e \in EC!Chans, d \in EC!Days : Full(e, d) => Full(e, d)'
  PROVE  ConvWorker(v)'
<1>1. ~Trouble /\ \A m : Asked(m) => Asked(m)'
  BY TroubleStays, AskedStays DEF ConvInv
<1>2. \A c \in EC!Chans, n \in Nat : AskedUpto(c, n) => AskedUpto(c, n)'
  BY <1>1 DEF AskedUpto
<1>3. ConvWorker(v) /\ EC!Next1(v)' = EC!Next1(v)
  BY <1>1 DEF ConvInv, ConvWorkers, EC!Next1
<1>4. worker[v].pc \in {"append", "send"} => worker[v].ch \in EC!Chans /\ worker[v].at \in Nat
  BY DEF ConvInv, ConvTypes
<1> QED
  BY <1>2, <1>3, <1>4 DEF ConvWorker

\* So do the channels but the one of the worker.
LEMMA OtherChannels ==
  ASSUME ConvInv, EC!Next, NEW w \in EcWorkers, NEW g, worker' = [worker EXCEPT ![w] = g], chC' = chC,
         \A e \in EC!Chans, d \in EC!Days : Full(e, d) => Full(e, d)',
         \A c \in EC!Chans : ~Trouble' /\ Busy(w, c) => Busy(w, c)' \/ Done(c)'
  PROVE  ConvChannels'
<1> SUFFICES ASSUME ~Trouble', NEW CONSTANT c \in EC!Chans
             PROVE  In(chC, c) \/ (\E v \in EcWorkers : Busy(v, c)') \/ Done(c)'
  BY DEF ConvChannels
<1>1. ~Trouble /\ \A m : Asked(m) => Asked(m)'
  BY TroubleStays, AskedStays DEF ConvInv
<1>2. Done(c) => Done(c)'
  BY <1>1 DEF Done, AskedUpto
<1>3. CASE In(chC, c) \/ Done(c)
  BY <1>2, <1>3
<1>4. ASSUME NEW v \in EcWorkers, Busy(v, c)
      PROVE  (\E u \in EcWorkers : Busy(u, c)') \/ Done(c)'
  <2>1. CASE v # w
    <3>1. worker'[v] = worker[v]
      BY <2>1 DEF ConvInv, ConvTypes
    <3> QED
      BY <1>4, <3>1 DEF Busy
  <2>2. CASE v = w
    BY <1>4, <2>2 DEF Busy
  <2> QED
    BY <2>1, <2>2
<1> QED
  BY <1>1, <1>3, <1>4 DEF ConvInv, ConvChannels

\* A worker that runs has not been waited for.
LEMMA WorkersBefore ==
  ASSUME ConvInv, NEW w \in EcWorkers, worker[w].pc # "left"
  PROVE  requestOpen /\ copier.pc # "left" /\ errOpen /\ status # "ok"
BY DEF ConvInv, ConvEnds, ConvTypes, EC!ConvertersDone

\* The avatars, and the end, do not depend on what a worker does before it leaves.
LEMMA WorkersBeside ==
  ASSUME ConvInv, EC!Next, NEW w \in EcWorkers, worker[w].pc # "left",
         UNCHANGED <<index, requestOpen, copier, avatar, resultOpen, errOpen, status, failed>>,
         index' = "failed" => ecErrC' # <<>> \/ failed',
         ~Trouble' /\ (\E v \in EcWorkers : worker'[v].pc = "left") => chC' = <<>>
  PROVE  ConvAvatars' /\ ConvEnds'
<1>1. ConvAvatars'
  BY ErrorStays DEF ConvInv, ConvAvatars
<1>2. ConvEnds'
  BY WorkersBefore DEF ConvInv, ConvEnds
<1> QED
  BY <1>1, <1>2

LEMMA TakeKept == ASSUME ConvInv, EC!Next, NEW w \in EcWorkers, EC!Take(w) PROVE ConvInv'
<1> USE DEF EC!Take, EC!convert, EC!copying, EC!results, EC!caller
<1>1. /\ chC # <<>> /\ chC \in Seq(EC!Chans) /\ Head(chC) \in EC!Chans /\ Tail(chC) \in Seq(EC!Chans)
      /\ \A x : In(chC, x) <=> In(Tail(chC), x) \/ x = Head(chC)
  <2>1. chC # <<>> /\ chC \in Seq(EC!Chans)
    BY DEF ConvInv, ConvTypes
  <2> QED
    BY <2>1, InTail
<1>2. /\ DOMAIN worker = EcWorkers /\ UNCHANGED written
      /\ worker'[w] = [pc |-> "append", ch |-> Head(chC), at |-> 0, mm |-> <<>>, prev |-> EC!NoDay]
      /\ \A v \in EcWorkers \ {w} : worker'[v] = worker[v]
  BY DEF ConvInv, ConvTypes, EC!Free
<1>3. ConvTypes'
  <2>1. worker'[w] \in [pc : {"recv", "append", "send", "broken", "error", "left"},
          ch : EC!Chans \cup {EC!NoChan}, at : Nat, mm : Seq(EC!Msgs), prev : EC!Days \cup {EC!NoDay}]
    <3>1. <<>> \in Seq(EC!Msgs) /\ 0 \in Nat /\ EC!NoDay \in EC!Days \cup {EC!NoDay}
      OBVIOUS
    <3> HIDE DEF EC!Take
    <3> QED
      BY <1>1, <1>2, <3>1
  <2>2. worker' \in [EcWorkers -> [pc : {"recv", "append", "send", "broken", "error", "left"},
          ch : EC!Chans \cup {EC!NoChan}, at : Nat, mm : Seq(EC!Msgs), prev : EC!Days \cup {EC!NoDay}]]
    BY <2>1 DEF ConvInv, ConvTypes
  <2>3. \A v \in EcWorkers :
       /\ worker'[v].pc \in {"append", "send", "broken"} =>
            worker'[v].ch \in EC!Chans /\ worker'[v].at <= Len(EcMessages[worker'[v].ch])
       /\ worker'[v].pc = "send" => worker'[v].at < Len(EcMessages[worker'[v].ch])
    <3>1. 0 <= Len(EcMessages[Head(chC)])
      BY <1>1, ConvForm
    <3> HIDE DEF EC!Take
    <3>2. worker'[w].pc = "append" /\ worker'[w].ch = Head(chC) /\ worker'[w].at = 0
      BY <1>2
    <3>3. \A v \in EcWorkers \ {w} :
       /\ worker[v].pc \in {"append", "send", "broken"} =>
            worker[v].ch \in EC!Chans /\ worker[v].at <= Len(EcMessages[worker[v].ch])
       /\ worker[v].pc = "send" => worker[v].at < Len(EcMessages[worker[v].ch])
      BY DEF ConvInv, ConvTypes
    <3> QED
      BY <1>1, <1>2, <3>1, <3>2, <3>3
  <2>4. \A v \in EcWorkers : worker'[v].pc \in {"recv", "append", "send", "broken", "error", "left"}
    BY <2>2
  <2> QED
    BY <1>1, <2>2, <2>3, <2>4 DEF ConvInv, ConvTypes, EC!TypeOK
<1>4. ASSUME ~Trouble' PROVE ConvWorkers' /\ ConvFiles' /\ ConvChannels'
  <2>1. ~Trouble /\ \A m : Asked(m) => Asked(m)'
    BY <1>4, TroubleStays, AskedStays DEF ConvInv
  <2>2. \A e \in EC!Chans, d \in EC!Days : Full(e, d) <=> Full(e, d)'
    BY <1>2 DEF Full
  <2>3. ConvFiles'
    BY <1>2, <2>1, <2>2 DEF ConvInv, ConvFiles
  <2>4. ConvWorker(w)'
    <3>1. \A d \in EC!Days : (\A i \in EC!KeptOn(Head(chC), d) : i <= 0) => Full(Head(chC), d)
      <4>1. SUFFICES ASSUME NEW d \in EC!Days, \A i \in EC!KeptOn(Head(chC), d) : i <= 0
                     PROVE  Full(Head(chC), d)
        OBVIOUS
      <4>2. EC!KeptOn(Head(chC), d) = {}
        BY <4>1 DEF EC!KeptOn
      <4>3. EC!InOrder(<<>>, Head(chC), {})
        <5>1. <<>> \in Seq(EC!Msgs)
          OBVIOUS
        <5> QED
          BY <5>1, NothingInOrder
      <4> QED
        BY <1>1, <2>1, <4>2, <4>3 DEF ConvInv, ConvFiles, Full
    <3>2. EC!InOrder(<<>>, Head(chC), Upto(Head(chC), EC!NoDay, 0))
      <4>1. Upto(Head(chC), EC!NoDay, 0) = {}
        BY DEF Upto, EC!KeptOn
      <4>2. <<>> \in Seq(EC!Msgs)
        OBVIOUS
      <4> QED
        BY <4>1, <4>2, NothingInOrder
    <3>3. SUFFICES ASSUME NEW CONSTANT c \in EC!Chans, c = Head(chC), NEW CONSTANT g, g = worker'[w]
                   PROVE  /\ EC!InOrder(g.mm, c, Upto(c, g.prev, g.at))
                          /\ \A d \in EC!Days : d # g.prev /\ (\A i \in EC!KeptOn(c, d) : i <= g.at) => Full(c, d)'
                          /\ AskedUpto(c, g.at)'
                          /\ g.pc = "append" /\ g.at = 0 /\ g.ch = c
      <4> HIDE DEF EC!Take
      <4>1. worker'[w].ch \in EC!Chans /\ worker'[w].ch = Head(chC)
        BY <1>1, <1>2
      <4> QED
        BY <4>1 DEF ConvWorker
    <3>4. AskedUpto(c, 0)'
      BY ConvForm DEF AskedUpto
    <3> QED
      BY <1>2, <2>2, <3>1, <3>2, <3>3, <3>4
  <2>5. ConvWorkers'
    BY <1>2, <1>4, <2>2, <2>4, OtherWorker DEF ConvWorkers
  <2>6. ConvChannels'
    <3>1. SUFFICES ASSUME NEW CONSTANT c \in EC!Chans
                   PROVE  In(chC, c)' \/ (\E v \in EcWorkers : Busy(v, c)') \/ Done(c)'
      BY DEF ConvChannels
    <3>2. Done(c) => Done(c)'
      BY <2>1, <2>2 DEF Done, AskedUpto
    <3>3. c = Head(chC) => Busy(w, c)'
      BY <1>2 DEF Busy
    <3>4. \A v \in EcWorkers : Busy(v, c) => v # w /\ Busy(v, c)'
      BY <1>2 DEF Busy
    <3>5. In(chC, c) => In(chC, c)' \/ c = Head(chC)
      BY <1>1
    <3> QED
      BY <2>1, <3>2, <3>3, <3>4, <3>5 DEF ConvInv, ConvChannels
  <2> QED
    BY <2>3, <2>5, <2>6
<1>5. ConvWorkers' /\ ConvFiles' /\ ConvChannels'
  BY <1>4 DEF ConvWorkers, ConvFiles, ConvChannels
<1>6. ConvAvatars' /\ ConvEnds'
  <2>1. Trouble => Trouble'
    BY TroubleStays DEF ConvInv
  <2>2. ~Trouble => ~\E v \in EcWorkers : worker[v].pc = "left"
    BY <1>1 DEF ConvInv, ConvEnds
  <2>3. ~Trouble => ~\E v \in EcWorkers : worker'[v].pc = "left"
    BY <1>2, <2>2
  <2>4. index' = "failed" => ecErrC' # <<>> \/ failed'
    BY DEF ConvInv, ConvEnds
  <2> QED
    BY <2>1, <2>3, <2>4, WorkersBeside
<1> QED
  BY <1>3, <1>5, <1>6 DEF ConvInv

\* What a worker may look like.
Shape == [pc : {"recv", "append", "send", "broken", "error", "left"},
           ch : EC!Chans \cup {EC!NoChan}, at : Nat, mm : Seq(EC!Msgs), prev : EC!Days \cup {EC!NoDay}]
Sound(g) ==
  /\ g \in Shape
  /\ g.pc \in {"append", "send", "broken"} => g.ch \in EC!Chans /\ g.at <= Len(EcMessages[g.ch])
  /\ g.pc = "send" => g.at < Len(EcMessages[g.ch])

LEMMA LeaveKept == ASSUME ConvInv, EC!Next, NEW w \in EcWorkers, EC!Leave(w) PROVE ConvInv'
<1> USE DEF EC!Leave, EC!convert, EC!copying, EC!results, EC!caller
<1>1. /\ DOMAIN worker = EcWorkers /\ UNCHANGED <<chC, written>> /\ chC = <<>>
      /\ worker'[w] = [worker[w] EXCEPT !.pc = "left"] /\ worker'[w].pc = "left"
      /\ \A v \in EcWorkers \ {w} : worker'[v] = worker[v]
  BY DEF ConvInv, ConvTypes
<1>2. ConvTypes'
  <2>1. worker' \in [EcWorkers -> [pc : {"recv", "append", "send", "broken", "error", "left"},
          ch : EC!Chans \cup {EC!NoChan}, at : Nat, mm : Seq(EC!Msgs), prev : EC!Days \cup {EC!NoDay}]]
    <3>1. worker \in [EcWorkers -> Shape]
      BY DEF ConvInv, ConvTypes, EC!TypeOK, Shape
    <3>2. [worker[w] EXCEPT !.pc = "left"] \in Shape
      BY <3>1 DEF Shape
    <3>3. worker' = [worker EXCEPT ![w] = [worker[w] EXCEPT !.pc = "left"]]
      OBVIOUS
    <3>4. worker' \in [EcWorkers -> Shape]
      BY <3>1, <3>2, <3>3
    <3> QED
      BY <3>4 DEF Shape
  <2>2. \A v \in EcWorkers :
       /\ worker'[v].pc \in {"append", "send", "broken"} =>
            worker'[v].ch \in EC!Chans /\ worker'[v].at <= Len(EcMessages[worker'[v].ch])
       /\ worker'[v].pc = "send" => worker'[v].at < Len(EcMessages[worker'[v].ch])
    BY <1>1 DEF ConvInv, ConvTypes
  <2>3. \A v \in EcWorkers : worker'[v].pc \in {"recv", "append", "send", "broken", "error", "left"}
    BY <2>1
  <2> QED
    BY <2>1, <2>2, <2>3 DEF ConvInv, ConvTypes, EC!TypeOK
<1>3. ~Trouble' => ~Trouble
  BY TroubleStays DEF ConvInv
<1>4. \A e \in EC!Chans, d \in EC!Days : Full(e, d) <=> Full(e, d)'
  BY <1>1 DEF Full
<1>5. ConvFiles'
  BY <1>1, <1>3, <1>4 DEF ConvInv, ConvFiles
<1>6. ConvWorkers'
  <2>1. ConvWorker(w)'
    BY <1>1 DEF ConvWorker
  <2> QED
    BY <1>1, <1>4, <2>1, OtherWorker DEF ConvWorkers
<1>7. ConvChannels'
  <2>1. \A c \in EC!Chans : ~Busy(w, c)
    BY DEF Busy
  <2> QED
    BY <1>4, <2>1, OtherChannels
<1>8. ConvAvatars' /\ ConvEnds'
  <2>1. index' = "failed" => ecErrC' # <<>> \/ failed'
    BY DEF ConvInv, ConvEnds
  <2> QED
    BY <1>1, <2>1, WorkersBeside
<1> QED
  BY <1>2, <1>5, <1>6, <1>7, <1>8 DEF ConvInv

LEMMA WorkerTypes ==
  ASSUME ConvTypes, NEW w \in EcWorkers, NEW CONSTANT g, Sound(g), worker' = [worker EXCEPT ![w] = g]
  PROVE  /\ worker' \in [EcWorkers -> Shape] /\ worker'[w] = g
         /\ \A v \in EcWorkers \ {w} : worker'[v] = worker[v]
         /\ \A v \in EcWorkers : worker'[v].pc \in {"recv", "append", "send", "broken", "error", "left"}
         /\ \A v \in EcWorkers :
              /\ worker'[v].pc \in {"append", "send", "broken"} =>
                   worker'[v].ch \in EC!Chans /\ worker'[v].at <= Len(EcMessages[worker'[v].ch])
              /\ worker'[v].pc = "send" => worker'[v].at < Len(EcMessages[worker'[v].ch])
<1>1. worker \in [EcWorkers -> Shape]
  BY DEF ConvTypes, Shape
<1>2. /\ worker' \in [EcWorkers -> Shape] /\ worker'[w] = g
      /\ \A v \in EcWorkers \ {w} : worker'[v] = worker[v]
  BY <1>1 DEF Sound
<1>3. \A v \in EcWorkers : worker'[v].pc \in {"recv", "append", "send", "broken", "error", "left"}
  BY <1>2 DEF Shape
<1>4. \A v \in EcWorkers :
        /\ worker'[v].pc \in {"append", "send", "broken"} =>
             worker'[v].ch \in EC!Chans /\ worker'[v].at <= Len(EcMessages[worker'[v].ch])
        /\ worker'[v].pc = "send" => worker'[v].at < Len(EcMessages[worker'[v].ch])
  BY <1>2 DEF Sound, ConvTypes
<1> QED
  BY <1>2, <1>3, <1>4

\* A step of a worker that has a channel.
LEMMA WorkerMoves ==
  ASSUME ConvInv, EC!Next, NEW w \in EcWorkers, NEW CONSTANT g, worker' = [worker EXCEPT ![w] = g],
         chC' = chC,
         ~Trouble' =>
           /\ \A e \in EC!Chans, d \in EC!Days : Full(e, d) => Full(e, d)'
           /\ \A e \in EC!Chans, d \in EC!Days : written'[<<e, d>>] = <<>> \/ Full(e, d)'
           /\ ConvWorker(w)'
           /\ \A c \in EC!Chans : Busy(w, c) => Busy(w, c)' \/ Done(c)'
  PROVE  ConvWorkers' /\ ConvFiles' /\ ConvChannels'
<1> SUFFICES ASSUME ~Trouble' PROVE ConvWorkers' /\ ConvFiles' /\ ConvChannels'
  BY DEF ConvWorkers, ConvFiles, ConvChannels
<1>1. ConvFiles'
  BY DEF ConvFiles
<1>2. \A v \in EcWorkers \ {w} : worker'[v] = worker[v]
  BY DEF ConvInv, ConvTypes
<1>3. ConvWorkers'
  BY <1>2, OtherWorker DEF ConvWorkers
<1>4. ConvChannels'
  BY OtherChannels
<1> QED
  BY <1>1, <1>3, <1>4

LEMMA AppendKept == ASSUME ConvInv, EC!Next, NEW w \in EcWorkers, EC!Append1(w) PROVE ConvInv'
<1> DEFINE f == worker[w]
           m == EC!Next1(w)
           fresh == EcDay[m] # f.prev
<1> SUFFICES ASSUME NEW CONSTANT c, c = f.ch, NEW CONSTANT n, n = f.at, NEW CONSTANT d0, d0 = EcDay[m],
                    NEW CONSTANT g, worker' = [worker EXCEPT ![w] = g],
                    NEW CONSTANT mm, mm = (IF fresh THEN <<>> ELSE f.mm)
             PROVE  ConvInv'
  <2>1. \E g : worker' = [worker EXCEPT ![w] = g]
    BY DEF EC!Append1
  <2> QED
    BY <2>1
<1>1. /\ c \in EC!Chans /\ n \in Nat /\ n + 1 \in 1..Len(EcMessages[c]) /\ m = EcMessages[c][n + 1]
      /\ n < Len(EcMessages[c]) /\ d0 \in EC!Days /\ f \in Shape /\ f.pc = "append" /\ f.mm \in Seq(EC!Msgs)
      /\ DOMAIN worker = EcWorkers
  <2>1. c \in EC!Chans /\ n \in Nat /\ n < Len(EcMessages[c]) /\ f.pc = "append" /\ m = EcMessages[c][n + 1]
    BY DEF EC!Append1, EC!HasNext, EC!Next1, ConvInv, ConvTypes
  <2>2. Len(EcMessages[c]) \in Nat
    BY <2>1, ConvForm
  <2>3. n + 1 \in 1..Len(EcMessages[c])
    BY <2>1, <2>2
  <2>4. d0 \in EC!Days
    BY <2>1, <2>3, ConvForm
  <2> QED
    BY <2>1, <2>3, <2>4 DEF ConvInv, ConvTypes, Shape
<1>2. /\ UNCHANGED <<chC, index, request, requestOpen, copier, avatar, copied, result, resultOpen, forward>>
      /\ UNCHANGED <<merged, hand, panicked, ecErrC, errOpen, failed, status, ecCancelled>>
  BY DEF EC!Append1, EC!copying, EC!results, EC!caller
<1>3. /\ g \in Shape /\ g.ch = c
      /\ \/ /\ EcThread[m] # "broken" /\ erred' = erred /\ g.mm = mm /\ g.prev = d0
            /\ \/ EcThread[m] = "missing" /\ g.pc = "append" /\ g.at = n + 1
               \/ EcThread[m] # "missing" /\ g.pc = "send" /\ g.at = n
            /\ IF fresh THEN EC!Flush(w) ELSE UNCHANGED written
         \/ /\ g.pc = "broken" /\ g.at = n /\ erred' = erred \cup {c}
            /\ EC!Flush(w) \/ UNCHANGED written
  <2> DEFINE h == IF fresh THEN [f EXCEPT !.mm = <<>>, !.prev = d0] ELSE f
  <2>1. /\ h \in Shape /\ h.ch = c /\ h.at = n /\ h.mm = mm /\ h.prev = d0 /\ h.pc = "append"
    <3>1. CASE fresh
      <4>1. h = [f EXCEPT !.mm = <<>>, !.prev = d0] /\ mm = <<>> /\ <<>> \in Seq(EC!Msgs)
        BY <3>1
      <4> HIDE DEF h, f, m, fresh
      <4>2. f \in Shape /\ f.ch = c /\ f.at = n /\ f.pc = "append"
        BY <1>1 DEF f
      <4> QED
        BY <1>1, <4>1, <4>2 DEF Shape
    <3>2. CASE ~fresh
      BY <1>1, <3>2 DEF Shape
    <3> QED
      BY <3>1, <3>2
  <2>2. worker'[w] = g
    BY <1>1
  <2>3. \/ /\ EcThread[m] # "broken" /\ erred' = erred
           /\ g = IF EcThread[m] = "missing" THEN [h EXCEPT !.at = @ + 1] ELSE [h EXCEPT !.pc = "send"]
           /\ IF fresh THEN EC!Flush(w) ELSE UNCHANGED written
        \/ /\ g = [f EXCEPT !.pc = "broken"] /\ erred' = erred \cup {c} /\ UNCHANGED written
        \/ /\ g = [h EXCEPT !.pc = "broken"] /\ erred' = erred \cup {c}
           /\ EC!Flush(w) \/ UNCHANGED written
    BY <1>1, <2>2 DEF EC!Append1
  <2> HIDE DEF h
  <2>4. CASE EcThread[m] = "missing" /\ g = [h EXCEPT !.at = @ + 1]
    <3> HIDE DEF f, m, fresh
    <3>1. n + 1 \in Nat /\ n \in Nat
      BY <1>1
    <3>2. g \in Shape /\ g.ch = c /\ g.mm = mm /\ g.prev = d0 /\ g.pc = "append" /\ g.at = n + 1
      BY <2>1, <2>4, <3>1 DEF Shape
    <3>3. /\ erred' = erred
          /\ IF fresh THEN EC!Flush(w) ELSE UNCHANGED written
      <4>1. f \in Shape
        BY <1>1
      <4>2. g # [f EXCEPT !.pc = "broken"]
        BY <3>2, <4>1 DEF Shape
      <4>3. g # [h EXCEPT !.pc = "broken"]
        BY <3>2, <2>1 DEF Shape
      <4> QED
        BY <2>3, <4>2, <4>3, Zenon
    <3> QED
      BY <2>4, <3>2, <3>3
  <2>5. CASE EcThread[m] # "missing" /\ g = [h EXCEPT !.pc = "send"]
    BY <1>1, <2>1, <2>3, <2>5 DEF Shape
  <2>6. CASE g = [f EXCEPT !.pc = "broken"] /\ erred' = erred \cup {c} /\ UNCHANGED written
    BY <1>1, <2>6 DEF Shape
  <2>7. CASE g = [h EXCEPT !.pc = "broken"] /\ erred' = erred \cup {c} /\ (EC!Flush(w) \/ UNCHANGED written)
    BY <2>1, <2>7 DEF Shape
  <2> QED
    BY <2>3, <2>4, <2>5, <2>6, <2>7
<1> HIDE DEF f, m, fresh
<1>4. Sound(g)
  BY <1>1, <1>3 DEF Sound
<1>5. ConvTypes'
  <2>1. written' \in [EC!Chans \X EC!Days -> Seq(EC!Msgs)]
    BY <1>1, <1>3 DEF ConvInv, ConvTypes, EC!Flush, f
  <2>2. erred' \subseteq EC!Chans
    BY <1>1, <1>3 DEF ConvInv, ConvTypes, EC!TypeOK
  <2> QED
    BY <1>2, <1>4, <2>1, <2>2, WorkerTypes DEF ConvInv, ConvTypes, EC!TypeOK, Shape
<1>6. worker'[w] = g
  BY <1>1
<1>7. ASSUME ~Trouble'
      PROVE  /\ \A e \in EC!Chans, d \in EC!Days : Full(e, d) => Full(e, d)'
             /\ \A e \in EC!Chans, d \in EC!Days : written'[<<e, d>>] = <<>> \/ Full(e, d)'
             /\ ConvWorker(w)'
             /\ \A e \in EC!Chans : Busy(w, e) => Busy(w, e)' \/ Done(e)'
  <2>1. g.pc # "broken"
    BY <1>6, <1>7 DEF Trouble
  <2>2. ~Trouble /\ \A x : Asked(x) => Asked(x)'
    BY <1>7, TroubleStays, AskedStays DEF ConvInv
  <2>3. /\ EC!InOrder(f.mm, c, Upto(c, f.prev, n)) /\ AskedUpto(c, n)
        /\ \A d \in EC!Days : d # f.prev /\ (\A i \in EC!KeptOn(c, d) : i <= n) => Full(c, d)
    BY <1>1, <2>2 DEF ConvInv, ConvWorkers, ConvWorker, f
  <2>4. /\ \A e \in EC!Chans, d \in EC!Days : Full(e, d) => Full(e, d)'
        /\ \A e \in EC!Chans, d \in EC!Days : written'[<<e, d>>] = <<>> \/ Full(e, d)'
        /\ fresh => \A d \in EC!Days : (\A i \in EC!KeptOn(c, d) : i <= n) => Full(c, d)'
    <3>1. CASE fresh
      BY <1>1, <1>3, <2>1, <2>2, <3>1, Flushed DEF f, m, fresh
    <3>2. CASE ~fresh
      BY <1>3, <2>1, <2>2, <3>2 DEF Full, ConvInv, ConvFiles
    <3> QED
      BY <3>1, <3>2
  <2>5. EC!InOrder(mm, c, Upto(c, d0, n))
    <3>1. CASE fresh
      <4>1. Upto(c, d0, n) = {} /\ mm = <<>>
        BY <1>1, <2>2, <3>1, NewDay DEF f, m, fresh, EC!HasNext
      <4>2. <<>> \in Seq(EC!Msgs)
        OBVIOUS
      <4> QED
        BY <4>1, <4>2, NothingInOrder
    <3>2. CASE ~fresh
      BY <2>3, <3>2 DEF fresh, m
    <3> QED
      BY <3>1, <3>2
  <2>6. EC!InOrder(g.mm, c, Upto(c, g.prev, g.at))
    <3>1. EcThread[m] = "missing" => n + 1 \notin EC!KeptOn(c, d0)
      BY <1>1 DEF EC!KeptOn
    <3> QED
      BY <1>1, <1>3, <2>1, <2>5, <3>1, SameUpto
  <2>7. ASSUME NEW d \in EC!Days, d # g.prev, \A i \in EC!KeptOn(c, d) : i <= g.at PROVE Full(c, d)'
    <3>1. n + 1 \notin EC!KeptOn(c, d) /\ d # d0
      BY <1>1, <1>3, <2>1, <2>7 DEF EC!KeptOn, m
    <3>2. \A i \in EC!KeptOn(c, d) : i <= n
      <4>1. g.at = n \/ g.at = n + 1
        BY <1>3, <2>1
      <4>2. \A i \in EC!KeptOn(c, d) : i \in Nat /\ i <= g.at /\ i # n + 1
        BY <2>7, <3>1 DEF EC!KeptOn
      <4> QED
        BY <1>1, <4>1, <4>2
    <3>3. CASE fresh
      BY <2>4, <3>2, <3>3
    <3>4. CASE ~fresh
      BY <1>1, <2>3, <2>4, <3>1, <3>2, <3>4 DEF fresh, m
    <3> QED
      BY <3>3, <3>4
  <2>8. AskedUpto(c, g.at)'
    <3>1. EcThread[m] = "missing" \/ g.at = n
      BY <1>3, <2>1
    <3>2. \A i \in 1..Len(EcMessages[c]) : i <= g.at /\ EcThread[EcMessages[c][i]] # "missing" => i <= n
      <4>1. Len(EcMessages[c]) \in Nat /\ (g.at = n \/ g.at = n + 1)
        BY <1>1, <1>3, <2>1, ConvForm
      <4> QED
        BY <1>1, <3>1, <4>1
    <3> QED
      BY <2>2, <2>3, <3>2 DEF AskedUpto
  <2>9. /\ g.pc = "append" => g.prev = EcDay[EcMessages[c][g.at]]
        /\ g.pc = "send" => g.prev = EcDay[EcMessages[c][g.at + 1]] /\ EcThread[EcMessages[c][g.at + 1]] # "missing"
    BY <1>1, <1>3, <2>1 DEF m
  <2>10. ConvWorker(w)'
    <3>1. worker'[w].ch = c /\ EC!Next1(w)' = EcMessages[c][g.at + 1]
      BY <1>3, <1>6 DEF EC!Next1
    <3> QED
      BY <1>1, <1>6, <2>6, <2>7, <2>8, <2>9, <3>1 DEF ConvWorker
  <2>11. \A e \in EC!Chans : Busy(w, e) => Busy(w, e)'
    BY <1>1, <1>3, <1>6, <2>1 DEF Busy, f
  <2> QED
    BY <2>4, <2>10, <2>11
<1>8. ConvWorkers' /\ ConvFiles' /\ ConvChannels'
  BY <1>2, <1>7, WorkerMoves
<1>9. ConvAvatars' /\ ConvEnds'
  <2>1. index' = "failed" => ecErrC' # <<>> \/ failed'
    BY <1>2 DEF ConvInv, ConvEnds
  <2>2. ~Trouble' /\ (\E v \in EcWorkers : worker'[v].pc = "left") => chC' = <<>>
    <3>1. \A v \in EcWorkers : worker'[v].pc = "left" => worker[v].pc = "left"
      BY <1>1, <1>3
    <3> QED
      BY <1>2, <3>1, TroubleStays DEF ConvInv, ConvEnds
  <2> QED
    BY <1>1, <1>2, <2>1, <2>2, WorkersBeside DEF f
<1> QED
  BY <1>5, <1>8, <1>9 DEF ConvInv

LEMMA SendKept == ASSUME ConvInv, EC!Next, NEW w \in EcWorkers, EC!Send(w) PROVE ConvInv'
<1> DEFINE f == worker[w]
           m == EC!Next1(w)
<1> SUFFICES ASSUME NEW CONSTANT c, c = f.ch, NEW CONSTANT n, n = f.at, NEW CONSTANT d0, d0 = f.prev,
                    NEW CONSTANT mm, mm = Append(f.mm, EcMessages[c][n + 1]),
                    NEW CONSTANT g, g = [f EXCEPT !.pc = "append", !.at = n + 1, !.mm = mm],
                    worker' = [worker EXCEPT ![w] = g]
             PROVE  ConvInv'
  <2>1. worker' = [worker EXCEPT ![w] =
          [worker[w] EXCEPT !.pc = "append", !.at = worker[w].at + 1, !.mm = Append(worker[w].mm, EC!Next1(w))]]
    <3>1. worker[w] \in Shape /\ worker \in [EcWorkers -> Shape]
      BY DEF ConvInv, ConvTypes, Shape
    <3>2. worker' = [worker EXCEPT ![w].pc = "append", ![w].at = @ + 1, ![w].mm = Append(@, EC!Next1(w))]
      BY DEF EC!Send
    <3> QED
      BY <3>1, <3>2 DEF Shape
  <2> QED
    BY <2>1 DEF EC!Next1
<1>1. /\ c \in EC!Chans /\ n \in Nat /\ n + 1 \in 1..Len(EcMessages[c]) /\ m = EcMessages[c][n + 1]
      /\ m \in EC!Msgs /\ f \in Shape /\ f.pc = "send" /\ f.mm \in Seq(EC!Msgs) /\ mm \in Seq(EC!Msgs)
      /\ DOMAIN worker = EcWorkers
  <2>1. c \in EC!Chans /\ n \in Nat /\ n < Len(EcMessages[c]) /\ f.pc = "send" /\ m = EcMessages[c][n + 1]
    BY DEF EC!Send, EC!Next1, ConvInv, ConvTypes
  <2>2. n + 1 \in 1..Len(EcMessages[c])
    BY <2>1, ConvForm
  <2>3. m \in EC!Msgs /\ f.mm \in Seq(EC!Msgs)
    BY <2>1, <2>2, ConvForm DEF ConvInv, ConvTypes
  <2>4. mm \in Seq(EC!Msgs)
    BY <2>1, <2>3, InAppend
  <2> QED
    BY <2>1, <2>2, <2>3, <2>4 DEF ConvInv, ConvTypes, Shape
<1>2. /\ UNCHANGED <<chC, index, written, erred, requestOpen, copier, avatar, copied, result, resultOpen, forward>>
      /\ UNCHANGED <<merged, hand, panicked, ecErrC, errOpen, failed, status, ecCancelled>>
      /\ request = <<>> /\ request' = <<m>>
  BY DEF EC!Send, EC!results, EC!caller
<1> HIDE DEF f, m
<1>3. /\ g.pc = "append" /\ g.ch = c /\ g.at = n + 1 /\ g.mm = mm /\ g.prev = d0 /\ g \in Shape
      /\ worker'[w] = g
  <2>1. worker'[w] = g
    BY <1>1
  <2>2. f \in Shape /\ f.ch = c /\ f.prev = d0 /\ n + 1 \in Nat
    BY <1>1 DEF f
  <2> HIDE DEF f
  <2>3. g \in Shape
    BY <1>1, <2>2 DEF Shape
  <2>4. g.pc = "append" /\ g.ch = c /\ g.at = n + 1 /\ g.mm = mm /\ g.prev = d0
    BY <2>2 DEF Shape
  <2> QED
    BY <2>1, <2>3, <2>4
<1>4. Sound(g)
  BY <1>1, <1>3 DEF Sound
<1>5. ConvTypes'
  BY <1>1, <1>2, <1>4, WorkerTypes DEF ConvInv, ConvTypes, EC!TypeOK, Shape
<1>6. ASSUME ~Trouble'
      PROVE  /\ \A e \in EC!Chans, d \in EC!Days : Full(e, d) => Full(e, d)'
             /\ \A e \in EC!Chans, d \in EC!Days : written'[<<e, d>>] = <<>> \/ Full(e, d)'
             /\ ConvWorker(w)'
             /\ \A e \in EC!Chans : Busy(w, e) => Busy(w, e)' \/ Done(e)'
  <2>1. ~Trouble /\ \A x : Asked(x) => Asked(x)'
    BY <1>6, TroubleStays, AskedStays DEF ConvInv
  <2>2. /\ EC!InOrder(f.mm, c, Upto(c, d0, n)) /\ AskedUpto(c, n)
        /\ \A d \in EC!Days : d # d0 /\ (\A i \in EC!KeptOn(c, d) : i <= n) => Full(c, d)
        /\ d0 = EcDay[m] /\ EcThread[m] # "missing"
    BY <1>1, <2>1 DEF ConvInv, ConvWorkers, ConvWorker, f, m
  <2>3. /\ \A e \in EC!Chans, d \in EC!Days : Full(e, d) <=> Full(e, d)'
        /\ \A e \in EC!Chans, d \in EC!Days : written'[<<e, d>>] = <<>> \/ Full(e, d)'
    BY <1>2, <2>1 DEF Full, ConvInv, ConvFiles
  <2>4. EC!InOrder(mm, c, Upto(c, d0, n + 1))
    <3>1. n + 1 \in EC!KeptOn(c, d0)
      BY <1>1, <2>2 DEF EC!KeptOn
    <3> QED
      BY <1>1, <2>2, <3>1, NextInOrder DEF f
  <2>5. ASSUME NEW d \in EC!Days, d # d0, \A i \in EC!KeptOn(c, d) : i <= n + 1 PROVE Full(c, d)'
    <3>1. n + 1 \notin EC!KeptOn(c, d)
      BY <1>1, <2>2, <2>5 DEF EC!KeptOn
    <3>2. \A i \in EC!KeptOn(c, d) : i \in Nat /\ i <= n + 1 /\ i # n + 1
      BY <2>5, <3>1 DEF EC!KeptOn
    <3>3. \A i \in EC!KeptOn(c, d) : i <= n
      BY <1>1, <3>2
    <3> QED
      BY <1>1, <2>2, <2>3, <2>5, <3>3
  <2>6. AskedUpto(c, n + 1)'
    <3>1. \A i \in 1..Len(EcMessages[c]) : i <= n + 1 => i <= n \/ i = n + 1
      BY <1>1, ConvForm
    <3>2. \A x : x = m => Asked(x)'
      BY <1>2 DEF Asked
    <3> QED
      BY <1>1, <2>1, <2>2, <3>1, <3>2 DEF AskedUpto
  <2>7. d0 = EcDay[EcMessages[c][n + 1]]
    BY <1>1, <2>2
  <2>8. ConvWorker(w)'
    BY <1>1, <1>3, <2>4, <2>5, <2>6, <2>7 DEF ConvWorker
  <2>9. \A e \in EC!Chans : Busy(w, e) => Busy(w, e)'
    BY <1>1, <1>3 DEF Busy, f
  <2> QED
    BY <2>3, <2>8, <2>9
<1>7. ConvWorkers' /\ ConvFiles' /\ ConvChannels'
  BY <1>2, <1>6, WorkerMoves
<1>8. ConvAvatars' /\ ConvEnds'
  <2>1. index' = "failed" => ecErrC' # <<>> \/ failed'
    BY <1>2 DEF ConvInv, ConvEnds
  <2>2. ~Trouble' /\ (\E v \in EcWorkers : worker'[v].pc = "left") => chC' = <<>>
    <3>1. \A v \in EcWorkers : worker'[v].pc = "left" => worker[v].pc = "left"
      BY <1>1, <1>3
    <3> QED
      BY <1>2, <3>1, TroubleStays DEF ConvInv, ConvEnds
  <2> QED
    BY <1>1, <1>2, <2>1, <2>2, WorkersBeside DEF f
<1> QED
  BY <1>5, <1>7, <1>8 DEF ConvInv

LEMMA WriteLastKept == ASSUME ConvInv, EC!Next, NEW w \in EcWorkers, EC!WriteLast(w) PROVE ConvInv'
<1> DEFINE f == worker[w]
<1> SUFFICES ASSUME NEW CONSTANT c, c = f.ch, NEW CONSTANT n, n = f.at,
                    NEW CONSTANT g, worker' = [worker EXCEPT ![w] = g]
             PROVE  ConvInv'
  <2>1. \E g : worker' = [worker EXCEPT ![w] = g]
    BY DEF EC!WriteLast
  <2> QED
    BY <2>1
<1>1. /\ c \in EC!Chans /\ n \in Nat /\ n <= Len(EcMessages[c]) /\ f \in Shape /\ f.pc \in {"append", "broken"}
      /\ DOMAIN worker = EcWorkers /\ worker'[w] = g /\ f.mm \in Seq(EC!Msgs)
      /\ f.pc = "append" => ~EC!HasNext(w)
  BY DEF EC!WriteLast, ConvInv, ConvTypes, Shape
<1>2. /\ UNCHANGED <<chC, index, request, requestOpen, copier, avatar, copied, result, resultOpen, forward>>
      /\ UNCHANGED <<merged, hand, panicked, ecErrC, errOpen, failed, status, ecCancelled>>
  BY DEF EC!WriteLast, EC!copying, EC!results, EC!caller
<1>3. /\ g.pc \in {"recv", "error"} /\ g \in Shape
      /\ \/ EC!Flush(w) /\ erred' = erred /\ (g.pc = "error" \/ f.pc = "append")
         \/ g.pc = "error" /\ erred' = erred \cup {c} /\ written' = written
  <2>1. EC!Free \in Shape /\ EC!Free.pc = "recv"
    <3>1. <<>> \in Seq(EC!Msgs)
      OBVIOUS
    <3> QED
      BY <3>1 DEF EC!Free, Shape
  <2>2. [f EXCEPT !.pc = "error"] \in Shape /\ [f EXCEPT !.pc = "error"].pc = "error"
    BY <1>1 DEF Shape
  <2>3. \/ EC!Flush(w) /\ g = (IF f.pc = "broken" THEN [f EXCEPT !.pc = "error"] ELSE EC!Free) /\ erred' = erred
        \/ g = [f EXCEPT !.pc = "error"] /\ erred' = erred \cup {c} /\ written' = written
    BY <1>1 DEF EC!WriteLast
  <2> QED
    BY <1>1, <2>1, <2>2, <2>3
<1> HIDE DEF f
<1>4. Sound(g)
  BY <1>3 DEF Sound
<1>5. ConvTypes'
  <2>1. written' \in [EC!Chans \X EC!Days -> Seq(EC!Msgs)]
    BY <1>1, <1>3 DEF ConvInv, ConvTypes, EC!Flush, f
  <2>2. erred' \subseteq EC!Chans
    BY <1>1, <1>3 DEF ConvInv, ConvTypes, EC!TypeOK
  <2> QED
    BY <1>2, <1>4, <2>1, <2>2, WorkerTypes DEF ConvInv, ConvTypes, EC!TypeOK, Shape
<1>6. ASSUME ~Trouble'
      PROVE  /\ \A e \in EC!Chans, d \in EC!Days : Full(e, d) => Full(e, d)'
             /\ \A e \in EC!Chans, d \in EC!Days : written'[<<e, d>>] = <<>> \/ Full(e, d)'
             /\ ConvWorker(w)'
             /\ \A e \in EC!Chans : Busy(w, e) => Busy(w, e)' \/ Done(e)'
  <2>1. g.pc = "recv" /\ f.pc = "append" /\ EC!Flush(w) /\ n = Len(EcMessages[c])
    <3>1. g.pc # "error"
      BY <1>1, <1>6 DEF Trouble
    <3>2. f.pc = "append" /\ EC!Flush(w)
      BY <1>1, <1>3, <3>1
    <3> QED
      BY <1>1, <1>3, <3>1, <3>2, ConvForm DEF EC!HasNext, f
  <2>2. ~Trouble /\ \A x : Asked(x) => Asked(x)'
    BY <1>6, TroubleStays, AskedStays DEF ConvInv
  <2>3. /\ \A e \in EC!Chans, d \in EC!Days : Full(e, d) => Full(e, d)'
        /\ \A e \in EC!Chans, d \in EC!Days : written'[<<e, d>>] = <<>> \/ Full(e, d)'
        /\ \A d \in EC!Days : (\A i \in EC!KeptOn(c, d) : i <= n) => Full(c, d)'
    BY <1>1, <2>1, <2>2, Flushed DEF f
  <2>4. Done(c)'
    <3>1. \A d \in EC!Days : \A i \in EC!KeptOn(c, d) : i <= n
      BY <1>1, <2>1, ConvForm DEF EC!KeptOn
    <3>2. AskedUpto(c, n)
      BY <1>1, <2>1, <2>2 DEF ConvInv, ConvWorkers, ConvWorker, f
    <3>3. AskedUpto(c, n)'
      BY <2>2, <3>2 DEF AskedUpto
    <3> QED
      BY <2>1, <2>3, <3>1, <3>3 DEF Done
  <2>5. ConvWorker(w)'
    BY <1>1, <2>1 DEF ConvWorker
  <2>6. \A e \in EC!Chans : Busy(w, e) => Done(e)'
    BY <1>1, <2>4 DEF Busy, f
  <2> QED
    BY <2>3, <2>5, <2>6
<1>7. ConvWorkers' /\ ConvFiles' /\ ConvChannels'
  BY <1>2, <1>6, WorkerMoves
<1>8. ConvAvatars' /\ ConvEnds'
  <2>1. index' = "failed" => ecErrC' # <<>> \/ failed'
    BY <1>2 DEF ConvInv, ConvEnds
  <2>2. ~Trouble' /\ (\E v \in EcWorkers : worker'[v].pc = "left") => chC' = <<>>
    <3>1. \A v \in EcWorkers : worker'[v].pc = "left" => worker[v].pc = "left"
      BY <1>1, <1>3
    <3> QED
      BY <1>2, <3>1, TroubleStays DEF ConvInv, ConvEnds
  <2> QED
    BY <1>1, <1>2, <2>1, <2>2, WorkersBeside DEF f
<1> QED
  BY <1>5, <1>7, <1>8 DEF ConvInv

LEMMA WorkerErrorKept == ASSUME ConvInv, EC!Next, NEW w \in EcWorkers, EC!WorkerError(w) PROVE ConvInv'
<1> SUFFICES ASSUME NEW CONSTANT g, g = [worker[w] EXCEPT !.pc = "left"], worker' = [worker EXCEPT ![w] = g]
             PROVE  ConvInv'
  BY DEF EC!WorkerError
<1>1. /\ UNCHANGED <<chC, index, written, erred, request, requestOpen, copier, avatar, copied, result>>
      /\ UNCHANGED <<resultOpen, forward, merged, hand, panicked, errOpen, failed, status, ecCancelled>>
      /\ worker[w].pc = "error" /\ Len(ecErrC) < Cardinality(EcWorkers)
      /\ ecErrC' = Append(ecErrC, "worker")
  BY SameCardinality DEF EC!WorkerError, EC!copying, EC!results, EC!caller
<1>2. worker[w] \in Shape /\ g \in Shape /\ g.pc = "left"
  BY <1>1 DEF ConvInv, ConvTypes, Shape
<1>3. /\ ecErrC \in Seq({"worker", "index", "result"}) /\ ecErrC' \in Seq({"worker", "index", "result"})
      /\ Len(ecErrC') <= Cardinality(EcWorkers) /\ ecErrC' # <<>>
  <2>1. ecErrC \in Seq({"worker", "index", "result"})
    BY DEF ConvInv, ConvTypes
  <2>2. ecErrC' \in Seq({"worker", "index", "result"}) /\ ecErrC' # <<>> /\ Len(ecErrC') = Len(ecErrC) + 1
    BY <1>1, <2>1
  <2> QED
    BY <1>1, <2>1, <2>2, ConvForm
<1>4. ConvTypes'
  <2>1. Sound(g)
    BY <1>2 DEF Sound
  <2> QED
    BY <1>1, <1>3, <2>1, WorkerTypes, SameCardinality DEF ConvInv, ConvTypes, EC!TypeOK, Shape
<1>5. Trouble'
  BY <1>3 DEF Trouble
<1>6. ConvWorkers' /\ ConvFiles' /\ ConvChannels'
  BY <1>5 DEF ConvWorkers, ConvFiles, ConvChannels
<1>7. ConvAvatars' /\ ConvEnds'
  BY <1>1, <1>3, <1>5, WorkersBeside
<1> QED
  BY <1>4, <1>6, <1>7 DEF ConvInv

-----------------------------------------------------------------------------
(* The index, the files, the results and the caller.                       *)

LEMMA BoundedErrors ==
  ASSUME ConvTypes, NEW e \in {"worker", "index", "result"}, Len(ecErrC) < Cardinality(EcWorkers)
  PROVE  /\ Append(ecErrC, e) \in Seq({"worker", "index", "result"}) /\ Append(ecErrC, e) # <<>>
         /\ Len(Append(ecErrC, e)) <= Cardinality(EcWorkers)
<1>1. ecErrC \in Seq({"worker", "index", "result"})
  BY DEF ConvTypes
<1>2. /\ Append(ecErrC, e) \in Seq({"worker", "index", "result"})
      /\ Len(Append(ecErrC, e)) = Len(ecErrC) + 1 /\ Len(ecErrC) \in Nat
  BY <1>1
<1>3. Append(ecErrC, e) # <<>>
  BY <1>1, InAppend
<1> QED
  BY <1>2, <1>3, ConvForm

LEMMA IndexKept == ASSUME ConvInv, EC!Next, EC!WriteIndexStep PROVE ConvInv'
<1> USE DEF EC!WriteIndexStep, EC!WriteIndex, EC!copying, EC!results, EC!caller
<1>1. \/ index' \in {"written", "error"} /\ UNCHANGED ecErrC /\ index = "writing"
      \/ /\ index = "error" /\ index' = "failed" /\ ecErrC' = Append(ecErrC, "index")
         /\ Len(ecErrC) < Cardinality(EcWorkers)
  BY SameCardinality
<1>2. ConvTypes'
  BY <1>1, BoundedErrors, SameCardinality DEF ConvInv, ConvTypes, EC!TypeOK
<1>3. ConvAvatars'
  BY ErrorStays DEF ConvInv, ConvAvatars
<1>4. ConvEnds'
  <2>1. requestOpen
    BY <1>1 DEF ConvInv, ConvEnds, EC!ConvertersDone
  <2>2. index' = "failed" => ecErrC' # <<>>
    BY <1>1, BoundedErrors DEF ConvInv
  <2>3. errOpen
    BY <2>1 DEF ConvInv, ConvEnds
  <2> QED
    BY <2>1, <2>2, <2>3, TroubleStays DEF ConvInv, ConvEnds
<1> QED
  BY <1>2, <1>3, <1>4, WorkStays DEF ConvInv

LEMMA CopyKept == ASSUME ConvInv, EC!Next, EC!Copy PROVE ConvInv'
<1> USE DEF EC!Copy, EC!convert, EC!results, EC!caller
<1>1. PICK m \in EC!Msgs : request = <<m>>
  BY DEF ConvInv, ConvTypes
<1>2. Head(request) = m
  BY <1>1
<1>3. ConvTypes'
  <2>1. copier'.res \in Holds /\ copier'.pc = "send" /\ DOMAIN copier' = {"pc", "res"}
    BY DEF Holds
  <2>2. copied' \subseteq EC!Msgs
    BY <1>1, <1>2 DEF ConvInv, ConvTypes, EC!TypeOK
  <2> QED
    BY <2>1, <2>2 DEF ConvInv, ConvTypes, EC!TypeOK
<1>4. ConvAvatars'
  BY ErrorStays DEF ConvInv, ConvAvatars
<1>5. ConvEnds'
  BY TroubleStays DEF ConvInv, ConvEnds, EC!ConvertersDone
<1> QED
  BY <1>3, <1>4, <1>5, WorkStays DEF ConvInv

LEMMA CopyResultKept == ASSUME ConvInv, EC!Next, EC!CopyResult PROVE ConvInv'
<1> USE DEF EC!CopyResult, EC!convert, EC!caller
<1>1. ConvTypes'
  <2>1. copier'.res = <<>> /\ copier'.pc = "recv" /\ DOMAIN copier' = {"pc", "res"} /\ <<>> \in Holds
    BY DEF Holds
  <2>2. result' \in [EC!Sources -> Holds]
    BY DEF ConvInv, ConvTypes
  <2> QED
    BY <2>1, <2>2 DEF ConvInv, ConvTypes, EC!TypeOK
<1>2. ConvAvatars'
  BY ErrorStays DEF ConvInv, ConvAvatars
<1>3. ConvEnds'
  BY TroubleStays DEF ConvInv, ConvEnds, EC!ConvertersDone
<1> QED
  BY <1>1, <1>2, <1>3, WorkStays DEF ConvInv

LEMMA CopyEndKept == ASSUME ConvInv, EC!Next, EC!CopyEnd PROVE ConvInv'
<1> USE DEF EC!CopyEnd, EC!convert, EC!caller
<1>1. copier'.res = copier.res /\ copier'.pc = "left" /\ DOMAIN copier' = {"pc", "res"} /\ copier.res = <<>>
  BY DEF ConvInv, ConvTypes
<1>2. ConvTypes'
  BY <1>1 DEF ConvInv, ConvTypes, EC!TypeOK
<1>3. ConvAvatars'
  BY ErrorStays DEF ConvInv, ConvAvatars
<1>4. ConvEnds'
  <2>1. resultOpen'["avatars"] = resultOpen["avatars"]
    OBVIOUS
  <2> QED
    BY <1>1, <2>1, TroubleStays DEF ConvInv, ConvEnds, EC!ConvertersDone
<1> QED
  BY <1>2, <1>3, <1>4, WorkStays DEF ConvInv

LEMMA AvatarForm == Len(Avatars) \in Nat /\ \A i \in 1..Len(Avatars) : Avatars[i] \in {"nil", "error"}
BY ConvertAssumption

LEMMA AvatarResultKept == ASSUME ConvInv, EC!Next, EC!AvatarResult PROVE ConvInv'
<1> USE DEF EC!AvatarResult, EC!convert, EC!caller
<1>1. /\ avatar' = avatar + 1 /\ avatar \in Nat /\ avatar' \in 1..Len(Avatars)
      /\ result' = [result EXCEPT !["avatars"] = <<Avatars[avatar']>>]
      /\ <<Avatars[avatar']>> \in Holds
  <2>1. avatar \in 0..Len(Avatars) /\ avatar < Len(Avatars)
    BY DEF ConvInv, ConvTypes
  <2>2. avatar' = avatar + 1 /\ avatar \in Nat /\ avatar' \in 1..Len(Avatars)
    BY <2>1, AvatarForm
  <2>3. Avatars[avatar'] \in {"nil", "error"}
    BY <2>2, AvatarForm
  <2> QED
    BY <2>2, <2>3 DEF Holds
<1>2. ConvTypes'
  <2>1. result' \in [EC!Sources -> Holds]
    BY <1>1 DEF ConvInv, ConvTypes
  <2> QED
    BY <1>1, <2>1 DEF ConvInv, ConvTypes, EC!TypeOK
<1>3. ConvAvatars'
  <2>1. Avatars[avatar'] = "error" => ErrorOnWay'
    <3>1. result'["avatars"] = <<Avatars[avatar']>>
      BY <1>1 DEF ConvInv, ConvTypes, EC!Sources
    <3> QED
      BY <3>1 DEF ErrorOnWay, Failing, EC!Sources
  <2>2. \A i \in 1..Len(Avatars) : i <= avatar' => i <= avatar \/ i = avatar'
    BY <1>1, AvatarForm
  <2> QED
    BY <2>1, <2>2, ErrorStays DEF ConvInv, ConvAvatars
<1>4. ConvEnds'
  BY TroubleStays DEF ConvInv, ConvEnds, EC!ConvertersDone
<1> QED
  BY <1>2, <1>3, <1>4, WorkStays DEF ConvInv

LEMMA AvatarEndKept == ASSUME ConvInv, EC!Next, EC!AvatarEnd PROVE ConvInv'
<1> USE DEF EC!AvatarEnd, EC!convert, EC!copying, EC!caller
<1>1. ConvTypes'
  BY DEF ConvInv, ConvTypes, EC!TypeOK
<1>2. ConvAvatars'
  BY ErrorStays DEF ConvInv, ConvAvatars
<1>3. ConvEnds'
  BY TroubleStays DEF ConvInv, ConvEnds, EC!ConvertersDone
<1> QED
  BY <1>1, <1>2, <1>3, WorkStays DEF ConvInv

LEMMA MergeKept == ASSUME ConvInv, EC!Next, NEW s \in EC!Sources, EC!Merge(s) PROVE ConvInv'
<1> USE DEF EC!Merge, EC!Forward, EC!convert, EC!copying, EC!caller
<1>1. ConvTypes'
  <2>1. result' \in [EC!Sources -> Holds] /\ forward' \in [EC!Sources -> Holds] /\ merged' \in Holds
    BY DEF ConvInv, ConvTypes, Holds
  <2> QED
    BY <2>1 DEF ConvInv, ConvTypes, EC!TypeOK
<1>2. ConvAvatars'
  BY ErrorStays DEF ConvInv, ConvAvatars
<1>3. ConvEnds'
  BY TroubleStays DEF ConvInv, ConvEnds, EC!ConvertersDone
<1> QED
  BY <1>1, <1>2, <1>3, WorkStays DEF ConvInv

LEMMA ResultKept == ASSUME ConvInv, EC!Next, EC!Result PROVE ConvInv'
<1> USE DEF EC!Result, EC!convert, EC!copying, EC!caller
<1>1. \/ UNCHANGED ecErrC
      \/ ecErrC' = Append(ecErrC, "result") /\ Len(ecErrC) < Cardinality(EcWorkers) /\ errOpen
  BY SameCardinality
<1>2. merged' \in Holds /\ hand' \in Holds
  BY DEF ConvInv, ConvTypes, Holds
<1>3. ConvTypes'
  BY <1>1, <1>2, BoundedErrors, SameCardinality DEF ConvInv, ConvTypes, EC!TypeOK
<1>4. ConvAvatars'
  BY ErrorStays DEF ConvInv, ConvAvatars
<1>5. ConvEnds'
  <2>1. ecErrC # <<>> => ecErrC' # <<>>
    BY <1>1, BoundedErrors DEF ConvInv
  <2>2. ~errOpen => ecErrC' = ecErrC
    BY <1>1
  <2> QED
    BY <2>1, <2>2, TroubleStays DEF ConvInv, ConvEnds, EC!ConvertersDone
<1> QED
  BY <1>3, <1>4, <1>5, WorkStays DEF ConvInv

LEMMA ClosingKept ==
  ASSUME ConvInv, EC!Next, EC!CloseRequests \/ EC!CloseErrors \/ EC!Cancel PROVE ConvInv'
<1> USE DEF EC!CloseRequests, EC!CloseErrors, EC!Cancel, EC!convert, EC!copying, EC!results, EC!caller
<1>1. ConvTypes'
  BY DEF ConvInv, ConvTypes, EC!TypeOK
<1>2. ConvAvatars'
  BY ErrorStays DEF ConvInv, ConvAvatars
<1>3. ConvEnds'
  BY TroubleStays DEF ConvInv, ConvEnds, EC!ConvertersDone
<1> QED
  BY <1>1, <1>2, <1>3, WorkStays DEF ConvInv

LEMMA ReadKept == ASSUME ConvInv, EC!Next, EC!Read PROVE ConvInv'
<1> USE DEF EC!Read, EC!convert, EC!copying, EC!results
<1>1. ecErrC \in Seq({"worker", "index", "result"}) /\ Len(ecErrC) <= Cardinality(EcWorkers)
  BY SameCardinality DEF ConvInv, ConvTypes, EC!TypeOK
<1>2. ecErrC # <<>> =>
        /\ Tail(ecErrC) \in Seq({"worker", "index", "result"}) /\ Len(Tail(ecErrC)) <= Cardinality(EcWorkers)
  <2>1. ecErrC # <<>> => Tail(ecErrC) \in Seq({"worker", "index", "result"}) /\ Len(Tail(ecErrC)) = Len(ecErrC) - 1
                          /\ Len(ecErrC) \in Nat
    BY <1>1
  <2> QED
    BY <1>1, <2>1, ConvForm
<1>3. ConvTypes'
  BY <1>1, <1>2, SameCardinality DEF ConvInv, ConvTypes, EC!TypeOK
<1>4. ConvAvatars'
  BY ErrorStays DEF ConvInv, ConvAvatars
<1>5. ConvEnds'
  BY TroubleStays DEF ConvInv, ConvEnds, EC!ConvertersDone
<1> QED
  BY <1>3, <1>4, <1>5, WorkStays DEF ConvInv

LEMMA ConvInitInv == ASSUME EC!Init PROVE ConvInv
<1> USE DEF EC!Init
<1>1. /\ chC = EcChannels /\ worker = [w \in EcWorkers |-> EC!Free] /\ EC!Free \in Shape
      /\ EC!Free.pc = "recv" /\ ecErrC = <<>> /\ failed = FALSE /\ index = "writing"
  <2>1. <<>> \in Seq(EC!Msgs)
    OBVIOUS
  <2> QED
    BY <2>1 DEF EC!Free, Shape
<1>2. ConvTypes
  <2>1. worker \in [EcWorkers -> Shape] /\ \A w \in EcWorkers : worker[w].pc = "recv"
    BY <1>1
  <2>2. written \in [EC!Chans \X EC!Days -> Seq(EC!Msgs)]
    BY DEF EC!Chans, EC!Days
  <2>3. Len(ecErrC) <= Cardinality(EcWorkers) /\ ecErrC \in Seq({"worker", "index", "result"})
    BY <1>1, ConvForm
  <2>4. result \in [EC!Sources -> Holds] /\ forward \in [EC!Sources -> Holds]
    BY DEF Holds
  <2> HIDE DEF EC!Init
  <2>5. /\ request = <<>> /\ requestOpen = TRUE /\ copier = [pc |-> "recv", res |-> <<>>] /\ avatar = 0
        /\ merged = <<>> /\ hand = <<>> /\ copied = {} /\ erred = {} /\ status = "running"
    BY DEF EC!Init
  <2>6. EC!TypeOK
    BY <1>1, <2>1, <2>3, <2>5, SameCardinality DEF EC!TypeOK
  <2>7. /\ request \in {<<>>} \cup {<<m>> : m \in EC!Msgs} /\ requestOpen \in BOOLEAN
        /\ DOMAIN copier = {"pc", "res"} /\ copier.res = <<>> /\ avatar \in 0..Len(Avatars) /\ <<>> \in Holds
    BY <2>5, AvatarForm DEF Holds
  <2>8. chC \in Seq(EC!Chans) /\ failed \in BOOLEAN
    BY <1>1, ConvForm
  <2> QED
    BY <2>1, <2>2, <2>3, <2>4, <2>5, <2>6, <2>7, <2>8 DEF ConvTypes, Shape
<1>3. ConvWorkers /\ ConvAvatars /\ ConvEnds
  BY <1>1, AvatarForm DEF ConvWorkers, ConvWorker, ConvAvatars, ConvEnds, EC!Sources
<1>4. ConvFiles
  BY DEF ConvFiles
<1>5. ConvChannels
  BY <1>1, ConvForm DEF ConvChannels, In, EC!Chans
<1> QED
  BY <1>2, <1>3, <1>4, <1>5 DEF ConvInv

LEMMA ConvStep == ConvInv /\ [EC!Next]_(EC!vars) => ConvInv'
<1>1. ASSUME ConvInv, UNCHANGED EC!vars
      PROVE  ConvInv'
  <2> USE <1>1 DEF ConvInv, EC!vars, EC!convert, EC!copying, EC!results, EC!caller
  <2>1. ConvTypes' /\ ConvAvatars'
    BY DEF ConvTypes, EC!TypeOK, ConvAvatars, ErrorOnWay
  <2>2. ConvWorkers'
    BY DEF ConvWorkers, ConvWorker, Trouble, Full, AskedUpto, Asked, ErrorOnWay, EC!Next1
  <2>3. ConvFiles' /\ ConvChannels' /\ ConvEnds'
    BY DEF ConvFiles, ConvChannels, ConvEnds, Trouble, Full, Done, Busy, AskedUpto, Asked, ErrorOnWay,
           EC!ConvertersDone
  <2> QED
    BY <2>1, <2>2, <2>3
<1> QED
  BY <1>1, TakeKept, LeaveKept, AppendKept, SendKept, WriteLastKept, WorkerErrorKept, IndexKept, CopyKept,
     CopyResultKept, CopyEndKept, AvatarResultKept, AvatarEndKept, MergeKept, ResultKept, ClosingKept, ReadKept
  DEF EC!Next, EC!Worker, EC!Copier, EC!AvatarWorker

\* When the caller reports success, all that could fail has not, and every goroutine but the one of the
\* results is through.
LEMMA ConvOk == ConvInv => EC!OkMeansConverted
<1> SUFFICES ASSUME ConvInv, status = "ok"
             PROVE  /\ \A c \in EC!Chans, d \in EC!Days : Full(c, d)
                    /\ index = "written"
                    /\ \/ EC!Late
                       \/ /\ "error" \notin {Avatars[i] : i \in 1..Len(Avatars)}
                          /\ \A c \in EC!Chans : \A i \in 1..Len(EcMessages[c]) :
                               EcThread[EcMessages[c][i]] # "missing" => EcMessages[c][i] \in copied
  BY DEF EC!OkMeansConverted, Full
<1>1. /\ ecErrC = <<>> /\ ~failed /\ EC!ConvertersDone /\ request = <<>> /\ copier.res = <<>>
      /\ avatar = Len(Avatars)
  BY DEF ConvInv, ConvEnds, ConvTypes
<1>2. index = "written" /\ ~Trouble /\ \A w \in EcWorkers : worker[w].pc = "left"
  BY <1>1 DEF ConvInv, ConvEnds, EC!ConvertersDone, Trouble
<1>3. chC = <<>>
  BY <1>2, ConvertAssumption DEF ConvInv, ConvEnds
<1>4. \A c \in EC!Chans : Done(c)
  BY <1>2, <1>3, InEmpty DEF ConvInv, ConvChannels, Busy
<1>5. ErrorOnWay => EC!Late
  <2>1. <<"error">>[1] = "error" /\ 1 \in 1..Len(<<"error">>)
    OBVIOUS
  <2>2. ErrorOnWay => merged = Failing \/ hand # <<>> \/ panicked
                      \/ \E s \in EC!Sources : result[s] = Failing \/ forward[s] = Failing
    BY <1>1 DEF ErrorOnWay, Failing
  <2>3. merged = Failing => "error" \in {merged[i] : i \in 1..Len(merged)}
    BY <2>1 DEF Failing
  <2>4. \A s \in EC!Sources :
          /\ result[s] = Failing => "error" \in {result[s][i] : i \in 1..Len(result[s])}
          /\ forward[s] = Failing => "error" \in {forward[s][i] : i \in 1..Len(forward[s])}
    BY <2>1 DEF Failing
  <2> QED
    BY <2>2, <2>3, <2>4 DEF EC!Late
<1>6. ASSUME ~ErrorOnWay
      PROVE  /\ "error" \notin {Avatars[i] : i \in 1..Len(Avatars)}
             /\ \A c \in EC!Chans : \A i \in 1..Len(EcMessages[c]) :
                  EcThread[EcMessages[c][i]] # "missing" => EcMessages[c][i] \in copied
  <2>1. "error" \notin {Avatars[i] : i \in 1..Len(Avatars)}
    BY <1>1, <1>6, AvatarForm DEF ConvInv, ConvAvatars
  <2>2. \A m : request # <<m>>
    BY <1>1
  <2>3. \A c \in EC!Chans : \A i \in 1..Len(EcMessages[c]) :
          EcThread[EcMessages[c][i]] # "missing" => EcMessages[c][i] \in copied
    BY <1>4, <1>6, <2>2, ConvForm DEF Done, AskedUpto, Asked
  <2> QED
    BY <2>1, <2>3
<1> QED
  BY <1>2, <1>4, <1>5, <1>6 DEF Done

-----------------------------------------------------------------------------
(* The three of them.                                                      *)

LEMMA RunsSteps == [RunsNext]_all => [Next]_vars /\ [EM!Next]_(EM!vars) /\ [EC!Next]_(EC!vars)
<1>1. UNCHANGED emoji => UNCHANGED EM!vars
  BY DEF emoji, EM!vars
<1>2. UNCHANGED convert => UNCHANGED EC!vars
  BY DEF convert, EC!vars, EC!convert, EC!copying, EC!results, EC!caller
<1>3. Running(Next) => Next /\ UNCHANGED emoji /\ UNCHANGED convert
  BY DEF Running
<1>4. Converting(EC!Next) => EC!Next /\ UNCHANGED vars /\ UNCHANGED emoji
  BY DEF Converting
<1>5. Emojis(EM!Next) => EM!Next /\ UNCHANGED vars /\ UNCHANGED convert
  BY DEF Emojis
<1>6. Listing(EL!Next) => UNCHANGED vars /\ UNCHANGED convert /\ UNCHANGED emoji
  BY DEF Listing
<1>7. UNCHANGED all => UNCHANGED vars /\ UNCHANGED convert /\ UNCHANGED emoji
  BY DEF all
<1> QED
  BY <1>1, <1>2, <1>3, <1>4, <1>5, <1>6, <1>7 DEF RunsNext

\* For any channels, messages, days, workers and failures: the conversion to the export format succeeds
\* only when each message of each channel is in the file of its day, in order, and each file is copied or
\* its error still on the way (convert/export.go).  For any pages of emojis, workers and ways to download
\* them: a download succeeds only with every emoji, and with the file of each that could be fetched
\* (emojidl/emoji.go).  And no Go channel of a run holds more than it may.
THEOREM SuccessIsWhole == RunsSpec => []SuccessMeansWhole
<1>1. RunsInit => FlowInv /\ RunTypes /\ ConvInv /\ EmojiInv
  BY InitFlow, InitTypes, ConvInitInv, EmojiInitInv DEF RunsInit
<1>2. FlowInv /\ [RunsNext]_all => FlowInv'
  BY RunsSteps, StepEnd, StepContents, StepLinks, StepUsers DEF FlowInv
<1>3. FlowInv /\ RunTypes /\ [RunsNext]_all => RunTypes'
  BY RunsSteps, StepTypes DEF FlowInv
<1>4. ConvInv /\ [RunsNext]_all => ConvInv'
  BY RunsSteps, ConvStep
<1>5. EmojiInv /\ [RunsNext]_all => EmojiInv'
  BY RunsSteps, EmojiStep
<1>6. RunTypes => TypeOK
  BY DEF RunTypes
<1>7. ConvInv => EC!TypeOK /\ EC!OkMeansConverted
  BY ConvOk DEF ConvInv, ConvTypes
<1>8. EmojiInv => EM!TypeOK /\ EM!OkMeansEmojis
  BY EmojiOk DEF EmojiInv, EmojiTypes
<1>9. RunTypes /\ ConvInv /\ EmojiInv => SuccessMeansWhole
  BY <1>6, <1>7, <1>8 DEF SuccessMeansWhole
<1> QED
  BY <1>1, <1>2, <1>3, <1>4, <1>5, <1>9, PTL DEF RunsSpec
=============================================================================
