--------------------------- MODULE ConvStream_proofs ---------------------------
(***************************************************************************)
(* Proofs about ConvStream for every workspace, list of links and set of   *)
(* channel capacities: the types are respected, no page of a thread found  *)
(* in a channel reaches the processor before the channel's Messages call   *)
(* that counted the thread, how the goroutines end, that a nil return is   *)
(* complete, and that no page is delivered more often than asked for.      *)
(***************************************************************************)
EXTENDS ConvStream, FiniteSetTheorems, TLAPS

\* The channel worker is between receiving a request and the last page of it.
ChanBusy ==
  \/ pc["channel"] \in {"page", "spawn"}
  \/ pc["channel"] = "send" /\ after["channel"] = "page"
ThreadBusy ==
  \/ pc["thread"] \in {"info", "page"}
  \/ pc["thread"] = "send" /\ after["thread"] = "page"

\* Where the workers are in the history they fetch, and what the main loop holds.
Control ==
  /\ pc["channel"] = "info" => creq \in Channels
  /\ ChanBusy => creq \in Channels /\ cpage \in 1..Len(Pages[creq])
  /\ ThreadBusy => treq \in ThreadReq
  /\ pc["main"] = "putChan" => held \in Channels
  /\ pc["main"] = "putThread" => held \in Threads

Justified(t) == Announced(t) \/ Linked(t)

\* Every thread request on its way, and every thread page delivered, comes from a
\* message page already delivered or from a link.
Provenance ==
  /\ \A i \in DOMAIN links : \E j \in DOMAIN Links : links[i] = Links[j]
  /\ pc["main"] = "putThread" => Linked(held)
  /\ \A i \in DOMAIN todo : Announced(todo[i])
  /\ \A i \in DOMAIN threadsC : Justified(threadsC[i].id)
  /\ ThreadBusy => Justified(treq.id)
  /\ AnnouncedFirst

IInv == TypeOK /\ Control /\ Provenance

-----------------------------------------------------------------------------

LEMMA CallSets ==
  /\ \A c \in Channels : \A p \in 1..Len(Pages[c]) :
       [id |-> c, page |-> p] \in ChanCalls
  /\ \A k \in ChanCalls : k.id \in Channels
  /\ \A k \in ThreadCalls : k.id \in Threads
<1>1. ASSUME NEW c \in Channels, NEW p \in 1..Len(Pages[c])
      PROVE  [id |-> c, page |-> p] \in ChanCalls
  <2>1. [id |-> c, page |-> p] \in {[id |-> c, page |-> q] : q \in 1..Len(Pages[c])}
    OBVIOUS
  <2> QED
    BY <2>1 DEF ChanCalls
<1>2. ASSUME NEW k \in ChanCalls PROVE k.id \in Channels
  BY DEF ChanCalls
<1>3. ASSUME NEW k \in ThreadCalls PROVE k.id \in Threads
  BY DEF ThreadCalls
<1> QED
  BY <1>1, <1>2, <1>3

LEMMA InitIInv == Init => IInv
<1> SUFFICES ASSUME Init PROVE IInv
  OBVIOUS
<1> USE DEF Init
<1>1. TypeOK
  <2>1. links \in Seq(Link) /\ chansC \in Seq(Channels) /\ threadsC \in Seq(ThreadReq)
          /\ resultsC \in Seq(Result) /\ todo \in Seq(Threads)
    BY StreamAssumption
  <2>2. Len(chansC) <= ChanCap /\ Len(threadsC) <= ThreadCap /\ Len(resultsC) <= ResultCap
    BY StreamAssumption
  <2>3. NoResult \in Result
    BY DEF NoResult, Result, Workers
  <2> QED
    BY <2>1, <2>2, <2>3 DEF TypeOK, Labels, Resumes
<1>2. Control
  BY DEF Control, ChanBusy, ThreadBusy, Workers
<1>3. Provenance
  BY DEF Provenance, ThreadBusy, AnnouncedFirst, Delivered, Workers, ThreadCalls, Calls
<1> QED
  BY <1>1, <1>2, <1>3 DEF IInv


LEMMA FailureType ==
  ASSUME NEW w \in Workers, NEW id \in Channels \cup Threads \cup {"-"},
         NEW e \in {"notfound", "fatal"}
  PROVE  Failure(w, id, e) \in Result
BY DEF Failure, Result

LEMMA SuccessType ==
  ASSUME NEW w \in Workers, NEW id \in Channels \cup Threads, NEW b \in BOOLEAN
  PROVE  Success(w, id, b) \in Result
BY DEF Success, Result

\* The control variables of the goroutines keep their types.
PcOK == pc \in [Workers -> Labels]
SendOK == after \in [Workers -> Resumes] /\ out \in [Workers -> Result]

LEMMA GotoType ==
  ASSUME TypeOK, NEW w, NEW l \in Labels, Goto(w, l)
  PROVE  PcOK'
BY DEF TypeOK, Goto, PcOK

LEMMA RaiseType ==
  ASSUME TypeOK, NEW w, NEW r \in Result, NEW l \in Resumes, Raise(w, r, l)
  PROVE  PcOK' /\ SendOK'
<1>1. PcOK'
  BY DEF TypeOK, Raise, Goto, PcOK, Labels
<1>2. after' \in [Workers -> Resumes]
  BY DEF TypeOK, Raise
<1>3. out' \in [Workers -> Result]
  BY DEF TypeOK, Raise
<1> QED
  BY <1>1, <1>2, <1>3 DEF SendOK

LEMMA IncrementType ==
  ASSUME NEW S, NEW f \in [S -> Nat], NEW x
  PROVE  [f EXCEPT ![x] = @ + 1] \in [S -> Nat]
<1>1. ASSUME NEW y \in S PROVE [f EXCEPT ![x] = @ + 1][y] \in Nat
  <2>1. CASE y = x
    BY <2>1
  <2>2. CASE y # x
    BY <2>2
  <2> QED
    BY <2>1, <2>2
<1> QED
  BY <1>1

LEMMA DeliverType ==
  ASSUME TypeOK, NEW id, NEW page, Deliver(id, page)
  PROVE  calls' \in [Calls -> Nat] /\ late' \in Nat
<1>1. calls \in [Calls -> Nat] /\ late \in Nat
  BY DEF TypeOK
<1>2. calls' = [calls EXCEPT ![[id |-> id, page |-> page]] = @ + 1]
  BY DEF Deliver
<1>3. calls' \in [Calls -> Nat]
  BY <1>1, <1>2, IncrementType
<1>4. late' \in Nat
  BY <1>1 DEF Deliver
<1> QED
  BY <1>3, <1>4

LEMMA PutThreadType ==
  ASSUME TypeOK, NEW r \in ThreadReq, PutThread(r)
  PROVE  /\ threadsC' \in Seq(ThreadReq) /\ Len(threadsC') <= ThreadCap
         /\ panicked' \in BOOLEAN
<1>1. CASE panicked' = TRUE /\ UNCHANGED threadsC
  BY <1>1 DEF TypeOK
<1>2. CASE Room(threadsC, ThreadCap) /\ threadsC' = Append(threadsC, r) /\ UNCHANGED panicked
  BY <1>2, StreamAssumption DEF TypeOK, Room
<1> QED
  BY <1>1, <1>2 DEF PutThread

LEMMA PutThreadElems ==
  ASSUME TypeOK, NEW r \in ThreadReq, PutThread(r)
  PROVE  \A i \in DOMAIN threadsC' :
          \/ i \in DOMAIN threadsC /\ threadsC'[i] = threadsC[i]
          \/ threadsC'[i] = r
<1>1. threadsC \in Seq(ThreadReq)
  BY DEF TypeOK
<1>2. CASE UNCHANGED threadsC
  BY <1>2
<1>3. CASE threadsC' = Append(threadsC, r)
  BY <1>1, <1>3
<1> QED
  BY <1>2, <1>3 DEF PutThread

LEMMA MainTypeOK == ASSUME TypeOK, Control, Main PROVE TypeOK'
<1> USE DEF queues, chanVars, threadVars, history
<1>1. CASE MainTake
  <2>1. /\ Head(links) \in Link /\ links' \in Seq(Link)
        /\ Head(links).id \in Channels \cup Threads
    BY <1>1 DEF MainTake, TypeOK, Link
  <2>2. PcOK' /\ SendOK' /\ held' \in Channels \cup Threads \cup {"-"}
    <3>1. CASE Raise("main", Failure("main", "-", "fatal"), "loop") /\ UNCHANGED held
      BY <1>1, <3>1, RaiseType, FailureType DEF MainTake, TypeOK, Workers, Resumes
    <3>2. CASE UNCHANGED <<out, after>> /\ held' = Head(links).id
      BY <1>1, <2>1, <3>2 DEF MainTake, TypeOK, Goto, Raise, PcOK, SendOK, Labels
    <3> QED
      BY <1>1, <3>1, <3>2 DEF MainTake
  <2> QED
    BY <1>1, <2>1, <2>2 DEF MainTake, TypeOK, PcOK, SendOK
<1>2. CASE MainEnd
  BY <1>2, GotoType DEF MainEnd, TypeOK, PcOK, Labels
<1>3. CASE MainPutChan
  <2>1. chansC' \in Seq(Channels) /\ Len(chansC') <= ChanCap
    BY <1>3, StreamAssumption DEF MainPutChan, Room, TypeOK, Control
  <2> QED
    BY <1>3, <2>1, GotoType DEF MainPutChan, TypeOK, PcOK, Labels
<1>4. CASE MainPutThread
  <2>1. [id |-> held, only |-> TRUE] \in ThreadReq
    BY <1>4 DEF MainPutThread, Control, ThreadReq
  <2>2. /\ threadsC' \in Seq(ThreadReq) /\ Len(threadsC') <= ThreadCap
        /\ panicked' \in BOOLEAN
    BY <1>4, <2>1, PutThreadType DEF MainPutThread
  <2> QED
    BY <1>4, <2>2, GotoType DEF MainPutThread, TypeOK, PcOK, Labels
<1> QED
  BY <1>1, <1>2, <1>3, <1>4 DEF Main

\* procChannelInfoWithUsers, in either worker
LEMMA InfoType ==
  ASSUME TypeOK, NEW w \in Workers, NEW id \in Channels \cup Threads, Info(w, id)
  PROVE  PcOK' /\ SendOK'
<1>1. CASE Goto(w, "page") /\ UNCHANGED <<after, out>>
  BY <1>1, GotoType DEF TypeOK, SendOK, Labels
<1>2. CASE Raise(w, Failure(w, id, "notfound"), "loop")
  BY <1>2, RaiseType, FailureType DEF Resumes
<1>3. CASE Raise(w, Failure(w, id, "fatal"), "loop")
  BY <1>3, RaiseType, FailureType DEF Resumes
<1> QED
  BY <1>1, <1>2, <1>3 DEF Info

LEMMA ChannelTypeOK == ASSUME TypeOK, Control, ChannelWorker PROVE TypeOK'
<1> USE DEF queues, chanVars, threadVars, history
<1>1. CASE ChanRecv
  <2>1. chansC' \in Seq(Channels) /\ Len(chansC') <= ChanCap /\ creq' \in Channels \cup {"-"}
    <3>1. CASE chansC # <<>> /\ creq' = Head(chansC) /\ chansC' = Tail(chansC)
      BY <3>1, StreamAssumption DEF TypeOK
    <3>2. CASE UNCHANGED <<creq, chansC>>
      BY <3>2 DEF TypeOK
    <3> QED
      BY <1>1, <3>1, <3>2 DEF ChanRecv
  <2> QED
    BY <1>1, <2>1, GotoType DEF ChanRecv, TypeOK, PcOK, Labels
<1>2. CASE ChanInfo
  <2>1. PcOK' /\ SendOK'
    BY <1>2, InfoType DEF ChanInfo, Control, Workers, Info
  <2> QED
    BY <1>2, <2>1 DEF ChanInfo, Info, TypeOK, PcOK, SendOK
<1>3. CASE ChanPage
  <2>1. creq \in Channels /\ cpage \in 1..Len(Pages[creq])
    BY <1>3 DEF ChanPage, Control, ChanBusy
  <2>2. Pages[creq][cpage] \in Seq(Threads)
    BY <2>1, StreamAssumption
  <2>3. PcOK' /\ SendOK' /\ todo' \in Seq(Threads) /\ calls' \in [Calls -> Nat] /\ late' \in Nat
    <3>1. CASE Deliver(creq, cpage) /\ todo' = Pages[creq][cpage] /\ Goto("channel", "spawn")
                 /\ UNCHANGED <<after, out>>
      BY <3>1, <2>2, GotoType, DeliverType DEF TypeOK, SendOK, Labels
    <3>2. CASE Raise("channel", Failure("channel", creq, "fatal"), "loop")
                 /\ UNCHANGED <<history, todo>>
      BY <3>2, <2>1, RaiseType, FailureType DEF TypeOK, Workers, Resumes
    <3> QED
      BY <1>3, <3>1, <3>2 DEF ChanPage
  <2> QED
    BY <1>3, <2>3 DEF ChanPage, TypeOK, PcOK, SendOK
<1>4. CASE ChanSpawn
  <2>1. Head(todo) \in Threads /\ todo' \in Seq(Threads)
    BY <1>4 DEF ChanSpawn, TypeOK
  <2>2. [id |-> Head(todo), only |-> FALSE] \in ThreadReq
    BY <2>1 DEF ThreadReq
  <2>3. /\ threadsC' \in Seq(ThreadReq) /\ Len(threadsC') <= ThreadCap
        /\ panicked' \in BOOLEAN
    BY <1>4, <2>2, PutThreadType DEF ChanSpawn
  <2> QED
    BY <1>4, <2>1, <2>3 DEF ChanSpawn, TypeOK
<1>5. CASE ChanReport
  <2>1. creq \in Channels /\ cpage \in 1..Len(Pages[creq])
    BY <1>5 DEF ChanReport, Control, ChanBusy
  <2>2. PcOK' /\ SendOK' /\ cpage' \in Nat
    <3> DEFINE isLast == cpage = Len(Pages[creq])
    <3>1. Success("channel", creq, isLast) \in Result
      BY <2>1, SuccessType DEF Workers
    <3>2. (IF isLast THEN "loop" ELSE "page") \in Resumes
      BY DEF Resumes
    <3>3. Raise("channel", Success("channel", creq, isLast), IF isLast THEN "loop" ELSE "page")
          /\ cpage' = NextPage(cpage, Len(Pages[creq]))
      BY <1>5 DEF ChanReport
    <3>4. cpage' \in Nat
      BY <3>3, <2>1 DEF NextPage
    <3> HIDE DEF isLast
    <3> QED
      BY <3>1, <3>2, <3>3, <3>4, RaiseType
  <2> QED
    BY <1>5, <2>2 DEF ChanReport, TypeOK, PcOK, SendOK
<1> QED
  BY <1>1, <1>2, <1>3, <1>4, <1>5 DEF ChannelWorker

LEMMA ThreadTypeOK == ASSUME TypeOK, Control, ThreadWorker PROVE TypeOK'
<1> USE DEF queues, chanVars, threadVars, history
<1>1. CASE ThreadRecv
  <2>1. threadsC' \in Seq(ThreadReq) /\ Len(threadsC') <= ThreadCap
          /\ treq' \in ThreadReq \cup {NoReq} /\ tpage' \in Nat
    <3>1. CASE threadsC # <<>> /\ treq' = Head(threadsC) /\ threadsC' = Tail(threadsC)
                 /\ tpage' = 1
      BY <3>1, StreamAssumption DEF TypeOK
    <3>2. CASE UNCHANGED <<treq, tpage, threadsC>>
      BY <3>2 DEF TypeOK
    <3> QED
      BY <1>1, <3>1, <3>2 DEF ThreadRecv
  <2>2. PcOK'
    BY <1>1, GotoType DEF ThreadRecv, Labels
  <2> QED
    BY <1>1, <2>1, <2>2 DEF ThreadRecv, TypeOK, PcOK
<1>2. CASE ThreadInfo
  <2>1. treq.id \in Threads
    BY <1>2 DEF ThreadInfo, Info, Control, ThreadBusy, ThreadReq
  <2>2. PcOK' /\ SendOK'
    BY <1>2, <2>1, InfoType DEF ThreadInfo, Workers
  <2> QED
    BY <1>2, <2>2 DEF ThreadInfo, Info, TypeOK, PcOK, SendOK
<1>3. CASE ThreadPage
  <2>1. treq.id \in Threads
    BY <1>3 DEF ThreadPage, Control, ThreadBusy, ThreadReq
  <2>2. PcOK' /\ SendOK' /\ calls' \in [Calls -> Nat] /\ late' \in Nat /\ tpage' \in Nat
    <3> DEFINE isLast == tpage = Replies[treq.id]
    <3>1. CASE /\ Deliver(treq.id, tpage)
               /\ Raise("thread", Success("thread", treq.id, isLast),
                        IF isLast THEN "loop" ELSE "page")
               /\ tpage' = NextPage(tpage, Replies[treq.id])
      <4>1. Success("thread", treq.id, isLast) \in Result
        BY <2>1, SuccessType DEF Workers
      <4>2. (IF isLast THEN "loop" ELSE "page") \in Resumes
        BY DEF Resumes
      <4>3. tpage' \in Nat
        BY <3>1 DEF TypeOK, NextPage
      <4> HIDE DEF isLast
      <4> QED
        BY <3>1, <4>1, <4>2, <4>3, DeliverType, RaiseType
    <3>2. CASE Raise("thread", Failure("thread", treq.id, "fatal"), "loop")
                 /\ UNCHANGED <<history, tpage>>
      BY <3>2, <2>1, RaiseType, FailureType DEF TypeOK, Workers, Resumes
    <3> QED
      BY <1>3, <3>1, <3>2 DEF ThreadPage
  <2> QED
    BY <1>3, <2>2 DEF ThreadPage, TypeOK, PcOK, SendOK
<1>4. CASE ThreadRetry
  BY <1>4 DEF ThreadRetry, TypeOK
<1> QED
  BY <1>1, <1>2, <1>3, <1>4 DEF ThreadWorker

LEMMA OtherTypeOK ==
  ASSUME TypeOK,
         \/ \E w \in Workers : SendResult(w) \/ SeeCancel(w) \/ Exit(w)
         \/ Sentinel \/ Consume \/ Return \/ Cancel
  PROVE  TypeOK'
<1> USE DEF queues, chanVars, threadVars, history
<1>1. ASSUME NEW w \in Workers, SendResult(w) PROVE TypeOK'
  <2>1. out[w] \in Result /\ after[w] \in Labels
    BY DEF TypeOK, Labels, Resumes
  <2>2. resultsC' \in Seq(Result) /\ Len(resultsC') <= ResultCap
    BY <1>1, <2>1, StreamAssumption DEF SendResult, Room, TypeOK
  <2> QED
    BY <1>1, <2>1, <2>2, GotoType DEF SendResult, TypeOK, PcOK
<1>2. ASSUME NEW w \in Workers, SeeCancel(w) PROVE TypeOK'
  <2>1. PcOK' /\ SendOK'
    BY <1>2, RaiseType, FailureType DEF SeeCancel, Resumes
  <2> QED
    BY <1>2, <2>1 DEF SeeCancel, TypeOK, PcOK, SendOK
<1>3. ASSUME NEW w \in Workers, Exit(w) PROVE TypeOK'
  <2>1. PcOK'
    BY <1>3, GotoType DEF Exit, Labels
  <2> QED
    BY <1>3, <2>1 DEF Exit, Closes, TypeOK, PcOK
<1>4. CASE Sentinel
  BY <1>4 DEF Sentinel, TypeOK
<1>5. CASE Consume
  <2>1. resultsC' \in Seq(Result) /\ Len(resultsC') <= ResultCap
    BY <1>5, StreamAssumption DEF Consume, TypeOK
  <2>2. status' \in {"run", "failed"}
    BY <1>5 DEF Consume
  <2> QED
    BY <1>5, <2>1, <2>2 DEF Consume, TypeOK
<1>6. CASE Return
  BY <1>6 DEF Return, TypeOK
<1>7. CASE Cancel
  BY <1>7 DEF Cancel, TypeOK
<1> QED
  BY <1>1, <1>2, <1>3, <1>4, <1>5, <1>6, <1>7

LEMMA NextTypeOK == TypeOK /\ Control /\ [Next]_vars => TypeOK'
<1>1. CASE UNCHANGED vars
  BY <1>1 DEF vars, queues, chanVars, threadVars, history, TypeOK
<1> QED
  BY <1>1, MainTypeOK, ChannelTypeOK, ThreadTypeOK, OtherTypeOK DEF Next

-----------------------------------------------------------------------------

LEMMA NextControl == TypeOK /\ Control /\ [Next]_vars => Control'
<1> SUFFICES ASSUME TypeOK, Control, [Next]_vars PROVE Control'
  OBVIOUS
<1>t. pc \in [Workers -> Labels] /\ after \in [Workers -> Resumes]
  BY DEF TypeOK
<1> USE DEF Control, ChanBusy, ThreadBusy, Goto, Raise, queues, chanVars, threadVars, history
<1>1. CASE Main
  <2>1. CASE MainTake
    <3>1. links \in Seq(Link) /\ links # <<>>
      BY <2>1 DEF MainTake, TypeOK
    <3>2. Head(links) \in Link
      BY <3>1
    <3>3. Head(links).kind = "thread" => Head(links).id \in Threads
      BY <3>2 DEF Link
    <3>4. Head(links).kind # "thread" => Head(links).id \in Channels
      BY <3>2 DEF Link
    <3> QED
      BY <1>t, <2>1, <3>3, <3>4 DEF MainTake, Workers
  <2>2. CASE MainEnd
    BY <1>t, <2>2 DEF MainEnd, Workers
  <2>3. CASE MainPutChan
    BY <1>t, <2>3 DEF MainPutChan, Workers
  <2>4. CASE MainPutThread
    BY <1>t, <2>4 DEF MainPutThread, Workers
  <2> QED
    BY <1>1, <2>1, <2>2, <2>3, <2>4 DEF Main
<1>2. CASE ChannelWorker
  <2>1. CASE ChanRecv
    <3>1. chansC # <<>> => Head(chansC) \in Channels
      BY DEF TypeOK
    <3> QED
      BY <1>t, <2>1, <3>1 DEF ChanRecv, Workers
  <2>2. CASE ChanInfo
    <3>1. creq \in Channels => 1 \in 1..Len(Pages[creq])
      BY StreamAssumption
    <3> QED
      BY <1>t, <2>2, <3>1 DEF ChanInfo, Info, Workers
  <2>3. CASE ChanPage
    BY <1>t, <2>3 DEF ChanPage, Workers
  <2>4. CASE ChanSpawn
    BY <1>t, <2>4 DEF ChanSpawn, Workers
  <2>5. CASE ChanReport
    <3>1. creq \in Channels /\ cpage \in 1..Len(Pages[creq])
      BY <2>5 DEF ChanReport
    <3>2. cpage # Len(Pages[creq]) => cpage + 1 \in 1..Len(Pages[creq])
      BY <3>1, StreamAssumption
    <3> QED
      BY <1>t, <2>5, <3>1, <3>2 DEF ChanReport, NextPage, Workers
  <2> QED
    BY <1>2, <2>1, <2>2, <2>3, <2>4, <2>5 DEF ChannelWorker
<1>3. CASE ThreadWorker
  <2>1. CASE ThreadRecv
    <3>1. threadsC # <<>> => Head(threadsC) \in ThreadReq
      BY DEF TypeOK
    <3> QED
      BY <1>t, <2>1, <3>1 DEF ThreadRecv, Workers
  <2>2. CASE ThreadInfo
    BY <1>t, <2>2 DEF ThreadInfo, Info, Workers
  <2>3. CASE ThreadPage
    BY <1>t, <2>3 DEF ThreadPage, Workers
  <2>4. CASE ThreadRetry
    BY <1>t, <2>4 DEF ThreadRetry
  <2> QED
    BY <1>3, <2>1, <2>2, <2>3, <2>4 DEF ThreadWorker
<1>4. ASSUME NEW w \in Workers, SendResult(w) PROVE Control'
  BY <1>t, <1>4 DEF SendResult, Workers, Resumes
<1>5. ASSUME NEW w \in Workers, SeeCancel(w) PROVE Control'
  BY <1>t, <1>5 DEF SeeCancel, Workers
<1>6. ASSUME NEW w \in Workers, Exit(w) PROVE Control'
  BY <1>t, <1>6 DEF Exit, Workers
<1>7. CASE Sentinel \/ Consume \/ Return \/ Cancel \/ UNCHANGED vars
  BY <1>7 DEF Sentinel, Consume, Return, Cancel, vars
<1> QED
  BY <1>1, <1>2, <1>3, <1>4, <1>5, <1>6, <1>7 DEF Next

-----------------------------------------------------------------------------
(* Nothing is ever taken back from the processor.                          *)

LEMMA DeliverMonotone ==
  ASSUME TypeOK, NEW id, NEW page, Deliver(id, page)
  PROVE  /\ \A k \in Calls : Delivered(k) => Delivered(k)'
         /\ \A k \in Calls : Delivered(k)' => Delivered(k) \/ k = [id |-> id, page |-> page]
         /\ [id |-> id, page |-> page] \in Calls => Delivered([id |-> id, page |-> page])'
<1> DEFINE c == [id |-> id, page |-> page]
<1>1. calls \in [Calls -> Nat] /\ calls' = [calls EXCEPT ![c] = @ + 1]
  BY DEF TypeOK, Deliver
<1> HIDE DEF c
<1>2. \A k \in Calls : k # c => calls'[k] = calls[k]
  BY <1>1
<1>3. c \in Calls => calls'[c] = calls[c] + 1 /\ calls[c] \in Nat
  BY <1>1
<1>4. /\ \A k \in Calls : Delivered(k) => Delivered(k)'
      /\ \A k \in Calls : Delivered(k)' => Delivered(k) \/ k = c
      /\ c \in Calls => Delivered(c)'
  BY <1>2, <1>3 DEF Delivered
<1> QED
  BY <1>4 DEF c

LEMMA AnnouncedMonotone ==
  ASSUME TypeOK, NEW t,
         UNCHANGED calls \/ \E id, page : Deliver(id, page)
  PROVE  /\ Announced(t) => Announced(t)'
         /\ Justified(t) => Justified(t)'
<1>1. ASSUME NEW k \in ChanCalls PROVE Delivered(k) => Delivered(k)'
  <2>1. CASE UNCHANGED calls
    BY <2>1 DEF Delivered
  <2>2. CASE \E id, page : Deliver(id, page)
    BY <2>2, DeliverMonotone DEF Calls
  <2> QED
    BY <2>1, <2>2
<1>2. Announced(t) => Announced(t)'
  BY <1>1 DEF Announced
<1> QED
  BY <1>2 DEF Justified, Linked

-----------------------------------------------------------------------------
(* The origin of thread requests is kept by every action.                  *)

\* An action that leaves alone the processor and everything it will be asked.
LEMMA ProvenanceFrame ==
  ASSUME TypeOK, Provenance,
         UNCHANGED <<links, held, todo, threadsC, treq, calls>>,
         pc'["main"] = "putThread" => pc["main"] = "putThread",
         ThreadBusy' => ThreadBusy
  PROVE  Provenance'
BY DEF Provenance, AnnouncedFirst, Justified, Announced, Linked, Delivered

LEMMA MainProvenance == ASSUME TypeOK, Control, Provenance, Main PROVE Provenance'
<1>t. pc \in [Workers -> Labels] /\ after \in [Workers -> Resumes]
  BY DEF TypeOK
<1> USE DEF Goto, Raise, queues, chanVars, threadVars, history
<1>1. CASE MainTake
  <2>1. links \in Seq(Link) /\ links # <<>> /\ links' = Tail(links)
    BY <1>1 DEF MainTake, TypeOK
  <2>2. 1 \in DOMAIN links /\ \A i \in DOMAIN links' : i + 1 \in DOMAIN links /\ links'[i] = links[i + 1]
    BY <2>1
  <2>3. \A i \in DOMAIN links' : \E j \in DOMAIN Links : links'[i] = Links[j]
    BY <2>2 DEF Provenance
  <2>4. PICK j \in DOMAIN Links : Head(links) = Links[j]
    BY <2>1, <2>2 DEF Provenance
  <2>5. pc'["main"] = "putThread" => Linked(held')
    <3> SUFFICES ASSUME pc'["main"] = "putThread" PROVE Linked(held')
      OBVIOUS
    <3>1. Head(links).kind = "thread" /\ held' = Head(links).id
      BY <1>1, <1>t DEF MainTake, Workers
    <3>2. Head(links) = [kind |-> "thread", id |-> held']
      <4>1. Head(links) \in Link
        BY <2>1
      <4> QED
        BY <3>1, <4>1 DEF Link
    <3> QED
      BY <2>4, <3>2 DEF Linked
  <2>6. UNCHANGED <<todo, threadsC, treq, calls>> /\ (ThreadBusy' => ThreadBusy)
    BY <1>1, <1>t DEF MainTake, ThreadBusy, Workers
  <2> QED
    BY <2>3, <2>5, <2>6
    DEF Provenance, AnnouncedFirst, Justified, Announced, Linked, Delivered
<1>2. CASE MainEnd \/ MainPutChan
  BY <1>2, <1>t, ProvenanceFrame DEF MainEnd, MainPutChan, ThreadBusy, Workers
<1>3. CASE MainPutThread
  <2>1. UNCHANGED <<links, held, todo, treq, calls>> /\ (ThreadBusy' => ThreadBusy)
        /\ (pc'["main"] = "putThread" => pc["main"] = "putThread")
    BY <1>3, <1>t DEF MainPutThread, ThreadBusy, Workers
  <2>2. Linked(held)
    BY <1>3 DEF MainPutThread, Provenance
  <2>3. \A i \in DOMAIN threadsC' : Justified(threadsC'[i].id)
    <3>1. [id |-> held, only |-> TRUE] \in ThreadReq
      BY <1>3 DEF MainPutThread, Control, ThreadReq
    <3>2. \A i \in DOMAIN threadsC' :
          \/ i \in DOMAIN threadsC /\ threadsC'[i] = threadsC[i]
          \/ threadsC'[i] = [id |-> held, only |-> TRUE]
      BY <1>3, <3>1, PutThreadElems DEF MainPutThread
    <3> QED
      BY <2>2, <3>2 DEF Provenance, Justified
  <2> QED
    BY <2>1, <2>3 DEF Provenance, AnnouncedFirst, Justified, Announced, Linked, Delivered
<1> QED
  BY <1>1, <1>2, <1>3 DEF Main

\* proc.Messages for page p of channel c, whose threads will then be requested
LEMMA MessagesProvenance ==
  ASSUME TypeOK, Provenance, NEW c \in Channels, NEW p \in 1..Len(Pages[c]),
         Deliver(c, p), todo' = Pages[c][p],
         UNCHANGED <<links, held, threadsC, treq>>,
         pc'["main"] = "putThread" => pc["main"] = "putThread",
         ThreadBusy' => ThreadBusy
  PROVE  Provenance'
<1> DEFINE k == [id |-> c, page |-> p]
<1>1. k \in ChanCalls /\ k.id = c /\ k.page = p
  BY CallSets
<1>2. k \in Calls /\ k \notin ThreadCalls
  BY <1>1, CallSets, StreamAssumption DEF Calls
<1>3. Delivered(k)'
  BY <1>2, DeliverMonotone
<1>4. \A x \in Calls : Delivered(x)' => Delivered(x) \/ x = k
  BY DeliverMonotone
<1> HIDE DEF k
<1>5. \A i \in DOMAIN todo' : todo'[i] \in ElemsOf(Pages[k.id][k.page])
  BY <1>1 DEF ElemsOf
<1>6. (\A i \in DOMAIN todo : Announced(todo[i]))'
  BY <1>1, <1>3, <1>5 DEF Announced
<1>7. \A x \in ThreadCalls : Delivered(x)' => Delivered(x)
  BY <1>2, <1>4 DEF Calls
<1>8. \A t : Justified(t) => Justified(t)'
  BY AnnouncedMonotone
<1>9. AnnouncedFirst'
  BY <1>7, <1>8 DEF Provenance, AnnouncedFirst, Justified
<1> QED
  BY <1>6, <1>8, <1>9 DEF Provenance, Linked

LEMMA ChannelProvenance == ASSUME TypeOK, Control, Provenance, ChannelWorker PROVE Provenance'
<1>t. pc \in [Workers -> Labels] /\ after \in [Workers -> Resumes]
  BY DEF TypeOK
<1> USE DEF Goto, Raise, queues, chanVars, threadVars, history
<1>1. CASE ChanRecv \/ ChanInfo \/ ChanReport
  BY <1>1, <1>t, ProvenanceFrame DEF ChanRecv, ChanInfo, Info, ChanReport, ThreadBusy, Workers
<1>2. CASE ChanPage
  <2>1. UNCHANGED <<links, held, threadsC, treq>> /\ (ThreadBusy' => ThreadBusy)
        /\ (pc'["main"] = "putThread" => pc["main"] = "putThread")
    BY <1>2, <1>t DEF ChanPage, ThreadBusy, Workers
  <2>2. CASE Deliver(creq, cpage) /\ todo' = Pages[creq][cpage]
    <3>1. creq \in Channels /\ cpage \in 1..Len(Pages[creq])
      BY <1>2 DEF ChanPage, Control, ChanBusy
    <3> QED
      BY <2>1, <2>2, <3>1, MessagesProvenance
  <2>3. CASE UNCHANGED <<history, todo>>
    BY <1>2, <2>1, <2>3, ProvenanceFrame
  <2> QED
    BY <1>2, <2>2, <2>3 DEF ChanPage
<1>3. CASE ChanSpawn
  <2>1. todo \in Seq(Threads) /\ todo # <<>> /\ threadsC \in Seq(ThreadReq)
    BY <1>3 DEF ChanSpawn, TypeOK
  <2>2. Announced(Head(todo))
    BY <2>1 DEF Provenance
  <2>3. \A i \in DOMAIN todo' : Announced(todo'[i])
    <3>1. \A i \in DOMAIN todo' : i + 1 \in DOMAIN todo /\ todo'[i] = todo[i + 1]
      BY <1>3, <2>1 DEF ChanSpawn
    <3> QED
      BY <3>1 DEF Provenance
  <2>4. \A i \in DOMAIN threadsC' : Justified(threadsC'[i].id)
    <3>1. \A i \in DOMAIN threadsC' :
          \/ i \in DOMAIN threadsC /\ threadsC'[i] = threadsC[i]
          \/ threadsC'[i] = [id |-> Head(todo), only |-> FALSE]
      <4>1. [id |-> Head(todo), only |-> FALSE] \in ThreadReq
        BY <2>1 DEF ThreadReq
      <4> QED
        BY <1>3, <4>1, PutThreadElems DEF ChanSpawn
    <3> QED
      BY <2>2, <3>1 DEF Provenance, Justified
  <2>5. UNCHANGED <<links, held, treq, calls, pc, after>>
    BY <1>3 DEF ChanSpawn
  <2> QED
    BY <2>3, <2>4, <2>5
    DEF Provenance, AnnouncedFirst, Justified, Announced, Linked, Delivered, ThreadBusy
<1> QED
  BY <1>1, <1>2, <1>3 DEF ChannelWorker

LEMMA ThreadProvenance == ASSUME TypeOK, Control, Provenance, ThreadWorker PROVE Provenance'
<1>t. pc \in [Workers -> Labels] /\ after \in [Workers -> Resumes]
  BY DEF TypeOK
<1> USE DEF Goto, Raise, queues, chanVars, threadVars, history
<1>1. CASE ThreadRecv
  <2>1. UNCHANGED <<links, held, todo, calls>>
        /\ (pc'["main"] = "putThread" => pc["main"] = "putThread")
    BY <1>1, <1>t DEF ThreadRecv, Workers
  <2>2. /\ \A i \in DOMAIN threadsC' : Justified(threadsC'[i].id)
        /\ ThreadBusy' => Justified(treq'.id)
    <3>1. threadsC \in Seq(ThreadReq)
      BY DEF TypeOK
    <3>2. CASE threadsC # <<>> /\ treq' = Head(threadsC) /\ threadsC' = Tail(threadsC)
      <4>1. 1 \in DOMAIN threadsC /\ Head(threadsC) = threadsC[1]
        BY <3>1, <3>2
      <4>2. \A i \in DOMAIN threadsC' : i + 1 \in DOMAIN threadsC /\ threadsC'[i] = threadsC[i + 1]
        BY <3>1, <3>2
      <4> QED
        BY <3>2, <4>1, <4>2 DEF Provenance
    <3>3. CASE pc'["thread"] = "exit" /\ UNCHANGED <<treq, tpage, threadsC>>
      BY <3>3 DEF Provenance, ThreadBusy
    <3> QED
      BY <1>1, <1>t, <3>2, <3>3 DEF ThreadRecv, Workers
  <2> QED
    BY <2>1, <2>2 DEF Provenance, AnnouncedFirst, Justified, Announced, Linked, Delivered
<1>2. CASE ThreadInfo
  BY <1>2, <1>t, ProvenanceFrame DEF ThreadInfo, Info, ThreadBusy, Workers
<1>3. CASE ThreadPage
  <2>1. UNCHANGED <<links, held, todo, threadsC, treq>> /\ ThreadBusy
        /\ (pc'["main"] = "putThread" => pc["main"] = "putThread")
    BY <1>3, <1>t DEF ThreadPage, ThreadBusy, Workers
  <2>2. CASE Deliver(treq.id, tpage)
    <3>1. \A t : (Announced(t) => Announced(t)') /\ (Justified(t) => Justified(t)')
      BY <2>2, AnnouncedMonotone
    <3>2. \A k \in ThreadCalls : Delivered(k)' => Delivered(k) \/ k.id = treq.id
      <4> DEFINE c == [id |-> treq.id, page |-> tpage]
      <4>1. \A k \in Calls : Delivered(k)' => Delivered(k) \/ k = c
        BY <2>2, DeliverMonotone
      <4>2. c.id = treq.id
        OBVIOUS
      <4> HIDE DEF c
      <4> QED
        BY <4>1, <4>2 DEF Calls
    <3>3. AnnouncedFirst'
      BY <2>1, <3>1, <3>2 DEF Provenance, AnnouncedFirst, Justified
    <3> QED
      BY <2>1, <3>1, <3>3 DEF Provenance, Linked
  <2>3. CASE UNCHANGED <<history, tpage>>
    BY <1>3, <2>1, <2>3, ProvenanceFrame
  <2> QED
    BY <1>3, <2>2, <2>3 DEF ThreadPage
<1>4. CASE ThreadRetry
  BY <1>4, ProvenanceFrame DEF ThreadRetry, ThreadBusy
<1> QED
  BY <1>1, <1>2, <1>3, <1>4 DEF ThreadWorker

LEMMA NextProvenance == TypeOK /\ Control /\ Provenance /\ [Next]_vars => Provenance'
<1> SUFFICES ASSUME TypeOK, Control, Provenance, [Next]_vars PROVE Provenance'
  OBVIOUS
<1>t. pc \in [Workers -> Labels] /\ after \in [Workers -> Resumes]
  BY DEF TypeOK
<1> USE DEF Goto, Raise, queues, chanVars, threadVars, history
<1>1. ASSUME NEW w \in Workers, SendResult(w) PROVE Provenance'
  BY <1>1, <1>t, ProvenanceFrame DEF SendResult, ThreadBusy, Workers, Resumes
<1>2. ASSUME NEW w \in Workers, SeeCancel(w) \/ Exit(w) PROVE Provenance'
  BY <1>2, <1>t, ProvenanceFrame DEF SeeCancel, Exit, ThreadBusy, Workers
<1>3. CASE Sentinel \/ Consume \/ Return \/ Cancel \/ UNCHANGED vars
  BY <1>3, ProvenanceFrame DEF Sentinel, Consume, Return, Cancel, vars, ThreadBusy
<1> QED
  BY <1>1, <1>2, <1>3, MainProvenance, ChannelProvenance, ThreadProvenance DEF Next

-----------------------------------------------------------------------------

LEMMA Invariance == Spec => []IInv
<1>1. IInv /\ [Next]_vars => IInv'
  BY NextTypeOK, NextControl, NextProvenance DEF IInv
<1> QED
  BY <1>1, InitIInv, PTL DEF Spec

\* The variables of Conversations keep their types and no Go channel exceeds its
\* capacity, for every workspace and every capacity.
THEOREM TypeCorrect == Spec => []TypeOK
BY Invariance, PTL DEF IInv

\* procChanMsg's ordering: whatever the interleaving of the two workers, errors and
\* cancellation, the processor has been told of a thread before it gets its replies.
THEOREM ThreadsAreAnnounced == Spec => []AnnouncedFirst
<1>1. IInv => AnnouncedFirst
  BY DEF IInv, Provenance
<1> QED
  BY <1>1, Invariance, PTL
-----------------------------------------------------------------------------
(* The end: the goroutines leave in the order that closing the Go channels *)
(* imposes, a send on a closed channel takes a cancelled context, and a    *)
(* nil return leaves nothing behind.                                       *)


Leaving(w) == pc[w] \in {"exit", "done"} \/ (pc[w] = "send" /\ after[w] = "exit")

\* A Go channel is closed only by a goroutine that has left, the result channel when all
\* have; the channel worker leaves after the main loop unless the context is done.
Order ==
  /\ "chans" \in closed => pc["main"] = "done"
  /\ "threads" \in closed => pc["channel"] = "done"
  /\ "results" \in closed => \A w \in Workers : pc[w] = "done"
  /\ \A w \in Workers : pc[w] = "send" /\ after[w] = "exit" => cancelled /\ out[w].err = "fatal"
  /\ Leaving("channel") => "chans" \in closed \/ cancelled
  /\ panicked => cancelled

\* An error that will make Conversations fail, or already has.
Doomed ==
  \/ status = "failed"
  \/ \E i \in 1..Len(resultsC) : resultsC[i].err = "fatal"
  \/ \E w \in Workers : pc[w] = "send" /\ out[w].err = "fatal"

\* A worker that has left its loop took everything it was sent, or an error is on its way.
Drained ==
  /\ pc["channel"] \in {"exit", "done"} => (chansC = <<>> /\ "chans" \in closed) \/ Doomed
  /\ pc["thread"] \in {"exit", "done"} => (threadsC = <<>> /\ "threads" \in closed) \/ Doomed

Quiet == status = "ok" => "results" \in closed /\ resultsC = <<>>

EndInv == Order /\ Drained /\ Quiet

-----------------------------------------------------------------------------

LEMMA InitEnd == Init => EndInv
<1> SUFFICES ASSUME Init PROVE EndInv
  OBVIOUS
<1>1. \A w \in Workers : pc[w] = "loop"
  BY DEF Init
<1>2. closed = {} /\ ~panicked /\ status = "run"
  BY DEF Init
<1> QED
  BY <1>1, <1>2 DEF EndInv, Order, Leaving, Drained, Quiet, Workers

\* What a step of one goroutine may do to the control points of the others: nothing.
LEMMA OnlyOne ==
  ASSUME TypeOK, NEW w \in Workers, NEW l, Goto(w, l)
  PROVE  pc'[w] = l /\ \A v \in Workers \ {w} : pc'[v] = pc[v]
BY DEF TypeOK, Goto

LEMMA RaiseOne ==
  ASSUME TypeOK, NEW w \in Workers, NEW r, NEW l, Raise(w, r, l)
  PROVE  /\ pc'[w] = "send" /\ out'[w] = r /\ after'[w] = l
         /\ \A v \in Workers \ {w} : pc'[v] = pc[v] /\ out'[v] = out[v] /\ after'[v] = after[v]
BY DEF TypeOK, Raise, Goto

-----------------------------------------------------------------------------
(* The order of leaving.                                                   *)

\* A step of w that is neither the end of its loop nor a cancellation seen.
LEMMA OrderFrame ==
  ASSUME TypeOK, Order, NEW w \in Workers, pc[w] \notin {"exit", "done"},
         pc'[w] \notin {"exit", "done"}, pc'[w] = "send" => after'[w] # "exit",
         \A v \in Workers \ {w} : pc'[v] = pc[v] /\ out'[v] = out[v] /\ after'[v] = after[v],
         UNCHANGED <<closed, cancelled>>, panicked' => panicked \/ cancelled
  PROVE  Order'
BY DEF Order, Leaving, Workers

LEMMA MainOrder == ASSUME TypeOK, Order, ~panicked, Main PROVE Order'
<1> USE DEF queues, chanVars, threadVars, history
<1>w. "main" \in Workers
  BY DEF Workers
<1>1. CASE MainTake
  <2>1. CASE Raise("main", Failure("main", "-", "fatal"), "loop")
    BY <1>1, <1>w, <2>1, RaiseOne, OrderFrame DEF MainTake
  <2>2. CASE /\ Goto("main", IF Head(links).kind = "thread" THEN "putThread" ELSE "putChan")
             /\ UNCHANGED <<out, after>>
    BY <1>1, <1>w, <2>2, OnlyOne, OrderFrame DEF MainTake
  <2> QED
    BY <1>1, <2>1, <2>2 DEF MainTake
<1>2. CASE MainEnd
  <2>1. pc'["main"] = "exit" /\ \A v \in Workers \ {"main"} : pc'[v] = pc[v]
    BY <1>2, <1>w, OnlyOne DEF MainEnd
  <2>2. pc["main"] = "loop" /\ UNCHANGED <<closed, after, out, cancelled, panicked>>
    BY <1>2 DEF MainEnd
  <2> QED
    BY <2>1, <2>2 DEF Order, Leaving, Workers
<1>3. CASE MainPutChan
  BY <1>3, <1>w, OnlyOne, OrderFrame DEF MainPutChan
<1>4. CASE MainPutThread
  \* The channel worker has closed threadsC while the main loop runs: it was cancelled.
  <2>1. "threads" \in closed => cancelled
    BY <1>4 DEF MainPutThread, Order, Leaving, Workers
  <2>2. panicked' => panicked \/ cancelled
    BY <1>4, <2>1 DEF MainPutThread, PutThread
  <2> QED
    BY <1>4, <1>w, <2>2, OnlyOne, OrderFrame DEF MainPutThread
<1> QED
  BY <1>1, <1>2, <1>3, <1>4 DEF Main

LEMMA InfoOrder ==
  ASSUME TypeOK, Order, NEW w \in Workers, NEW id, Info(w, id), UNCHANGED <<closed, cancelled, panicked>>
  PROVE  Order'
<1>1. CASE Goto(w, "page") /\ UNCHANGED <<after, out>>
  BY <1>1, OnlyOne, OrderFrame DEF Info
<1>2. CASE \E e : Raise(w, Failure(w, id, e), "loop")
  BY <1>2, RaiseOne, OrderFrame DEF Info
<1> QED
  BY <1>1, <1>2 DEF Info

LEMMA ChannelOrder == ASSUME TypeOK, Order, ~panicked, ChannelWorker PROVE Order'
<1> USE DEF queues, chanVars, threadVars, history
<1>w. "channel" \in Workers
  BY DEF Workers
<1>1. CASE ChanRecv
  <2>1. CASE Goto("channel", "info")
    BY <1>1, <1>w, <2>1, OnlyOne, OrderFrame DEF ChanRecv
  <2>2. CASE "chans" \in closed /\ Goto("channel", "exit")
    <3>1. pc'["channel"] = "exit" /\ \A v \in Workers \ {"channel"} : pc'[v] = pc[v]
      BY <1>w, <2>2, OnlyOne
    <3>2. pc["channel"] = "loop" /\ UNCHANGED <<closed, after, out, cancelled, panicked>>
      BY <1>1 DEF ChanRecv
    <3> QED
      BY <2>2, <3>1, <3>2 DEF Order, Leaving, Workers
  <2> QED
    BY <1>1, <2>1, <2>2 DEF ChanRecv
<1>2. CASE ChanInfo
  BY <1>2, <1>w, InfoOrder DEF ChanInfo, Info
<1>3. CASE ChanPage
  <2>1. CASE Goto("channel", "spawn") /\ UNCHANGED <<after, out>>
    BY <1>3, <1>w, <2>1, OnlyOne, OrderFrame DEF ChanPage
  <2>2. CASE Raise("channel", Failure("channel", creq, "fatal"), "loop")
    BY <1>3, <1>w, <2>2, RaiseOne, OrderFrame DEF ChanPage
  <2> QED
    BY <1>3, <2>1, <2>2 DEF ChanPage
<1>4. CASE ChanSpawn
  \* The channel worker is the one that closes threadsC, when it has left.
  <2>1. "threads" \notin closed
    BY <1>4 DEF ChanSpawn, Order
  <2>2. UNCHANGED <<pc, out, after, closed, cancelled, panicked>>
    BY <1>4, <2>1 DEF ChanSpawn, PutThread
  <2> QED
    BY <2>2 DEF Order, Leaving
<1>5. CASE ChanReport
  <2>1. PICK r : Raise("channel", r, IF cpage = Len(Pages[creq]) THEN "loop" ELSE "page")
    BY <1>5 DEF ChanReport
  <2> QED
    BY <1>5, <1>w, <2>1, RaiseOne, OrderFrame DEF ChanReport
<1> QED
  BY <1>1, <1>2, <1>3, <1>4, <1>5 DEF ChannelWorker

LEMMA ThreadOrder == ASSUME TypeOK, Order, ~panicked, ThreadWorker PROVE Order'
<1> USE DEF queues, chanVars, threadVars, history
<1>w. "thread" \in Workers
  BY DEF Workers
<1>1. CASE ThreadRecv
  <2>1. CASE Goto("thread", IF Head(threadsC).only THEN "info" ELSE "page")
    BY <1>1, <1>w, <2>1, OnlyOne, OrderFrame DEF ThreadRecv
  <2>2. CASE Goto("thread", "exit")
    <3>1. pc'["thread"] = "exit" /\ \A v \in Workers \ {"thread"} : pc'[v] = pc[v]
      BY <1>w, <2>2, OnlyOne
    <3>2. pc["thread"] = "loop" /\ UNCHANGED <<closed, after, out, cancelled, panicked>>
      BY <1>1 DEF ThreadRecv
    <3> QED
      BY <3>1, <3>2 DEF Order, Leaving, Workers
  <2> QED
    BY <1>1, <2>1, <2>2 DEF ThreadRecv
<1>2. CASE ThreadInfo
  BY <1>2, <1>w, InfoOrder DEF ThreadInfo, Info
<1>3. CASE ThreadPage
  <2> DEFINE isLast == tpage = Replies[treq.id]
  <2>1. CASE Raise("thread", Success("thread", treq.id, isLast), IF isLast THEN "loop" ELSE "page")
    BY <1>3, <1>w, <2>1, RaiseOne, OrderFrame DEF ThreadPage
  <2>2. CASE Raise("thread", Failure("thread", treq.id, "fatal"), "loop")
    BY <1>3, <1>w, <2>2, RaiseOne, OrderFrame DEF ThreadPage
  <2> QED
    BY <1>3, <2>1, <2>2 DEF ThreadPage
<1>4. CASE ThreadRetry
  BY <1>4 DEF ThreadRetry, Order, Leaving
<1> QED
  BY <1>1, <1>2, <1>3, <1>4 DEF ThreadWorker

LEMMA NextOrder == TypeOK /\ Order /\ [Next]_vars => Order'
<1> SUFFICES ASSUME TypeOK, Order, [Next]_vars PROVE Order'
  OBVIOUS
<1> USE DEF queues, chanVars, threadVars, history
<1>1. ASSUME NEW w \in Workers, SendResult(w) PROVE Order'
  <2>1. pc'[w] = after[w] /\ \A v \in Workers \ {w} : pc'[v] = pc[v]
    BY <1>1, OnlyOne DEF SendResult
  <2>2. pc[w] = "send" /\ after[w] # "send" /\ after[w] # "done"
    BY <1>1 DEF SendResult, TypeOK, Resumes
  <2>3. UNCHANGED <<closed, out, after, cancelled, panicked>>
    BY <1>1 DEF SendResult
  <2> QED
    BY <2>1, <2>2, <2>3 DEF Order, Leaving, Workers
<1>2. ASSUME NEW w \in Workers, SeeCancel(w) PROVE Order'
  <2>1. /\ pc'[w] = "send" /\ out'[w] = Failure(w, "-", "fatal") /\ after'[w] = "exit"
        /\ \A v \in Workers \ {w} : pc'[v] = pc[v] /\ out'[v] = out[v] /\ after'[v] = after[v]
    BY <1>2, RaiseOne DEF SeeCancel
  <2>2. out'[w].err = "fatal"
    BY <2>1 DEF Failure
  <2>3. pc[w] = "loop" /\ cancelled /\ UNCHANGED <<closed, cancelled, panicked>>
    BY <1>2 DEF SeeCancel
  <2> QED
    BY <2>1, <2>2, <2>3 DEF Order, Leaving, Workers
<1>3. ASSUME NEW w \in Workers, Exit(w) PROVE Order'
  <2>1. pc'[w] = "done" /\ \A v \in Workers \ {w} : pc'[v] = pc[v]
    BY <1>3, OnlyOne DEF Exit
  <2>2. pc[w] = "exit" /\ closed' = closed \cup Closes(w)
    BY <1>3 DEF Exit
  <2>3. Closes(w) = (IF w = "main" THEN {"chans"} ELSE IF w = "channel" THEN {"threads"} ELSE {})
    BY DEF Closes, Workers
  <2>4. UNCHANGED <<out, after, cancelled, panicked>>
    BY <1>3 DEF Exit
  <2> QED
    BY <2>1, <2>2, <2>3, <2>4 DEF Order, Leaving, Workers
<1>4. CASE Sentinel
  BY <1>4 DEF Sentinel, Order, Leaving
<1>5. CASE Consume \/ Return \/ Cancel \/ UNCHANGED vars
  BY <1>5 DEF Consume, Return, Cancel, vars, Order, Leaving
<1> QED
  BY <1>1, <1>2, <1>3, <1>4, <1>5, MainOrder, ChannelOrder, ThreadOrder DEF Next

-----------------------------------------------------------------------------
(* An error on its way arrives.                                            *)

\* A goroutine that does not send its result leaves it pending.
LEMMA DoomedFrame ==
  ASSUME Doomed, UNCHANGED <<resultsC, status>>,
         \A w \in Workers : pc[w] = "send" => pc'[w] = "send" /\ out'[w] = out[w]
  PROVE  Doomed'
BY DEF Doomed

LEMMA MainDoomed == ASSUME TypeOK, Doomed, Main PROVE Doomed'
<1>w. "main" \in Workers
  BY DEF Workers
<1>1. \A w \in Workers : pc[w] = "send" => pc'[w] = "send" /\ out'[w] = out[w]
  BY <1>w DEF Main, MainTake, MainEnd, MainPutChan, MainPutThread, Goto, Raise, TypeOK
<1>2. UNCHANGED <<resultsC, status>>
  BY DEF Main, MainTake, MainEnd, MainPutChan, MainPutThread, queues
<1> QED
  BY <1>1, <1>2, DoomedFrame

LEMMA ChannelDoomed == ASSUME TypeOK, Doomed, ChannelWorker PROVE Doomed'
<1>w. "channel" \in Workers
  BY DEF Workers
<1>1. \A w \in Workers : pc[w] = "send" => pc'[w] = "send" /\ out'[w] = out[w]
  BY <1>w DEF ChannelWorker, ChanRecv, ChanInfo, Info, ChanPage, ChanSpawn, ChanReport, Goto, Raise, TypeOK
<1>2. UNCHANGED <<resultsC, status>>
  BY DEF ChannelWorker, ChanRecv, ChanInfo, Info, ChanPage, ChanSpawn, ChanReport, queues
<1> QED
  BY <1>1, <1>2, DoomedFrame

LEMMA ThreadDoomed == ASSUME TypeOK, Doomed, ThreadWorker PROVE Doomed'
<1>w. "thread" \in Workers
  BY DEF Workers
<1>1. \A w \in Workers : pc[w] = "send" => pc'[w] = "send" /\ out'[w] = out[w]
  BY <1>w DEF ThreadWorker, ThreadRecv, ThreadInfo, Info, ThreadPage, ThreadRetry, Goto, Raise, TypeOK
<1>2. UNCHANGED <<resultsC, status>>
  BY DEF ThreadWorker, ThreadRecv, ThreadInfo, Info, ThreadPage, ThreadRetry, queues
<1> QED
  BY <1>1, <1>2, DoomedFrame

LEMMA SendDoomed ==
  ASSUME TypeOK, NEW w \in Workers, SendResult(w), Doomed \/ out[w].err = "fatal"
  PROVE  Doomed'
<1>1. /\ resultsC \in Seq(Result) /\ out[w] \in Result /\ resultsC' = Append(resultsC, out[w])
      /\ status' = status /\ out' = out
  BY DEF TypeOK, SendResult
<1>2. /\ Len(resultsC) \in Nat /\ Len(resultsC') = Len(resultsC) + 1
      /\ resultsC'[Len(resultsC) + 1] = out[w]
      /\ \A i \in 1..Len(resultsC) : resultsC'[i] = resultsC[i] /\ i \in 1..Len(resultsC')
  BY <1>1
<1>3. Len(resultsC) + 1 \in 1..Len(resultsC')
  BY <1>2
<1>4. CASE out[w].err = "fatal"
  BY <1>2, <1>3, <1>4 DEF Doomed
<1>5. CASE status = "failed"
  BY <1>1, <1>5 DEF Doomed
<1>6. CASE \E i \in 1..Len(resultsC) : resultsC[i].err = "fatal"
  BY <1>2, <1>6 DEF Doomed
<1>7. ASSUME NEW v \in Workers \ {w}, pc[v] = "send", out[v].err = "fatal" PROVE Doomed'
  <2>1. pc'[v] = "send" /\ out'[v] = out[v]
    BY <1>1, <1>7, OnlyOne DEF SendResult
  <2> QED
    BY <1>7, <2>1 DEF Doomed
<1> QED
  BY <1>4, <1>5, <1>6, <1>7 DEF Doomed

LEMMA ConsumeDoomed == ASSUME TypeOK, Doomed, Consume PROVE Doomed'
<1>1. /\ resultsC \in Seq(Result) /\ resultsC # <<>> /\ resultsC' = Tail(resultsC)
      /\ status = "run" /\ UNCHANGED <<pc, out>>
  BY DEF TypeOK, Consume
<1>2. /\ Len(resultsC) \in Nat /\ Head(resultsC) = resultsC[1]
      /\ \A i \in 1..Len(resultsC) : i # 1 => i - 1 \in 1..Len(resultsC') /\ resultsC'[i - 1] = resultsC[i]
  BY <1>1
<1>3. CASE resultsC[1].err = "fatal"
  BY <1>2, <1>3 DEF Consume, Skipped, Doomed
<1>4. ASSUME NEW i \in 1..Len(resultsC), i # 1, resultsC[i].err = "fatal" PROVE Doomed'
  BY <1>2, <1>4 DEF Doomed
<1>5. ASSUME NEW w \in Workers, pc[w] = "send", out[w].err = "fatal" PROVE Doomed'
  BY <1>1, <1>5 DEF Doomed
<1> QED
  BY <1>1, <1>3, <1>4, <1>5 DEF Doomed

\* Conversations cannot return nil any more.
LEMMA ReturnDoomed == ASSUME TypeOK, Order, Doomed, Return PROVE FALSE
<1>1. status = "run" /\ resultsC = <<>> /\ \A w \in Workers : pc[w] = "done"
  BY DEF Return, Order
<1> QED
  BY <1>1 DEF Doomed

LEMMA DoomedStays == TypeOK /\ Order /\ Doomed /\ [Next]_vars => Doomed'
<1> SUFFICES ASSUME TypeOK, Order, Doomed, [Next]_vars PROVE Doomed'
  OBVIOUS
<1>1. ASSUME NEW w \in Workers, SeeCancel(w) \/ Exit(w) PROVE Doomed'
  <2>1. \A v \in Workers : pc[v] = "send" => pc'[v] = "send" /\ out'[v] = out[v]
    BY <1>1 DEF SeeCancel, Exit, Goto, Raise, TypeOK
  <2>2. UNCHANGED <<resultsC, status>>
    BY <1>1 DEF SeeCancel, Exit, queues
  <2> QED
    BY <2>1, <2>2, DoomedFrame
<1>2. CASE Sentinel \/ Cancel \/ UNCHANGED vars
  BY <1>2, DoomedFrame DEF Sentinel, Cancel, vars, queues
<1> QED
  BY <1>1, <1>2, MainDoomed, ChannelDoomed, ThreadDoomed, SendDoomed, ConsumeDoomed, ReturnDoomed
  DEF Next

-----------------------------------------------------------------------------
(* What a worker leaves behind.                                            *)

ChansDry == chansC = <<>> /\ "chans" \in closed
ThreadsDry == threadsC = <<>> /\ "threads" \in closed

\* A closed and empty Go channel stays so.
LEMMA ChansDryStays == Order /\ ChansDry /\ [Next]_vars => ChansDry'
<1> SUFFICES ASSUME Order, ChansDry, [Next]_vars PROVE ChansDry'
  OBVIOUS
<1> USE DEF queues
<1>m. pc["main"] = "done"
  BY DEF Order, ChansDry
<1>1. CASE Main
  BY <1>1, <1>m DEF Main, MainTake, MainEnd, MainPutChan, MainPutThread, ChansDry
<1>2. CASE ChannelWorker
  BY <1>2 DEF ChannelWorker, ChanRecv, ChanInfo, Info, ChanPage, ChanSpawn, ChanReport, ChansDry
<1>3. CASE ThreadWorker
  BY <1>3 DEF ThreadWorker, ThreadRecv, ThreadInfo, Info, ThreadPage, ThreadRetry, ChansDry
<1>4. ASSUME NEW w \in Workers, SendResult(w) \/ SeeCancel(w) \/ Exit(w) PROVE ChansDry'
  BY <1>4 DEF SendResult, SeeCancel, Exit, ChansDry
<1>5. CASE Sentinel \/ Consume \/ Return \/ Cancel \/ UNCHANGED vars
  BY <1>5 DEF Sentinel, Consume, Return, Cancel, vars, ChansDry
<1> QED
  BY <1>1, <1>2, <1>3, <1>4, <1>5 DEF Next

LEMMA ThreadsDryStays == ThreadsDry /\ [Next]_vars => ThreadsDry'
<1> SUFFICES ASSUME ThreadsDry, [Next]_vars PROVE ThreadsDry'
  OBVIOUS
<1> USE DEF queues
<1>1. CASE Main
  BY <1>1 DEF Main, MainTake, MainEnd, MainPutChan, MainPutThread, PutThread, ThreadsDry
<1>2. CASE ChannelWorker
  BY <1>2 DEF ChannelWorker, ChanRecv, ChanInfo, Info, ChanPage, ChanSpawn, ChanReport, PutThread, ThreadsDry
<1>3. CASE ThreadWorker
  BY <1>3 DEF ThreadWorker, ThreadRecv, ThreadInfo, Info, ThreadPage, ThreadRetry, ThreadsDry
<1>4. ASSUME NEW w \in Workers, SendResult(w) \/ SeeCancel(w) \/ Exit(w) PROVE ThreadsDry'
  BY <1>4 DEF SendResult, SeeCancel, Exit, ThreadsDry
<1>5. CASE Sentinel \/ Consume \/ Return \/ Cancel \/ UNCHANGED vars
  BY <1>5 DEF Sentinel, Consume, Return, Cancel, vars, ThreadsDry
<1> QED
  BY <1>1, <1>2, <1>3, <1>4, <1>5 DEF Next

\* A worker leaves because its Go channel is closed and empty, or with an error.
LEMMA LeavesDry ==
  ASSUME TypeOK, Order, [Next]_vars
  PROVE  /\ pc["channel"] \notin {"exit", "done"} /\ pc'["channel"] \in {"exit", "done"} => ChansDry' \/ Doomed'
         /\ pc["thread"] \notin {"exit", "done"} /\ pc'["thread"] \in {"exit", "done"} => ThreadsDry' \/ Doomed'
<1> DEFINE Stays(w) == pc[w] \notin {"exit", "done"} => pc'[w] \notin {"exit", "done"}
<1> USE DEF Goto, Raise
<1>t. pc \in [Workers -> Labels] /\ "channel" \in Workers /\ "thread" \in Workers /\ "main" \in Workers
  BY DEF TypeOK, Workers
<1>1. CASE Main
  <2>1. Stays("channel") /\ Stays("thread")
    BY <1>1, <1>t DEF Main, MainTake, MainEnd, MainPutChan, MainPutThread
  <2> QED
    BY <2>1
<1>2. CASE ChannelWorker
  <2>1. Stays("thread")
    BY <1>2, <1>t DEF ChannelWorker, ChanRecv, ChanInfo, Info, ChanPage, ChanSpawn, ChanReport
  <2>2. CASE ChanRecv
    <3>1. CASE pc'["channel"] = "info"
      BY <2>1, <3>1
    <3>2. CASE chansC = <<>> /\ "chans" \in closed /\ UNCHANGED <<creq, chansC>>
      BY <2>1, <2>2, <3>2 DEF ChanRecv, ChansDry
    <3> QED
      BY <1>t, <2>2, <3>1, <3>2 DEF ChanRecv
  <2>3. CASE ChanInfo \/ ChanPage \/ ChanSpawn \/ ChanReport
    <3>1. Stays("channel")
      BY <1>t, <2>3 DEF ChanInfo, Info, ChanPage, ChanSpawn, ChanReport
    <3> QED
      BY <2>1, <3>1
  <2> QED
    BY <1>2, <2>2, <2>3 DEF ChannelWorker
<1>3. CASE ThreadWorker
  <2>1. Stays("channel")
    BY <1>3, <1>t DEF ThreadWorker, ThreadRecv, ThreadInfo, Info, ThreadPage, ThreadRetry
  <2>2. CASE ThreadRecv
    <3>1. CASE pc'["thread"] \in {"info", "page"}
      BY <2>1, <3>1
    <3>2. CASE threadsC = <<>> /\ "threads" \in closed /\ UNCHANGED <<treq, tpage, threadsC>>
      BY <2>1, <2>2, <3>2 DEF ThreadRecv, ThreadsDry
    <3> QED
      BY <1>t, <2>2, <3>1, <3>2 DEF ThreadRecv
  <2>3. CASE ThreadInfo \/ ThreadPage \/ ThreadRetry
    <3>1. Stays("thread")
      BY <1>t, <2>3 DEF ThreadInfo, Info, ThreadPage, ThreadRetry
    <3> QED
      BY <2>1, <3>1
  <2> QED
    BY <1>3, <2>2, <2>3 DEF ThreadWorker
<1>4. ASSUME NEW w \in Workers, SendResult(w)
      PROVE  Doomed' \/ (Stays("channel") /\ Stays("thread"))
  <2>1. CASE after[w] = "exit"
    <3>1. out[w].err = "fatal"
      BY <1>4, <2>1 DEF Order, SendResult
    <3> QED
      BY <1>4, <3>1, SendDoomed
  <2>2. CASE after[w] # "exit"
    <3>1. after[w] \in {"loop", "page"}
      BY <2>2 DEF TypeOK, Resumes
    <3> QED
      BY <1>4, <1>t, <3>1 DEF SendResult
  <2> QED
    BY <2>1, <2>2
<1>5. ASSUME NEW w \in Workers, SeeCancel(w) \/ Exit(w) PROVE Stays("channel") /\ Stays("thread")
  BY <1>5, <1>t DEF SeeCancel, Exit
<1>6. CASE Sentinel \/ Consume \/ Return \/ Cancel \/ UNCHANGED vars
  <2>1. Stays("channel") /\ Stays("thread")
    BY <1>6 DEF Sentinel, Consume, Return, Cancel, vars
  <2> QED
    BY <2>1
<1> QED
  BY <1>1, <1>2, <1>3, <1>4, <1>5, <1>6 DEF Next

LEMMA NextDrained == TypeOK /\ Order /\ Drained /\ [Next]_vars => Drained'
<1> SUFFICES ASSUME TypeOK, Order, Drained, [Next]_vars PROVE Drained'
  OBVIOUS
<1>1. pc'["channel"] \in {"exit", "done"} => ChansDry' \/ Doomed'
  <2>1. CASE pc["channel"] \in {"exit", "done"}
    <3>1. ChansDry \/ Doomed
      BY <2>1 DEF Drained, ChansDry
    <3> QED
      BY <3>1, ChansDryStays, DoomedStays
  <2> QED
    BY <2>1, LeavesDry
<1>2. pc'["thread"] \in {"exit", "done"} => ThreadsDry' \/ Doomed'
  <2>1. CASE pc["thread"] \in {"exit", "done"}
    <3>1. ThreadsDry \/ Doomed
      BY <2>1 DEF Drained, ThreadsDry
    <3> QED
      BY <3>1, ThreadsDryStays, DoomedStays
  <2> QED
    BY <2>1, LeavesDry
<1> QED
  BY <1>1, <1>2 DEF Drained, ChansDry, ThreadsDry

LEMMA NextQuiet == TypeOK /\ Order /\ Quiet /\ [Next]_vars => Quiet'
<1> SUFFICES ASSUME TypeOK, Order, Quiet, [Next]_vars, status' = "ok"
             PROVE  "results" \in closed' /\ resultsC' = <<>>
  BY DEF Quiet
<1>1. CASE status # "ok"
  <2>1. CASE Return
    BY <2>1 DEF Return, queues
  <2>2. status' = status \/ status' \in {"run", "failed"} \/ Return
    <3>1. CASE Main \/ ChannelWorker \/ ThreadWorker
      BY <3>1 DEF Main, MainTake, MainEnd, MainPutChan, MainPutThread, ChannelWorker, ChanRecv,
         ChanInfo, Info, ChanPage, ChanSpawn, ChanReport, ThreadWorker, ThreadRecv, ThreadInfo,
         ThreadPage, ThreadRetry
    <3>2. ASSUME NEW w \in Workers, SendResult(w) \/ SeeCancel(w) \/ Exit(w) PROVE status' = status
      BY <3>2 DEF SendResult, SeeCancel, Exit
    <3>3. CASE Sentinel \/ Consume \/ Cancel \/ UNCHANGED vars
      BY <3>3 DEF Sentinel, Consume, Cancel, vars
    <3> QED
      BY <3>1, <3>2, <3>3 DEF Next
  <2> QED
    BY <1>1, <2>1, <2>2
<1>2. CASE status = "ok"
  <2>1. "results" \in closed /\ resultsC = <<>> /\ \A w \in Workers : pc[w] = "done"
    BY <1>2 DEF Quiet, Order
  <2>2. pc["main"] = "done" /\ pc["channel"] = "done" /\ pc["thread"] = "done"
    BY <2>1 DEF Workers
  <2>3. ~Main /\ ~ChannelWorker /\ ~ThreadWorker
    BY <2>2 DEF Main, MainTake, MainEnd, MainPutChan, MainPutThread, ChannelWorker, ChanRecv,
       ChanInfo, Info, ChanPage, ChanSpawn, ChanReport, ThreadWorker, ThreadRecv, ThreadInfo,
       ThreadPage, ThreadRetry
  <2>4. ~\E w \in Workers : SendResult(w) \/ SeeCancel(w) \/ Exit(w)
    BY <2>1 DEF SendResult, SeeCancel, Exit
  <2>5. CASE Sentinel \/ Consume \/ Return \/ Cancel \/ UNCHANGED vars
    BY <1>2, <2>1, <2>5 DEF Sentinel, Consume, Return, Cancel, vars, queues
  <2> QED
    BY <2>3, <2>4, <2>5 DEF Next
<1> QED
  BY <1>1, <1>2

-----------------------------------------------------------------------------

LEMMA EndInvariance == Spec => []EndInv
<1>1. IInv /\ EndInv /\ [Next]_vars => EndInv'
  BY NextOrder, NextDrained, NextQuiet DEF IInv, EndInv
<1> QED
  BY <1>1, InitEnd, Invariance, PTL DEF Spec

\* A send on a closed Go channel, which aborts the process, takes a cancelled context:
\* without one the channel worker outlives every send of the main loop.
THEOREM PanicTakesCancellation == Spec => []PanicNeedsCancel
<1>1. EndInv => PanicNeedsCancel
  BY DEF EndInv, Order, PanicNeedsCancel
<1> QED
  BY <1>1, EndInvariance, PTL

\* After a nil return of Conversations every goroutine has ended and the Go channels are
\* empty, so that nothing calls the processor any more, for every workspace and capacity.
THEOREM NilReturnIsQuiet == Spec => []QuietOnSuccess
<1>1. EndInv => QuietOnSuccess
  <2> SUFFICES ASSUME EndInv, status = "ok"
               PROVE  /\ \A w \in Workers : pc[w] = "done"
                      /\ chansC = <<>> /\ threadsC = <<>> /\ resultsC = <<>>
    BY DEF QuietOnSuccess
  <2>1. resultsC = <<>> /\ \A w \in Workers : pc[w] = "done"
    BY DEF EndInv, Quiet, Order
  <2>2. ~Doomed
    BY <2>1 DEF Doomed
  <2>3. pc["channel"] = "done" /\ pc["thread"] = "done"
    BY <2>1 DEF Workers
  <2>4. chansC = <<>> /\ threadsC = <<>>
    BY <2>2, <2>3 DEF EndInv, Drained
  <2> QED
    BY <2>1, <2>4
<1> QED
  BY <1>1, EndInvariance, PTL

-----------------------------------------------------------------------------
(* After an error return nobody reads results: each call of a worker is followed by a send that *)
(* takes room in the result channel for good.                                                    *)

Calling == {"spawn", "send"}
Behind(w) == IF pc[w] \in Calling THEN 1 ELSE 0
Straggling ==
  /\ status = "run" => late = 0
  /\ late <= Len(resultsC) + Behind("channel") + Behind("thread")

LEMMA NextStraggling == TypeOK /\ Straggling /\ [Next]_vars => Straggling'
<1> SUFFICES ASSUME TypeOK, Straggling, [Next]_vars PROVE Straggling'
  OBVIOUS
<1>1. /\ late \in Nat /\ Len(resultsC) \in Nat /\ pc \in [Workers -> Labels]
      /\ "channel" \in Workers /\ "thread" \in Workers /\ "main" \in Workers
      /\ resultsC \in Seq(Result) /\ out \in [Workers -> Result] /\ after \in [Workers -> Resumes]
      /\ Behind("channel") \in {0, 1} /\ Behind("thread") \in {0, 1}
  BY DEF TypeOK, Workers, Behind
<1>2. ASSUME UNCHANGED <<late, resultsC, status>>, Behind("channel")' >= Behind("channel"),
             Behind("thread")' >= Behind("thread")
      PROVE  Straggling'
  <2>1. Behind("channel")' \in {0, 1} /\ Behind("thread")' \in {0, 1}
    BY DEF Behind
  <2> QED
    BY <1>1, <1>2, <2>1 DEF Straggling
<1>3. CASE Main
  BY <1>1, <1>2, <1>3 DEF Main, MainTake, MainEnd, MainPutChan, MainPutThread, Goto, Raise, queues,
     history, Behind
<1>4. CASE ChanPage
  <2>1. CASE UNCHANGED history
    BY <1>1, <1>2, <1>4, <2>1 DEF ChanPage, Goto, Raise, queues, history, Behind, Calling
  <2>2. CASE Deliver(creq, cpage) /\ Goto("channel", "spawn")
    <3>1. /\ Behind("channel") = 0 /\ Behind("channel")' = 1 /\ Behind("thread")' = Behind("thread")
          /\ UNCHANGED <<resultsC, status>>
      BY <1>1, <1>4, <2>2 DEF ChanPage, Goto, queues, Behind, Calling
    <3> QED
      BY <1>1, <2>2, <3>1 DEF Deliver, Straggling
  <2> QED
    BY <1>4, <2>1, <2>2 DEF ChanPage
<1>5. CASE ThreadPage
  <2>1. CASE UNCHANGED history
    BY <1>1, <1>2, <1>5, <2>1 DEF ThreadPage, Goto, Raise, queues, history, Behind, Calling
  <2>2. CASE Deliver(treq.id, tpage) /\ Goto("thread", "send")
    <3>1. /\ Behind("thread") = 0 /\ Behind("thread")' = 1 /\ Behind("channel")' = Behind("channel")
          /\ UNCHANGED <<resultsC, status>>
      BY <1>1, <1>5, <2>2 DEF ThreadPage, Goto, queues, Behind, Calling
    <3> QED
      BY <1>1, <2>2, <3>1 DEF Deliver, Straggling
  <2> QED
    BY <1>5, <2>1, <2>2 DEF ThreadPage, Raise
<1>6. CASE ChanRecv \/ ChanInfo \/ ChanSpawn \/ ChanReport
  BY <1>1, <1>2, <1>6 DEF ChanRecv, ChanInfo, Info, ChanSpawn, ChanReport, Goto, Raise, queues,
     history, Behind, Calling
<1>7. CASE ThreadRecv \/ ThreadInfo \/ ThreadRetry
  BY <1>1, <1>2, <1>7 DEF ThreadRecv, ThreadInfo, ThreadRetry, Info, Goto, Raise, queues,
     history, Behind, Calling
<1>8. ASSUME NEW w \in Workers, SendResult(w) PROVE Straggling'
  <2>1. /\ pc[w] = "send" /\ resultsC' = Append(resultsC, out[w]) /\ UNCHANGED <<late, status>>
        /\ pc' = [pc EXCEPT ![w] = after[w]]
    BY <1>8 DEF SendResult, Goto, history
  <2>2. Len(resultsC') = Len(resultsC) + 1
    BY <1>1, <2>1
  <2>3. \/ Behind("channel")' = Behind("channel")
        \/ Behind("thread")' = Behind("thread")
    BY <1>1, <2>1 DEF Behind
  <2>4. Behind("channel")' \in {0, 1} /\ Behind("thread")' \in {0, 1}
    BY DEF Behind
  <2> QED
    BY <1>1, <2>1, <2>2, <2>3, <2>4 DEF Straggling
<1>9. ASSUME NEW w \in Workers, SeeCancel(w) \/ Exit(w) PROVE Straggling'
  BY <1>1, <1>2, <1>9 DEF SeeCancel, Exit, Goto, Raise, queues, history, Behind, Calling
<1>10. CASE Consume \/ Return
  <2>1. late = 0 /\ UNCHANGED late
    BY <1>10 DEF Straggling, Consume, Return, history
  <2>2. resultsC' \in Seq(Result)
    BY <1>1, <1>10 DEF Consume, Return, queues
  <2>3. Len(resultsC') \in Nat /\ Behind("channel")' \in {0, 1} /\ Behind("thread")' \in {0, 1}
    BY <2>2 DEF Behind
  <2> QED
    BY <2>1, <2>3 DEF Straggling
<1>11. CASE Sentinel \/ Cancel \/ UNCHANGED vars
  BY <1>1, <1>2, <1>11 DEF Sentinel, Cancel, vars, queues, history, Behind
<1> QED
  BY <1>3, <1>4, <1>5, <1>6, <1>7, <1>8, <1>9, <1>10, <1>11 DEF Next, ChannelWorker, ThreadWorker

\* However large the workspace, after an error return of Conversations the workers it leaves behind
\* call the processor at most once for each place in the result channel and once each.
THEOREM StragglersAreBounded == Spec => []StragglersBounded
<1>1. Init => Straggling
  BY DEF Init, Straggling, Behind, Calling, Workers
<1>2. IInv /\ Straggling /\ [Next]_vars => Straggling'
  BY NextStraggling DEF IInv
<1>3. IInv /\ Straggling => StragglersBounded
  <2> SUFFICES ASSUME IInv, Straggling PROVE StragglersBounded
    OBVIOUS
  <2>1. late \in Nat /\ Len(resultsC) \in Nat /\ Len(resultsC) <= ResultCap /\ ResultCap \in Nat
    BY StreamAssumption DEF IInv, TypeOK
  <2>2. Behind("channel") \in {0, 1} /\ Behind("thread") \in {0, 1}
    BY DEF Behind
  <2> QED
    BY <2>1, <2>2 DEF Straggling, StragglersBounded
<1> QED
  BY <1>1, <1>2, <1>3, Invariance, PTL DEF Spec

-----------------------------------------------------------------------------
(* A nil return of Conversations is complete, for any workspace, links,    *)
(* capacities and faults: every link has been fetched to its last page     *)
(* with all its threads, or was skipped as not found; and Conversations    *)
(* implements Delivery.                                                    *)

\* Which pages of an entity the processor has received: one, all up to n, all.
Touched(id) == \E k \in Calls : k.id = id /\ Delivered(k)
Got(id, n) == \A k \in Calls : k.id = id /\ k.page <= n => Delivered(k)
Full(id) == \A k \in Calls : k.id = id => Delivered(k)

MidThread ==
  \/ pc["thread"] = "page"
  \/ pc["thread"] = "send" /\ after["thread"] = "page"

\* Where the workers are in what they fetch.
Place ==
  /\ pc["thread"] = "info" => tpage = 1
  /\ MidThread => tpage \in 1..Replies[treq.id]
  /\ todo # <<>> => pc["channel"] = "spawn"
  /\ pc["main"] \in {"exit", "done"} => links = <<>> \/ Doomed
  /\ panicked => "results" \notin closed

\* The pages before the one a worker is at have been delivered, and an entity of which
\* there is a page is finished or in the hands of its worker.
ChannelPart ==
  /\ ChanBusy => Got(creq, cpage - 1)
  /\ pc["channel"] = "spawn" => Got(creq, cpage)
  /\ \A c \in Channels : Touched(c) => Full(c) \/ (ChanBusy /\ creq = c) \/ Doomed
ThreadPart ==
  /\ MidThread => Got(treq.id, tpage - 1)
  /\ \A t \in Threads : Touched(t) => Full(t) \/ (MidThread /\ treq.id = t) \/ Doomed

\* A link is on its way to its worker until the worker has its first page.
Waits(id) ==
  \/ \E j \in DOMAIN links : links[j].id = id
  \/ pc["main"] \in {"putChan", "putThread"} /\ held = id
  \/ \E j \in DOMAIN chansC : chansC[j] = id
  \/ \E j \in DOMAIN threadsC : threadsC[j].id = id
  \/ pc["channel"] \in {"info", "page"} /\ creq = id
  \/ pc["thread"] \in {"info", "page"} /\ treq.id = id
LinkKept(id) == Waits(id) \/ Touched(id) \/ "notfound" \in Faults \/ Doomed \/ panicked
LinksKept == \A i \in DOMAIN Links : LinkKept(Links[i].id)

\* And so is a thread that was found on a page delivered.
Requested(t) ==
  \/ \E j \in DOMAIN todo : todo[j] = t
  \/ \E j \in DOMAIN threadsC : threadsC[j] = [id |-> t, only |-> FALSE]
  \/ pc["thread"] = "page" /\ treq.id = t
ThreadKept(t) == Requested(t) \/ Touched(t) \/ Doomed \/ panicked
ThreadsKept == \A t \in Threads : Announced(t) => ThreadKept(t)

Progress == Place /\ ChannelPart /\ ThreadPart /\ LinksKept /\ ThreadsKept

-----------------------------------------------------------------------------
(* Calls, and what the processor has received.                             *)

LEMMA CallFacts ==
  /\ \A k \in Calls : k = [id |-> k.id, page |-> k.page]
  /\ \A k \in Calls : k.id \in Channels => k.page \in 1..Len(Pages[k.id])
  /\ \A k \in Calls : k.id \in Threads => k.page \in 1..Replies[k.id]
  /\ \A k \in Calls : k.id \in Channels \/ k.id \in Threads
  /\ \A c \in Channels : \A p \in 1..Len(Pages[c]) : [id |-> c, page |-> p] \in Calls
  /\ \A t \in Threads : \A p \in 1..Replies[t] : [id |-> t, page |-> p] \in Calls
<1>1. ASSUME NEW k \in ChanCalls
      PROVE  k = [id |-> k.id, page |-> k.page] /\ k.id \in Channels /\ k.page \in 1..Len(Pages[k.id])
  BY DEF ChanCalls
<1>2. ASSUME NEW k \in ThreadCalls
      PROVE  k = [id |-> k.id, page |-> k.page] /\ k.id \in Threads /\ k.page \in 1..Replies[k.id]
  BY DEF ThreadCalls
<1>3. ASSUME NEW t \in Threads, NEW p \in 1..Replies[t] PROVE [id |-> t, page |-> p] \in ThreadCalls
  <2>1. [id |-> t, page |-> p] \in {[id |-> t, page |-> q] : q \in 1..Replies[t]}
    OBVIOUS
  <2> QED
    BY <2>1 DEF ThreadCalls
<1> QED
  BY <1>1, <1>2, <1>3, CallSets, StreamAssumption DEF Calls

LEMMA GotNothing == ASSUME NEW id PROVE Got(id, 0)
<1>1. \A k \in Calls : k.page \in Nat \ {0}
  BY CallFacts, StreamAssumption
<1> QED
  BY <1>1 DEF Got

\* A page delivered extends what had been got.
LEMMA GotNext ==
  ASSUME TypeOK, NEW id, NEW page \in Nat \ {0}, [id |-> id, page |-> page] \in Calls,
         Deliver(id, page), Got(id, page - 1)
  PROVE  Got(id, page)'
<1>1. /\ \A k \in Calls : Delivered(k) => Delivered(k)'
      /\ Delivered([id |-> id, page |-> page])'
  BY DeliverMonotone
<1>2. ASSUME NEW k \in Calls, k.id = id, k.page <= page PROVE Delivered(k)'
  <2>1. k = [id |-> id, page |-> k.page] /\ k.page \in Nat
    BY <1>2, CallFacts
  <2>2. CASE k.page = page
    BY <1>1, <2>1, <2>2
  <2>3. CASE k.page # page
    BY <1>1, <1>2, <2>1, <2>3 DEF Got
  <2> QED
    BY <2>2, <2>3
<1> QED
  BY <1>2 DEF Got

LEMMA DeliverTouches ==
  ASSUME TypeOK, NEW id, NEW page, Deliver(id, page)
  PROVE  /\ \A x : Touched(x)' => Touched(x) \/ x = id
         /\ [id |-> id, page |-> page] \in Calls => Touched(id)'
<1> DEFINE c == [id |-> id, page |-> page]
<1>1. /\ \A k \in Calls : Delivered(k)' => Delivered(k) \/ k = c
      /\ c \in Calls => Delivered(c)'
  BY DeliverMonotone
<1>2. c.id = id
  OBVIOUS
<1> HIDE DEF c
<1>3. (\A x : Touched(x)' => Touched(x) \/ x = id) /\ (c \in Calls => Touched(id)')
  BY <1>1, <1>2 DEF Touched
<1> QED
  BY <1>3 DEF c

\* Only the two workers call the processor.
LEMMA WhoCalls ==
  ASSUME [Next]_vars
  PROVE  UNCHANGED calls \/ (ChanPage /\ Deliver(creq, cpage)) \/ (ThreadPage /\ Deliver(treq.id, tpage))
<1> USE DEF history
<1>1. CASE Main
  BY <1>1 DEF Main, MainTake, MainEnd, MainPutChan, MainPutThread
<1>2. CASE ChannelWorker
  BY <1>2 DEF ChannelWorker, ChanRecv, ChanInfo, Info, ChanPage, ChanSpawn, ChanReport
<1>3. CASE ThreadWorker
  BY <1>3 DEF ThreadWorker, ThreadRecv, ThreadInfo, Info, ThreadPage, ThreadRetry
<1>4. ASSUME NEW w \in Workers, SendResult(w) \/ SeeCancel(w) \/ Exit(w) PROVE UNCHANGED calls
  BY <1>4 DEF SendResult, SeeCancel, Exit
<1>5. CASE Sentinel \/ Consume \/ Return \/ Cancel \/ UNCHANGED vars
  BY <1>5 DEF Sentinel, Consume, Return, Cancel, vars
<1> QED
  BY <1>1, <1>2, <1>3, <1>4, <1>5 DEF Next

LEMMA DeliveredStays == TypeOK /\ [Next]_vars => \A k \in Calls : Delivered(k) => Delivered(k)'
BY WhoCalls, DeliverMonotone DEF Delivered

LEMMA PartsStay ==
  ASSUME TypeOK, [Next]_vars
  PROVE  /\ \A id : Touched(id) => Touched(id)'
         /\ \A id : Full(id) => Full(id)'
         /\ \A id, n : (\A k \in Calls : k.id = id /\ k.page <= n => Delivered(k)) =>
                       (\A k \in Calls : k.id = id /\ k.page <= n => Delivered(k)')
         /\ panicked => panicked'
<1>1. \A k \in Calls : Delivered(k) => Delivered(k)'
  BY DeliveredStays
<1>2. panicked => panicked'
  BY DEF Next, vars
<1> QED
  BY <1>1, <1>2 DEF Touched, Full

\* Which entities a step can touch.
LEMMA TouchedBy ==
  ASSUME TypeOK, Control, [Next]_vars
  PROVE  /\ ~(ChanPage /\ Deliver(creq, cpage)) => \A c \in Channels : Touched(c)' => Touched(c)
         /\ ~(ThreadPage /\ Deliver(treq.id, tpage)) => \A t \in Threads : Touched(t)' => Touched(t)
<1>1. CASE UNCHANGED calls
  BY <1>1 DEF Touched, Delivered
<1>2. CASE ChanPage /\ Deliver(creq, cpage)
  <2>1. creq \in Channels
    BY <1>2 DEF ChanPage, Control, ChanBusy
  <2> QED
    BY <1>2, <2>1, DeliverTouches, StreamAssumption
<1>3. CASE ThreadPage /\ Deliver(treq.id, tpage)
  <2>1. treq.id \in Threads
    BY <1>3 DEF ThreadPage, Control, ThreadBusy, ThreadReq
  <2> QED
    BY <1>3, <2>1, DeliverTouches, StreamAssumption
<1> QED
  BY <1>1, <1>2, <1>3, WhoCalls

\* A fatal result in the hands of a goroutine.
LEMMA FatalDooms ==
  ASSUME TypeOK, NEW w \in Workers, NEW id, NEW l, Raise(w, Failure(w, id, "fatal"), l)
  PROVE  Doomed'
<1>1. pc'[w] = "send" /\ out'[w] = Failure(w, id, "fatal")
  BY RaiseOne
<1>2. out'[w].err = "fatal"
  BY <1>1 DEF Failure
<1> QED
  BY <1>1, <1>2 DEF Doomed

-----------------------------------------------------------------------------
(* Where the workers are.                                                  *)

LEMMA TailEmpty == ASSUME NEW S, NEW q \in Seq(S), q # <<>> PROVE Tail(q) # q
OBVIOUS

\* A step of anything but the thread worker's own.
LEMMA ThreadStill ==
  ASSUME TypeOK, [Next]_vars, ~ThreadWorker
  PROVE  /\ MidThread' <=> MidThread
         /\ (pc'["thread"] = "info" <=> pc["thread"] = "info")
         /\ UNCHANGED <<treq, tpage>>
         /\ pc'["thread"] = "page" /\ ThreadBusy' => ThreadBusy
<1> USE DEF MidThread, ThreadBusy, Goto, Raise, queues, chanVars, threadVars, history
<1>t. pc \in [Workers -> Labels] /\ "thread" \in Workers /\ "main" \in Workers /\ "channel" \in Workers
      /\ after \in [Workers -> Resumes]
  BY DEF TypeOK, Workers
<1>1. CASE Main
  BY <1>1, <1>t DEF Main, MainTake, MainEnd, MainPutChan, MainPutThread
<1>2. CASE ChannelWorker
  BY <1>2, <1>t DEF ChannelWorker, ChanRecv, ChanInfo, Info, ChanPage, ChanSpawn, ChanReport
<1>3. ASSUME NEW w \in Workers, SendResult(w)
      PROVE  /\ MidThread' <=> MidThread
             /\ (pc'["thread"] = "info" <=> pc["thread"] = "info")
             /\ UNCHANGED <<treq, tpage>>
             /\ pc'["thread"] = "page" /\ ThreadBusy' => ThreadBusy
  BY <1>3, <1>t DEF SendResult, Resumes
<1>4. ASSUME NEW w \in Workers, SeeCancel(w) \/ Exit(w)
      PROVE  /\ MidThread' <=> MidThread
             /\ (pc'["thread"] = "info" <=> pc["thread"] = "info")
             /\ UNCHANGED <<treq, tpage>>
             /\ pc'["thread"] = "page" /\ ThreadBusy' => ThreadBusy
  BY <1>4, <1>t DEF SeeCancel, Exit
<1>5. CASE Sentinel \/ Consume \/ Return \/ Cancel \/ UNCHANGED vars
  BY <1>5 DEF Sentinel, Consume, Return, Cancel, vars
<1> QED
  BY <1>1, <1>2, <1>3, <1>4, <1>5 DEF Next

LEMMA ChannelStill ==
  ASSUME TypeOK, [Next]_vars, ~ChannelWorker
  PROVE  /\ ChanBusy' <=> ChanBusy
         /\ (pc'["channel"] = "spawn" <=> pc["channel"] = "spawn")
         /\ pc'["channel"] = "info" <=> pc["channel"] = "info"
         /\ UNCHANGED <<creq, cpage, todo>>
<1> USE DEF ChanBusy, Goto, Raise, queues, chanVars, threadVars, history
<1>t. pc \in [Workers -> Labels] /\ "thread" \in Workers /\ "main" \in Workers /\ "channel" \in Workers
      /\ after \in [Workers -> Resumes]
  BY DEF TypeOK, Workers
<1>1. CASE Main
  BY <1>1, <1>t DEF Main, MainTake, MainEnd, MainPutChan, MainPutThread
<1>2. CASE ThreadWorker
  BY <1>2, <1>t DEF ThreadWorker, ThreadRecv, ThreadInfo, Info, ThreadPage, ThreadRetry
<1>3. ASSUME NEW w \in Workers, SendResult(w)
      PROVE  /\ ChanBusy' <=> ChanBusy
             /\ (pc'["channel"] = "spawn" <=> pc["channel"] = "spawn")
             /\ pc'["channel"] = "info" <=> pc["channel"] = "info"
             /\ UNCHANGED <<creq, cpage, todo>>
  BY <1>3, <1>t DEF SendResult, Resumes
<1>4. ASSUME NEW w \in Workers, SeeCancel(w) \/ Exit(w)
      PROVE  /\ ChanBusy' <=> ChanBusy
             /\ (pc'["channel"] = "spawn" <=> pc["channel"] = "spawn")
             /\ pc'["channel"] = "info" <=> pc["channel"] = "info"
             /\ UNCHANGED <<creq, cpage, todo>>
  BY <1>4, <1>t DEF SeeCancel, Exit
<1>5. CASE Sentinel \/ Consume \/ Return \/ Cancel \/ UNCHANGED vars
  BY <1>5 DEF Sentinel, Consume, Return, Cancel, vars
<1> QED
  BY <1>1, <1>2, <1>3, <1>4, <1>5 DEF Next

LEMMA MainStill ==
  ASSUME TypeOK, [Next]_vars, ~Main
  PROVE  /\ UNCHANGED <<links, held>>
         /\ \A l \in {"putChan", "putThread"} : pc'["main"] = l <=> pc["main"] = l
<1> USE DEF Goto, Raise, queues, chanVars, threadVars, history
<1>t. pc \in [Workers -> Labels] /\ "thread" \in Workers /\ "main" \in Workers /\ "channel" \in Workers
      /\ after \in [Workers -> Resumes]
  BY DEF TypeOK, Workers
<1>1. CASE ChannelWorker
  BY <1>1, <1>t DEF ChannelWorker, ChanRecv, ChanInfo, Info, ChanPage, ChanSpawn, ChanReport
<1>2. CASE ThreadWorker
  BY <1>2, <1>t DEF ThreadWorker, ThreadRecv, ThreadInfo, Info, ThreadPage, ThreadRetry
<1>3. ASSUME NEW w \in Workers, SendResult(w)
      PROVE  /\ UNCHANGED <<links, held>>
             /\ \A l \in {"putChan", "putThread"} : pc'["main"] = l <=> pc["main"] = l
  BY <1>3, <1>t DEF SendResult, Resumes
<1>4. ASSUME NEW w \in Workers, SeeCancel(w) \/ Exit(w)
      PROVE  /\ UNCHANGED <<links, held>>
             /\ \A l \in {"putChan", "putThread"} : pc'["main"] = l <=> pc["main"] = l
  BY <1>4, <1>t DEF SeeCancel, Exit
<1>5. CASE Sentinel \/ Consume \/ Return \/ Cancel \/ UNCHANGED vars
  BY <1>5 DEF Sentinel, Consume, Return, Cancel, vars
<1> QED
  BY <1>1, <1>2, <1>3, <1>4, <1>5 DEF Next

LEMMA NextPlace == TypeOK /\ Control /\ Order /\ Place /\ [Next]_vars => Place'
<1> SUFFICES ASSUME TypeOK, Control, Order, Place, [Next]_vars PROVE Place'
  OBVIOUS
<1> USE DEF Goto, Raise, queues, chanVars, threadVars, history
<1>t. pc \in [Workers -> Labels] /\ "thread" \in Workers /\ "main" \in Workers /\ "channel" \in Workers
      /\ after \in [Workers -> Resumes]
  BY DEF TypeOK, Workers
<1>1. (pc'["thread"] = "info" => tpage' = 1) /\ (MidThread' => tpage' \in 1..Replies[treq'.id])
  <2>1. CASE ~ThreadWorker
    BY <2>1, ThreadStill DEF Place
  <2>2. CASE ThreadRecv
    <3>1. threadsC # <<>> => Head(threadsC).id \in Threads
      <4>1. threadsC # <<>> => Head(threadsC) \in ThreadReq
        BY DEF TypeOK
      <4> QED
        BY <4>1 DEF ThreadReq
    <3>2. threadsC # <<>> => 1 \in 1..Replies[Head(threadsC).id]
      BY <3>1, StreamAssumption
    <3> QED
      BY <1>t, <2>2, <3>2 DEF ThreadRecv, MidThread
  <2>3. CASE ThreadInfo
    <3>1. treq.id \in Threads
      BY <2>3 DEF ThreadInfo, Info, Control, ThreadBusy, ThreadReq
    <3>2. 1 \in 1..Replies[treq.id]
      BY <3>1, StreamAssumption
    <3> QED
      BY <1>t, <2>3, <3>2 DEF ThreadInfo, Info, MidThread, Place
  <2>4. CASE ThreadPage
    <3>1. treq.id \in Threads /\ tpage \in 1..Replies[treq.id] /\ Replies[treq.id] \in Nat
      BY <2>4, StreamAssumption DEF ThreadPage, Control, ThreadBusy, ThreadReq, MidThread, Place
    <3>2. tpage # Replies[treq.id] => tpage + 1 \in 1..Replies[treq.id]
      BY <3>1
    <3> QED
      BY <1>t, <2>4, <3>1, <3>2 DEF ThreadPage, NextPage, MidThread
  <2>5. CASE ThreadRetry
    <3>1. treq.id \in Threads
      BY <2>5 DEF ThreadRetry, Control, ThreadBusy, ThreadReq
    <3>2. 1 \in 1..Replies[treq.id]
      BY <3>1, StreamAssumption
    <3> QED
      BY <1>t, <2>5, <3>2 DEF ThreadRetry, MidThread
  <2> QED
    BY <2>1, <2>2, <2>3, <2>4, <2>5 DEF ThreadWorker
<1>2. todo' # <<>> => pc'["channel"] = "spawn"
  <2>1. CASE ~ChannelWorker
    BY <2>1, ChannelStill DEF Place
  <2>2. CASE ChannelWorker
    BY <1>t, <2>2 DEF ChannelWorker, ChanRecv, ChanInfo, Info, ChanPage, ChanSpawn, ChanReport, Place
  <2> QED
    BY <2>1, <2>2
<1>3. pc'["main"] \in {"exit", "done"} => links' = <<>> \/ Doomed'
  <2>1. CASE Main
    <3>1. CASE MainEnd
      BY <3>1 DEF MainEnd
    <3>2. CASE MainTake \/ MainPutChan \/ MainPutThread
      BY <1>t, <3>2 DEF MainTake, MainPutChan, MainPutThread
    <3> QED
      BY <2>1, <3>1, <3>2 DEF Main
  <2>2. CASE ~Main
    <3>1. CASE pc["main"] \in {"exit", "done"}
      BY <2>2, <3>1, MainStill, DoomedStays DEF Place
    <3>2. CASE pc["main"] \notin {"exit", "done"} /\ ~\E w \in Workers : SendResult(w)
      <4>1. CASE ChannelWorker
        BY <1>t, <3>2, <4>1 DEF ChannelWorker, ChanRecv, ChanInfo, Info, ChanPage, ChanSpawn, ChanReport
      <4>2. CASE ThreadWorker
        BY <1>t, <3>2, <4>2 DEF ThreadWorker, ThreadRecv, ThreadInfo, Info, ThreadPage, ThreadRetry
      <4>3. ASSUME NEW w \in Workers, SeeCancel(w) \/ Exit(w) PROVE pc'["main"] \notin {"exit", "done"}
        BY <1>t, <3>2, <4>3 DEF SeeCancel, Exit
      <4>4. CASE Sentinel \/ Consume \/ Return \/ Cancel \/ UNCHANGED vars
        BY <3>2, <4>4 DEF Sentinel, Consume, Return, Cancel, vars
      <4> QED
        BY <2>2, <3>2, <4>1, <4>2, <4>3, <4>4 DEF Next
    <3>3. ASSUME NEW w \in Workers, SendResult(w), pc["main"] \notin {"exit", "done"}
          PROVE  pc'["main"] \in {"exit", "done"} => Doomed'
      <4>1. CASE after[w] = "exit"
        BY <3>3, <4>1, SendDoomed DEF Order, SendResult
      <4>2. CASE after[w] # "exit"
        BY <1>t, <3>3, <4>2 DEF SendResult, Resumes
      <4> QED
        BY <4>1, <4>2
    <3> QED
      BY <3>1, <3>2, <3>3
  <2> QED
    BY <2>1, <2>2
<1>4. panicked' => "results" \notin closed'
  <2>1. CASE MainPutThread \/ ChanSpawn
    BY <2>1 DEF MainPutThread, ChanSpawn, Order, Workers
  <2>2. CASE UNCHANGED vars
    BY <2>2 DEF vars, Place
  <2>3. CASE Next /\ ~MainPutThread /\ ~ChanSpawn
    <3>1. ~panicked
      BY <2>3 DEF Next
    <3>2. UNCHANGED panicked
      BY <2>3 DEF Next, Main, MainTake, MainEnd, MainPutChan, ChannelWorker, ChanRecv, ChanInfo, Info,
         ChanPage, ChanReport, ThreadWorker, ThreadRecv, ThreadInfo, ThreadPage, ThreadRetry,
         SendResult, SeeCancel, Exit, Sentinel, Consume, Return, Cancel
    <3> QED
      BY <3>1, <3>2
  <2> QED
    BY <2>1, <2>2, <2>3
<1> QED
  BY <1>1, <1>2, <1>3, <1>4 DEF Place

-----------------------------------------------------------------------------
(* What has been got of the entity in hand.                                *)

LEMMA NextChannelPart ==
  TypeOK /\ Control /\ Order /\ ChannelPart /\ [Next]_vars => ChannelPart'
<1> SUFFICES ASSUME TypeOK, Control, Order, ChannelPart, [Next]_vars PROVE ChannelPart'
  OBVIOUS
<1> USE DEF Goto, Raise, queues, chanVars, threadVars, history
<1>t. pc \in [Workers -> Labels] /\ "channel" \in Workers /\ after \in [Workers -> Resumes]
  BY DEF TypeOK, Workers
<1>g. ASSUME NEW id, NEW n, Got(id, n) PROVE (\A k \in Calls : k.id = id /\ k.page <= n => Delivered(k)')
  BY <1>g, PartsStay DEF Got
<1>k. (\A id : Full(id) => Full(id)') /\ (Doomed => Doomed')
  BY PartsStay, DoomedStays
<1>1. CASE ~ChannelWorker
  <2>1. \A c \in Channels : Touched(c)' => Touched(c)
    BY <1>1, TouchedBy DEF ChannelWorker
  <2>2. (ChanBusy' <=> ChanBusy) /\ (pc'["channel"] = "spawn" <=> pc["channel"] = "spawn")
        /\ UNCHANGED <<creq, cpage>>
    BY <1>1, ChannelStill
  <2>3. ChanBusy' => Got(creq, cpage - 1)'
    BY <1>g, <2>2 DEF ChannelPart, Got
  <2>4. pc'["channel"] = "spawn" => Got(creq, cpage)'
    BY <1>g, <2>2 DEF ChannelPart, Got
  <2>5. (\A c \in Channels : Touched(c) => Full(c) \/ (ChanBusy /\ creq = c) \/ Doomed)'
    BY <1>k, <2>1, <2>2 DEF ChannelPart
  <2> QED
    BY <2>3, <2>4, <2>5 DEF ChannelPart
<1>2. CASE ChanRecv \/ ChanInfo
  <2>1. ~ChanBusy /\ pc'["channel"] # "spawn"
    BY <1>2, <1>t DEF ChanRecv, ChanInfo, Info, ChanBusy
  <2>2. \A c \in Channels : Touched(c)' => Touched(c)
    BY <1>2, TouchedBy DEF ChanRecv, ChanInfo, Info, ChanPage
  <2>3. ChanBusy' => cpage' = 1
    BY <1>2, <1>t DEF ChanRecv, ChanInfo, Info, ChanBusy
  <2>4. ChanBusy' => Got(creq, cpage - 1)'
    <3>1. Got(creq', 0)
      BY GotNothing
    <3>2. \A k \in Calls : k.id = creq' /\ k.page <= 0 => Delivered(k)'
      BY <1>g, <3>1
    <3> QED
      BY <2>3, <3>2 DEF Got
  <2>5. (\A c \in Channels : Touched(c) => Full(c) \/ (ChanBusy /\ creq = c) \/ Doomed)'
    BY <1>k, <2>1, <2>2 DEF ChannelPart
  <2> QED
    BY <2>1, <2>4, <2>5 DEF ChannelPart
<1>3. CASE ChanPage
  <2>1. creq \in Channels /\ cpage \in 1..Len(Pages[creq]) /\ ChanBusy /\ UNCHANGED <<creq, cpage>>
    BY <1>3 DEF ChanPage, Control, ChanBusy
  <2>2. CASE Deliver(creq, cpage) /\ pc'["channel"] = "spawn"
    <3>1. cpage \in Nat \ {0} /\ [id |-> creq, page |-> cpage] \in Calls
      BY <2>1, CallFacts, StreamAssumption
    <3>2. Got(creq, cpage)'
      <4>1. Got(creq, cpage - 1)
        BY <2>1 DEF ChannelPart
      <4>2. \A k \in Calls : k.id = creq /\ k.page <= cpage => Delivered(k)'
        BY <2>2, <3>1, <4>1, GotNext DEF Got
      <4> QED
        BY <2>1, <4>2 DEF Got
    <3>3. Got(creq, cpage - 1)'
      <4>1. \A k \in Calls : k.page \in Nat
        BY CallFacts, StreamAssumption
      <4> QED
        BY <2>1, <3>1, <3>2, <4>1 DEF Got
    <3>4. ChanBusy' /\ \A c \in Channels : Touched(c)' => Touched(c) \/ c = creq
      BY <2>2, DeliverTouches DEF ChanBusy
    <3>5. (\A c \in Channels : Touched(c) => Full(c) \/ (ChanBusy /\ creq = c) \/ Doomed)'
      BY <1>k, <2>1, <3>4 DEF ChannelPart
    <3> QED
      BY <3>2, <3>3, <3>5 DEF ChannelPart
  <2>3. CASE Raise("channel", Failure("channel", creq, "fatal"), "loop")
    <3>1. ~ChanBusy' /\ pc'["channel"] # "spawn"
      BY <1>t, <2>3 DEF ChanBusy
    <3>2. Doomed'
      BY <1>t, <2>3, FatalDooms
    <3> QED
      BY <3>1, <3>2 DEF ChannelPart
  <2> QED
    BY <1>3, <1>t, <2>2, <2>3 DEF ChanPage
<1>4. CASE ChanSpawn
  <2>1. \A c \in Channels : Touched(c)' => Touched(c)
    BY <1>4, TouchedBy DEF ChanSpawn, ChanPage
  <2>2. UNCHANGED <<pc, after, creq, cpage>> /\ (ChanBusy' <=> ChanBusy)
    BY <1>4 DEF ChanSpawn, ChanBusy
  <2>3. ChanBusy' => Got(creq, cpage - 1)'
    BY <1>g, <2>2 DEF ChannelPart, Got
  <2>4. pc'["channel"] = "spawn" => Got(creq, cpage)'
    BY <1>g, <2>2 DEF ChannelPart, Got
  <2>5. (\A c \in Channels : Touched(c) => Full(c) \/ (ChanBusy /\ creq = c) \/ Doomed)'
    BY <1>k, <2>1, <2>2 DEF ChannelPart
  <2> QED
    BY <2>3, <2>4, <2>5 DEF ChannelPart
<1>5. CASE ChanReport
  <2>1. /\ creq \in Channels /\ cpage \in 1..Len(Pages[creq]) /\ Len(Pages[creq]) \in Nat
        /\ Got(creq, cpage) /\ UNCHANGED creq
    BY <1>5, StreamAssumption DEF ChanReport, Control, ChanBusy, ChannelPart
  <2>2. \A c \in Channels : Touched(c)' => Touched(c)
    BY <1>5, TouchedBy DEF ChanReport, ChanPage
  <2>3. CASE cpage = Len(Pages[creq])
    <3>1. ~ChanBusy' /\ pc'["channel"] # "spawn"
      BY <1>5, <1>t, <2>3 DEF ChanReport, ChanBusy
    <3>2. Full(creq)
      BY <2>1, <2>3, CallFacts DEF Got, Full
    <3>3. (\A c \in Channels : Touched(c) => Full(c) \/ (ChanBusy /\ creq = c) \/ Doomed)'
      BY <1>k, <2>2, <3>2 DEF ChannelPart
    <3> QED
      BY <3>1, <3>3 DEF ChannelPart
  <2>4. CASE cpage # Len(Pages[creq])
    <3>1. pc'["channel"] = "send" /\ after'["channel"] = "page" /\ cpage' = cpage + 1
      BY <1>5, <1>t, <2>4 DEF ChanReport, NextPage
    <3>2. ChanBusy' /\ cpage' - 1 = cpage
      BY <2>1, <3>1 DEF ChanBusy
    <3>3. Got(creq, cpage - 1)'
      BY <1>g, <2>1, <3>2 DEF Got
    <3>4. (\A c \in Channels : Touched(c) => Full(c) \/ (ChanBusy /\ creq = c) \/ Doomed)'
      BY <1>k, <2>1, <2>2, <3>2 DEF ChannelPart
    <3> QED
      BY <3>1, <3>3, <3>4 DEF ChannelPart
  <2> QED
    BY <2>3, <2>4
<1> QED
  BY <1>1, <1>2, <1>3, <1>4, <1>5 DEF ChannelWorker

LEMMA NextThreadPart ==
  TypeOK /\ Control /\ Order /\ Place /\ ThreadPart /\ [Next]_vars => ThreadPart'
<1> SUFFICES ASSUME TypeOK, Control, Order, Place, ThreadPart, [Next]_vars PROVE ThreadPart'
  OBVIOUS
<1> USE DEF Goto, Raise, queues, chanVars, threadVars, history
<1>t. pc \in [Workers -> Labels] /\ "thread" \in Workers /\ after \in [Workers -> Resumes]
  BY DEF TypeOK, Workers
<1>g. ASSUME NEW id, NEW n, Got(id, n) PROVE (\A k \in Calls : k.id = id /\ k.page <= n => Delivered(k)')
  BY <1>g, PartsStay DEF Got
<1>k. (\A id : Full(id) => Full(id)') /\ (Doomed => Doomed')
  BY PartsStay, DoomedStays
<1>1. CASE ~ThreadWorker
  <2>1. \A t \in Threads : Touched(t)' => Touched(t)
    BY <1>1, TouchedBy DEF ThreadWorker
  <2>2. (MidThread' <=> MidThread) /\ UNCHANGED <<treq, tpage>>
    BY <1>1, ThreadStill
  <2>3. MidThread' => Got(treq.id, tpage - 1)'
    BY <1>g, <2>2 DEF ThreadPart, Got
  <2>4. (\A t \in Threads : Touched(t) => Full(t) \/ (MidThread /\ treq.id = t) \/ Doomed)'
    BY <1>k, <2>1, <2>2 DEF ThreadPart
  <2> QED
    BY <2>3, <2>4 DEF ThreadPart
<1>2. CASE ThreadRecv \/ ThreadInfo
  <2>1. ~MidThread
    BY <1>2 DEF ThreadRecv, ThreadInfo, Info, MidThread
  <2>2. \A t \in Threads : Touched(t)' => Touched(t)
    BY <1>2, TouchedBy DEF ThreadRecv, ThreadInfo, Info, ThreadPage
  <2>3. MidThread' => tpage' = 1
    BY <1>2, <1>t DEF ThreadRecv, ThreadInfo, Info, MidThread, Place
  <2>4. MidThread' => Got(treq.id, tpage - 1)'
    <3>1. Got(treq'.id, 0)
      BY GotNothing
    <3>2. \A k \in Calls : k.id = treq'.id /\ k.page <= 0 => Delivered(k)'
      BY <1>g, <3>1
    <3> QED
      BY <2>3, <3>2 DEF Got
  <2>5. (\A t \in Threads : Touched(t) => Full(t) \/ (MidThread /\ treq.id = t) \/ Doomed)'
    BY <1>k, <2>1, <2>2 DEF ThreadPart
  <2> QED
    BY <2>4, <2>5 DEF ThreadPart
<1>3. CASE ThreadPage
  <2>1. /\ treq.id \in Threads /\ tpage \in 1..Replies[treq.id] /\ Replies[treq.id] \in Nat
        /\ MidThread /\ UNCHANGED treq
    BY <1>3, StreamAssumption DEF ThreadPage, Control, ThreadBusy, ThreadReq, MidThread, Place
  <2>2. CASE /\ Deliver(treq.id, tpage) /\ tpage' = NextPage(tpage, Replies[treq.id])
             /\ pc'["thread"] = "send"
             /\ after'["thread"] = IF tpage = Replies[treq.id] THEN "loop" ELSE "page"
    <3>1. tpage \in Nat \ {0} /\ [id |-> treq.id, page |-> tpage] \in Calls
      BY <2>1, CallFacts, StreamAssumption
    <3>2. \A k \in Calls : k.id = treq.id /\ k.page <= tpage => Delivered(k)'
      <4>1. Got(treq.id, tpage - 1)
        BY <2>1 DEF ThreadPart
      <4> QED
        BY <2>2, <3>1, <4>1, GotNext DEF Got
    <3>3. \A t \in Threads : Touched(t)' => Touched(t) \/ t = treq.id
      BY <2>2, DeliverTouches
    <3>4. CASE tpage = Replies[treq.id]
      <4>1. ~MidThread'
        BY <2>2, <3>4 DEF MidThread
      <4>2. Full(treq.id)'
        BY <2>1, <3>2, <3>4, CallFacts DEF Full
      <4>3. (\A t \in Threads : Touched(t) => Full(t) \/ (MidThread /\ treq.id = t) \/ Doomed)'
        BY <1>k, <2>1, <3>3, <4>2 DEF ThreadPart
      <4> QED
        BY <4>1, <4>3 DEF ThreadPart
    <3>5. CASE tpage # Replies[treq.id]
      <4>1. MidThread' /\ tpage' - 1 = tpage
        BY <2>2, <3>1, <3>5 DEF MidThread, NextPage
      <4>2. Got(treq.id, tpage - 1)'
        BY <2>1, <3>2, <4>1 DEF Got
      <4>3. (\A t \in Threads : Touched(t) => Full(t) \/ (MidThread /\ treq.id = t) \/ Doomed)'
        BY <1>k, <2>1, <3>3, <4>1 DEF ThreadPart
      <4> QED
        BY <4>2, <4>3 DEF ThreadPart
    <3> QED
      BY <3>4, <3>5
  <2>3. CASE Raise("thread", Failure("thread", treq.id, "fatal"), "loop")
    <3>1. ~MidThread'
      BY <1>t, <2>3 DEF MidThread
    <3>2. Doomed'
      BY <1>t, <2>3, FatalDooms
    <3> QED
      BY <3>1, <3>2 DEF ThreadPart
  <2> QED
    BY <1>3, <1>t, <2>2, <2>3 DEF ThreadPage
<1>4. CASE ThreadRetry
  <2>1. \A t \in Threads : Touched(t)' => Touched(t)
    BY <1>4, TouchedBy DEF ThreadRetry, Touched, Delivered
  <2>2. (MidThread' <=> MidThread) /\ tpage' = 1 /\ UNCHANGED treq
    BY <1>4 DEF ThreadRetry, MidThread
  <2>3. Got(treq.id, tpage - 1)'
    <3>1. \A k \in Calls : k.id = treq'.id /\ k.page <= 0 => Delivered(k)'
      BY <1>g, GotNothing
    <3> QED
      BY <2>2, <3>1 DEF Got
  <2>4. (\A t \in Threads : Touched(t) => Full(t) \/ (MidThread /\ treq.id = t) \/ Doomed)'
    BY <1>k, <2>1, <2>2 DEF ThreadPart
  <2> QED
    BY <2>3, <2>4 DEF ThreadPart
<1> QED
  BY <1>1, <1>2, <1>3, <1>4 DEF ThreadWorker

-----------------------------------------------------------------------------
(* What is asked for is not lost on its way.                               *)

\* Elements of a sequence that has been extended, and of one whose head was taken.
LEMMA InAppend ==
  ASSUME NEW S, NEW q \in Seq(S), NEW e \in S
  PROVE  /\ \A j \in DOMAIN q : j \in DOMAIN Append(q, e) /\ Append(q, e)[j] = q[j]
         /\ Len(q) + 1 \in DOMAIN Append(q, e) /\ Append(q, e)[Len(q) + 1] = e
OBVIOUS

LEMMA InTail ==
  ASSUME NEW S, NEW q \in Seq(S), NEW j \in DOMAIN q
  PROVE  q[j] = Head(q) \/ \E i \in DOMAIN Tail(q) : Tail(q)[i] = q[j]
<1>1. CASE j = 1
  BY <1>1
<1>2. CASE j # 1
  <2>1. j - 1 \in DOMAIN Tail(q) /\ Tail(q)[j - 1] = q[j]
    BY <1>2
  <2> QED
    BY <2>1
<1> QED
  BY <1>1, <1>2

\* The thread request is queued, or the process is aborted.
LEMMA PutKeeps ==
  ASSUME TypeOK, NEW r \in ThreadReq, PutThread(r)
  PROVE  /\ panicked' \/ \E j \in DOMAIN threadsC' : threadsC'[j] = r
         /\ \A j \in DOMAIN threadsC : j \in DOMAIN threadsC' /\ threadsC'[j] = threadsC[j]
<1>1. threadsC \in Seq(ThreadReq)
  BY DEF TypeOK
<1>2. CASE panicked' = TRUE /\ UNCHANGED threadsC
  BY <1>2
<1>3. CASE threadsC' = Append(threadsC, r)
  BY <1>1, <1>3, InAppend
<1> QED
  BY <1>2, <1>3 DEF PutThread

LEMMA QueuesStill ==
  ASSUME [Next]_vars
  PROVE  /\ UNCHANGED chansC \/ MainPutChan \/ ChanRecv
         /\ UNCHANGED threadsC \/ MainPutThread \/ ChanSpawn \/ ThreadRecv
<1> USE DEF queues, chanVars, threadVars, history
<1>1. CASE Main
  BY <1>1 DEF Main, MainTake, MainEnd, MainPutChan, MainPutThread
<1>2. CASE ChannelWorker
  BY <1>2 DEF ChannelWorker, ChanInfo, Info, ChanPage, ChanReport, ChanSpawn, ChanRecv
<1>3. CASE ThreadWorker
  BY <1>3 DEF ThreadWorker, ThreadInfo, Info, ThreadPage, ThreadRetry, ThreadRecv
<1>4. ASSUME NEW w \in Workers, SendResult(w) \/ SeeCancel(w) \/ Exit(w) PROVE UNCHANGED <<chansC, threadsC>>
  BY <1>4 DEF SendResult, SeeCancel, Exit
<1>5. CASE Sentinel \/ Consume \/ Return \/ Cancel \/ UNCHANGED vars
  BY <1>5 DEF Sentinel, Consume, Return, Cancel, vars
<1> QED
  BY <1>1, <1>2, <1>3, <1>4, <1>5 DEF Next, MainPutThread

\* One step further for each place a link can be in.
LEMMA WaitsInLinks ==
  ASSUME TypeOK, Control, Order, [Next]_vars, NEW id, \E j \in DOMAIN links : links[j].id = id
  PROVE  LinkKept(id)'
<1> USE DEF Goto
<1>t. pc \in [Workers -> Labels] /\ "main" \in Workers /\ links \in Seq(Link)
  BY DEF TypeOK, Workers
<1>1. CASE MainTake
  <2>1. CASE Raise("main", Failure("main", "-", "fatal"), "loop")
    BY <1>t, <2>1, FatalDooms DEF LinkKept
  <2>2. CASE /\ held' = Head(links).id
             /\ pc'["main"] \in {"putThread", "putChan"}
    <3>1. links' = Tail(links)
      BY <1>1 DEF MainTake
    <3>2. id = held' \/ \E i \in DOMAIN links' : links'[i].id = id
      BY <1>t, <2>2, <3>1, InTail
    <3> QED
      BY <2>2, <3>2 DEF LinkKept, Waits
  <2> QED
    BY <1>1, <1>t, <2>1, <2>2 DEF MainTake
<1>2. CASE UNCHANGED links
  BY <1>2 DEF LinkKept, Waits
<1> QED
  BY <1>1, <1>2, MainStill DEF Main, MainEnd, MainPutChan, MainPutThread

LEMMA WaitsInMain ==
  ASSUME TypeOK, Control, Order, [Next]_vars, NEW id,
         pc["main"] \in {"putChan", "putThread"}, held = id
  PROVE  LinkKept(id)'
<1>t. pc \in [Workers -> Labels] /\ "main" \in Workers
  BY DEF TypeOK, Workers
<1>1. CASE MainPutChan
  <2>1. chansC \in Seq(Channels) /\ held \in Channels /\ chansC' = Append(chansC, held)
    BY <1>1 DEF MainPutChan, TypeOK, Control
  <2>2. \E j \in DOMAIN chansC' : chansC'[j] = id
    BY <2>1, InAppend
  <2> QED
    BY <2>2 DEF LinkKept, Waits
<1>2. CASE MainPutThread
  <2>1. [id |-> held, only |-> TRUE] \in ThreadReq
    BY <1>2 DEF MainPutThread, Control, ThreadReq
  <2>2. panicked' \/ \E j \in DOMAIN threadsC' : threadsC'[j] = [id |-> held, only |-> TRUE]
    BY <1>2, <2>1, PutKeeps DEF MainPutThread
  <2>3. panicked' \/ \E j \in DOMAIN threadsC' : threadsC'[j].id = id
    BY <2>2
  <2> QED
    BY <2>3 DEF LinkKept, Waits
<1>3. CASE ~Main
  BY <1>3, MainStill DEF LinkKept, Waits
<1> QED
  BY <1>1, <1>2, <1>3 DEF Main, MainTake, MainEnd

LEMMA WaitsInChansC ==
  ASSUME TypeOK, Control, Order, [Next]_vars, NEW id, \E j \in DOMAIN chansC : chansC[j] = id
  PROVE  LinkKept(id)'
<1> USE DEF Goto
<1>t. pc \in [Workers -> Labels] /\ "channel" \in Workers /\ chansC \in Seq(Channels)
  BY DEF TypeOK, Workers
<1>1. CASE ChanRecv
  <2>1. chansC # <<>>
    BY <1>t
  <2>2. creq' = Head(chansC) /\ chansC' = Tail(chansC) /\ pc'["channel"] = "info"
    BY <1>1, <1>t, <2>1 DEF ChanRecv
  <2>3. id = creq' \/ \E i \in DOMAIN chansC' : chansC'[i] = id
    BY <1>t, <2>2, InTail
  <2> QED
    BY <2>2, <2>3 DEF LinkKept, Waits
<1>2. CASE MainPutChan
  <2>1. held \in Channels /\ chansC' = Append(chansC, held)
    BY <1>2 DEF MainPutChan, Control
  <2>2. \E j \in DOMAIN chansC' : chansC'[j] = id
    BY <1>t, <2>1, InAppend
  <2> QED
    BY <2>2 DEF LinkKept, Waits
<1>3. CASE UNCHANGED chansC
  BY <1>3 DEF LinkKept, Waits
<1> QED
  BY <1>1, <1>2, <1>3, QueuesStill

\* What becomes of a request in threadsC.
LEMMA ThreadQueueStep ==
  ASSUME TypeOK, Control, Order, [Next]_vars, NEW i \in DOMAIN threadsC
  PROVE  \/ \E j \in DOMAIN threadsC' : threadsC'[j] = threadsC[i]
         \/ /\ treq' = threadsC[i]
            /\ pc'["thread"] = IF threadsC[i].only THEN "info" ELSE "page"
<1> USE DEF Goto
<1>t. pc \in [Workers -> Labels] /\ "thread" \in Workers /\ threadsC \in Seq(ThreadReq)
  BY DEF TypeOK, Workers
<1>1. CASE ThreadRecv
  <2>1. threadsC # <<>>
    BY <1>t
  <2>2. /\ treq' = Head(threadsC) /\ threadsC' = Tail(threadsC)
        /\ pc'["thread"] = IF Head(threadsC).only THEN "info" ELSE "page"
    BY <1>1, <1>t, <2>1 DEF ThreadRecv
  <2> QED
    BY <1>t, <2>2, InTail
<1>2. CASE MainPutThread
  <2>1. [id |-> held, only |-> TRUE] \in ThreadReq
    BY <1>2 DEF MainPutThread, Control, ThreadReq
  <2> QED
    BY <1>2, <2>1, PutKeeps DEF MainPutThread
<1>3. CASE ChanSpawn
  <2>1. Head(todo) \in Threads
    BY <1>3 DEF ChanSpawn, TypeOK
  <2>2. [id |-> Head(todo), only |-> FALSE] \in ThreadReq
    BY <2>1 DEF ThreadReq
  <2> QED
    BY <1>3, <2>2, PutKeeps DEF ChanSpawn
<1>4. CASE UNCHANGED threadsC
  BY <1>4
<1> QED
  BY <1>1, <1>2, <1>3, <1>4, QueuesStill

LEMMA WaitsInThreadsC ==
  ASSUME TypeOK, Control, Order, [Next]_vars, NEW id, \E j \in DOMAIN threadsC : threadsC[j].id = id
  PROVE  LinkKept(id)'
<1>1. PICK i \in DOMAIN threadsC : threadsC[i].id = id
  OBVIOUS
<1>2. CASE \E j \in DOMAIN threadsC' : threadsC'[j] = threadsC[i]
  BY <1>1, <1>2 DEF LinkKept, Waits
<1>3. CASE treq' = threadsC[i] /\ pc'["thread"] \in {"info", "page"}
  BY <1>1, <1>3 DEF LinkKept, Waits
<1> QED
  BY <1>2, <1>3, ThreadQueueStep

\* procChannelInfoWithUsers succeeds, or the entity is skipped, or Conversations fails.
LEMMA InfoEnds ==
  ASSUME TypeOK, NEW w \in Workers, NEW id, Info(w, id)
  PROVE  pc'[w] = "page" \/ "notfound" \in Faults \/ Doomed'
<1>1. CASE Goto(w, "page")
  BY <1>1, OnlyOne
<1>2. CASE Raise(w, Failure(w, id, "fatal"), "loop")
  BY <1>2, FatalDooms
<1> QED
  BY <1>1, <1>2 DEF Info

LEMMA WaitsInChannel ==
  ASSUME TypeOK, Control, Order, [Next]_vars, NEW id,
         pc["channel"] \in {"info", "page"}, creq = id
  PROVE  LinkKept(id)'
<1>t. pc \in [Workers -> Labels] /\ "channel" \in Workers
  BY DEF TypeOK, Workers
<1>1. CASE ChanInfo
  <2>1. creq' = creq
    BY <1>1 DEF ChanInfo, Info
  <2> QED
    BY <1>1, <1>t, <2>1, InfoEnds DEF ChanInfo, LinkKept, Waits
<1>2. CASE ChanPage
  <2>1. CASE Deliver(creq, cpage)
    <3>1. [id |-> creq, page |-> cpage] \in Calls
      BY <1>2, CallFacts DEF ChanPage, Control, ChanBusy
    <3> QED
      BY <2>1, <3>1, DeliverTouches DEF LinkKept
  <2>2. CASE Raise("channel", Failure("channel", creq, "fatal"), "loop")
    BY <1>t, <2>2, FatalDooms DEF LinkKept
  <2> QED
    BY <1>2, <2>1, <2>2 DEF ChanPage
<1>3. CASE ~ChannelWorker
  <2>1. /\ ChanBusy' <=> ChanBusy
        /\ (pc'["channel"] = "spawn" <=> pc["channel"] = "spawn")
        /\ pc'["channel"] = "info" <=> pc["channel"] = "info"
        /\ UNCHANGED creq
    BY <1>3, ChannelStill
  <2>2. pc'["channel"] = pc["channel"]
    <3>1. CASE pc["channel"] = "info"
      BY <2>1, <3>1
    <3>2. CASE pc["channel"] = "page"
      <4>1. ASSUME NEW w \in Workers, SendResult(w) \/ SeeCancel(w) \/ Exit(w) PROVE pc'["channel"] = pc["channel"]
        BY <1>t, <3>2, <4>1 DEF SendResult, SeeCancel, Exit, Goto, Raise
      <4>2. CASE Main
        BY <1>t, <4>2 DEF Main, MainTake, MainEnd, MainPutChan, MainPutThread, Goto, Raise
      <4>3. CASE ThreadWorker
        BY <1>t, <4>3 DEF ThreadWorker, ThreadRecv, ThreadInfo, Info, ThreadPage, ThreadRetry, Goto, Raise
      <4>4. CASE Sentinel \/ Consume \/ Return \/ Cancel \/ UNCHANGED vars
        BY <4>4 DEF Sentinel, Consume, Return, Cancel, vars
      <4> QED
        BY <1>3, <4>1, <4>2, <4>3, <4>4 DEF Next
    <3> QED
      BY <3>1, <3>2
  <2> QED
    BY <2>1, <2>2 DEF LinkKept, Waits
<1> QED
  BY <1>1, <1>2, <1>3 DEF ChannelWorker, ChanRecv, ChanSpawn, ChanReport

\* The thread worker with a request in hand, before its first page.
LEMMA ThreadHandStep ==
  ASSUME TypeOK, Control, Order, Place, [Next]_vars, pc["thread"] \in {"info", "page"},
         NEW id, treq.id = id
  PROVE  \/ treq' = treq /\ (pc'["thread"] = pc["thread"] \/ pc'["thread"] = "page")
         \/ Touched(id)' \/ Doomed'
         \/ pc["thread"] = "info" /\ "notfound" \in Faults
<1>t. pc \in [Workers -> Labels] /\ "thread" \in Workers
  BY DEF TypeOK, Workers
<1>1. CASE ThreadInfo
  <2>1. treq' = treq /\ pc["thread"] = "info"
    BY <1>1 DEF ThreadInfo, Info
  <2> QED
    BY <1>1, <1>t, <2>1, InfoEnds DEF ThreadInfo
<1>2. CASE ThreadPage
  <2>1. CASE Deliver(treq.id, tpage)
    <3>1. id \in Threads /\ tpage \in 1..Replies[id]
      BY <1>2 DEF ThreadPage, Control, ThreadBusy, ThreadReq, MidThread, Place
    <3>2. [id |-> id, page |-> tpage] \in Calls
      BY <3>1, CallFacts
    <3> QED
      BY <2>1, <3>2, DeliverTouches
  <2>2. CASE Raise("thread", Failure("thread", treq.id, "fatal"), "loop")
    BY <1>t, <2>2, FatalDooms
  <2> QED
    BY <1>2, <2>1, <2>2 DEF ThreadPage
<1>3. CASE ThreadRetry
  BY <1>3 DEF ThreadRetry
<1>4. CASE ~ThreadWorker
  <2>1. treq' = treq
    BY <1>4, ThreadStill
  <2>2. pc'["thread"] = pc["thread"]
    <3>1. ASSUME NEW w \in Workers, SendResult(w) \/ SeeCancel(w) \/ Exit(w) PROVE pc'["thread"] = pc["thread"]
      BY <1>t, <3>1 DEF SendResult, SeeCancel, Exit, Goto, Raise
    <3>2. CASE Main
      BY <1>t, <3>2 DEF Main, MainTake, MainEnd, MainPutChan, MainPutThread, Goto, Raise
    <3>3. CASE ChannelWorker
      BY <1>t, <3>3 DEF ChannelWorker, ChanRecv, ChanInfo, Info, ChanPage, ChanSpawn, ChanReport, Goto, Raise
    <3>4. CASE Sentinel \/ Consume \/ Return \/ Cancel \/ UNCHANGED vars
      BY <3>4 DEF Sentinel, Consume, Return, Cancel, vars
    <3> QED
      BY <1>4, <3>1, <3>2, <3>3, <3>4 DEF Next
  <2> QED
    BY <2>1, <2>2
<1> QED
  BY <1>1, <1>2, <1>3, <1>4 DEF ThreadWorker, ThreadRecv

LEMMA WaitsInThread ==
  ASSUME TypeOK, Control, Order, Place, [Next]_vars, NEW id,
         pc["thread"] \in {"info", "page"}, treq.id = id
  PROVE  LinkKept(id)'
BY ThreadHandStep DEF LinkKept, Waits

LEMMA LinkStays ==
  ASSUME TypeOK, Control, Order, Place, [Next]_vars, NEW id, LinkKept(id)
  PROVE  LinkKept(id)'
<1>1. CASE Waits(id)
  BY <1>1, WaitsInLinks, WaitsInMain, WaitsInChansC, WaitsInThreadsC, WaitsInChannel,
     WaitsInThread DEF Waits
<1>2. CASE Touched(id) \/ "notfound" \in Faults \/ Doomed \/ panicked
  BY <1>2, PartsStay, DoomedStays DEF LinkKept
<1> QED
  BY <1>1, <1>2 DEF LinkKept

LEMMA NextLinksKept ==
  ASSUME TypeOK, Control, Order, Place, LinksKept, [Next]_vars
  PROVE  LinksKept'
<1> SUFFICES ASSUME NEW i \in DOMAIN Links PROVE LinkKept(Links[i].id)'
  BY DEF LinksKept
<1> QED
  BY LinkStays DEF LinksKept

LEMMA TodoStill ==
  ASSUME TypeOK, Place, [Next]_vars, todo # <<>>
  PROVE  UNCHANGED todo \/ ChanSpawn
<1>t. "channel" \in Workers /\ pc["channel"] = "spawn"
  BY DEF Workers, Place
<1>1. CASE ChannelWorker
  BY <1>1, <1>t DEF ChannelWorker, ChanRecv, ChanInfo, Info, ChanPage, ChanReport
<1>2. CASE ~ChannelWorker
  BY <1>2, ChannelStill
<1> QED
  BY <1>1, <1>2

\* A thread found stays requested until its first page is delivered.
LEMMA ThreadStays ==
  ASSUME TypeOK, Control, Order, Place, [Next]_vars, NEW t \in Threads, Requested(t)
  PROVE  ThreadKept(t)'
<1>1. ASSUME NEW j \in DOMAIN todo, todo[j] = t PROVE ThreadKept(t)'
  <2>1. todo \in Seq(Threads) /\ todo # <<>>
    BY <1>1 DEF TypeOK
  <2>2. CASE UNCHANGED todo
    BY <1>1, <2>2 DEF ThreadKept, Requested
  <2>3. CASE ChanSpawn
    <3>1. todo' = Tail(todo)
      BY <2>3 DEF ChanSpawn
    <3>2. t = Head(todo) \/ \E k \in DOMAIN todo' : todo'[k] = t
      BY <1>1, <2>1, <3>1, InTail
    <3>3. CASE t = Head(todo)
      <4>1. [id |-> t, only |-> FALSE] \in ThreadReq
        BY DEF ThreadReq
      <4>2. panicked' \/ \E k \in DOMAIN threadsC' : threadsC'[k] = [id |-> t, only |-> FALSE]
        BY <2>3, <3>3, <4>1, PutKeeps DEF ChanSpawn
      <4> QED
        BY <4>2 DEF ThreadKept, Requested
    <3> QED
      BY <3>2, <3>3 DEF ThreadKept, Requested
  <2> QED
    BY <2>1, <2>2, <2>3, TodoStill
<1>2. ASSUME NEW j \in DOMAIN threadsC, threadsC[j] = [id |-> t, only |-> FALSE]
      PROVE  ThreadKept(t)'
  BY <1>2, ThreadQueueStep DEF ThreadKept, Requested
<1>3. CASE pc["thread"] = "page" /\ treq.id = t
  BY <1>3, ThreadHandStep DEF ThreadKept, Requested
<1> QED
  BY <1>1, <1>2, <1>3 DEF Requested

\* Threads are found on the page that ChanPage delivers, and requested next.
LEMMA ThreadFound ==
  ASSUME TypeOK, Control, Place, [Next]_vars, NEW t \in Threads, Announced(t)', ~Announced(t)
  PROVE  Requested(t)'
<1>1. PICK k \in ChanCalls : Delivered(k)' /\ ~Delivered(k) /\ t \in ElemsOf(Pages[k.id][k.page])
  BY DEF Announced
<1>2. k \in Calls /\ k.id \in Channels
  BY <1>1, CallSets DEF Calls
<1>3. ~UNCHANGED calls
  BY <1>1 DEF Delivered
<1>4. CASE ChanPage /\ Deliver(creq, cpage)
  <2>1. k = [id |-> creq, page |-> cpage]
    BY <1>1, <1>2, <1>4, DeliverMonotone
  <2>2. todo' = Pages[creq][cpage]
    BY <1>3, <1>4 DEF ChanPage, history
  <2>3. \E j \in DOMAIN todo' : todo'[j] = t
    BY <1>1, <2>1, <2>2 DEF ElemsOf
  <2> QED
    BY <2>3 DEF Requested
<1>5. CASE ThreadPage /\ Deliver(treq.id, tpage)
  <2>1. k = [id |-> treq.id, page |-> tpage]
    BY <1>1, <1>2, <1>5, DeliverMonotone
  <2>2. treq.id \in Threads
    BY <1>5 DEF ThreadPage, Control, ThreadBusy, ThreadReq
  <2> QED
    BY <1>2, <2>1, <2>2, StreamAssumption
<1> QED
  BY <1>3, <1>4, <1>5, WhoCalls

LEMMA NextThreadsKept ==
  ASSUME TypeOK, Control, Order, Place, ThreadsKept, [Next]_vars
  PROVE  ThreadsKept'
<1> SUFFICES ASSUME NEW t \in Threads, Announced(t)' PROVE ThreadKept(t)'
  BY DEF ThreadsKept
<1>1. CASE Announced(t)
  <2>1. ThreadKept(t)
    BY <1>1 DEF ThreadsKept
  <2>2. CASE Touched(t) \/ Doomed \/ panicked
    BY <2>2, PartsStay, DoomedStays DEF ThreadKept
  <2> QED
    BY <2>1, <2>2, ThreadStays DEF ThreadKept
<1>2. CASE ~Announced(t)
  BY <1>2, ThreadFound DEF ThreadKept
<1> QED
  BY <1>1, <1>2

-----------------------------------------------------------------------------

LEMMA InitProgress == Init => Progress
<1> SUFFICES ASSUME Init PROVE Progress
  OBVIOUS
<1>1. \A w \in Workers : pc[w] = "loop"
  BY DEF Init
<1>2. pc["main"] = "loop" /\ pc["channel"] = "loop" /\ pc["thread"] = "loop"
  BY <1>1 DEF Workers
<1>3. todo = <<>> /\ closed = {} /\ links = Links
  BY DEF Init
<1>4. \A k \in Calls : ~Delivered(k)
  BY DEF Init, Delivered
<1>5. (\A id : ~Touched(id)) /\ \A t : ~Announced(t)
  BY <1>4 DEF Touched, Announced, Calls
<1>6. Place
  BY <1>2, <1>3 DEF Place, MidThread
<1>7. ChannelPart /\ ThreadPart /\ ThreadsKept
  BY <1>2, <1>5 DEF ChannelPart, ThreadPart, ThreadsKept, ChanBusy, MidThread
<1>8. LinksKept
  BY <1>3 DEF LinksKept, LinkKept, Waits
<1> QED
  BY <1>6, <1>7, <1>8 DEF Progress

LEMMA ProgressInvariance == Spec => []Progress
<1>1. IInv /\ EndInv /\ Progress /\ [Next]_vars => Progress'
  BY NextPlace, NextChannelPart, NextThreadPart, NextLinksKept, NextThreadsKept
     DEF IInv, EndInv, Progress
<1> QED
  BY <1>1, InitProgress, Invariance, EndInvariance, PTL DEF Spec

\* A nil return leaves no link and no thread half way.
LEMMA NothingWaits ==
  ASSUME IInv, EndInv, Progress, status = "ok"
  PROVE  /\ \A c \in Channels : Touched(c) => Full(c)
         /\ \A t \in Threads : Touched(t) => Full(t)
         /\ \A t \in Threads : Announced(t) => Touched(t)
         /\ \A i \in DOMAIN Links : Touched(Links[i].id) \/ "notfound" \in Faults
<1>1. "results" \in closed /\ resultsC = <<>> /\ \A w \in Workers : pc[w] = "done"
  BY DEF EndInv, Quiet, Order
<1>2. ~Doomed
  BY <1>1 DEF Doomed
<1>3. pc["main"] = "done" /\ pc["channel"] = "done" /\ pc["thread"] = "done"
  BY <1>1 DEF Workers
<1>4. chansC = <<>> /\ threadsC = <<>>
  BY <1>2, <1>3 DEF EndInv, Drained
<1>5. links = <<>> /\ todo = <<>> /\ ~panicked
  BY <1>1, <1>2, <1>3 DEF Progress, Place
<1>6. (\A id : ~Waits(id)) /\ \A t : ~Requested(t)
  BY <1>3, <1>4, <1>5 DEF Waits, Requested
<1>7. ~ChanBusy /\ ~MidThread
  BY <1>3 DEF ChanBusy, MidThread
<1>8. (\A c \in Channels : Touched(c) => Full(c)) /\ (\A t \in Threads : Touched(t) => Full(t))
  BY <1>2, <1>7 DEF Progress, ChannelPart, ThreadPart
<1>9. (\A t \in Threads : Announced(t) => Touched(t))
      /\ \A i \in DOMAIN Links : Touched(Links[i].id) \/ "notfound" \in Faults
  BY <1>2, <1>5, <1>6 DEF Progress, ThreadsKept, ThreadKept, LinksKept, LinkKept
<1> QED
  BY <1>8, <1>9

LEMMA NilIsComplete == IInv /\ EndInv /\ Progress => CompleteOnSuccess
<1> SUFFICES ASSUME IInv, EndInv, Progress, status = "ok", NEW i \in DOMAIN Links
             PROVE  \/ LinkDone(Links[i])
                    \/ "notfound" \in Faults /\ LinkUntouched(Links[i])
  BY DEF CompleteOnSuccess
<1> DEFINE l == Links[i]
<1>1. l \in Link
  BY StreamAssumption
<1>2. Touched(l.id) \/ "notfound" \in Faults
  BY NothingWaits
<1> HIDE DEF l
<1>3. CASE ~Touched(l.id)
  BY <1>2, <1>3 DEF Touched, LinkUntouched, l
<1>4. ASSUME NEW t \in Threads, Full(t), NEW q \in 1..Replies[t]
      PROVE  Delivered([id |-> t, page |-> q])
  BY <1>4, CallFacts DEF Full
<1>5. CASE l.kind = "thread" /\ Touched(l.id)
  <2>1. l.id \in Threads
    BY <1>1, <1>5 DEF Link
  <2>2. LinkDone(l)
    BY <1>4, <1>5, <2>1, NothingWaits DEF LinkDone
  <2> QED
    BY <2>2 DEF l
<1>6. CASE l.kind = "channel" /\ Touched(l.id)
  <2>1. l.id \in Channels
    BY <1>1, <1>6 DEF Link
  <2>2. Full(l.id)
    BY <1>6, <2>1, NothingWaits
  <2>3. ASSUME NEW p \in 1..Len(Pages[l.id]) PROVE Delivered([id |-> l.id, page |-> p])
    BY <2>1, <2>2, CallFacts DEF Full
  <2>4. ASSUME NEW p \in 1..Len(Pages[l.id]), NEW t \in ElemsOf(Pages[l.id][p]), NEW q \in 1..Replies[t]
        PROVE  Delivered([id |-> t, page |-> q])
    <3>1. t \in Threads
      <4>1. Pages[l.id] \in Seq(Seq(Threads))
        BY <2>1, StreamAssumption
      <4>2. Pages[l.id][p] \in Seq(Threads)
        BY <4>1
      <4> QED
        BY <4>2 DEF ElemsOf
    <3>2. Announced(t)
      <4>1. [id |-> l.id, page |-> p] \in ChanCalls
        BY <2>1, CallSets
      <4> QED
        BY <2>3, <4>1 DEF Announced
    <3> QED
      BY <1>4, <3>1, <3>2, NothingWaits
  <2>5. LinkDone(l)
    BY <1>6, <2>3, <2>4 DEF LinkDone, ChannelDone
  <2> QED
    BY <2>5 DEF l
<1> QED
  BY <1>1, <1>3, <1>5, <1>6 DEF Link

\* Conversations does not return nil with part of a channel or of a thread missing,
\* whatever the interleaving of its goroutines, the capacities and the faults.
THEOREM NilReturnIsComplete == Spec => []CompleteOnSuccess
BY NilIsComplete, ProgressInvariance, EndInvariance, Invariance, PTL

-----------------------------------------------------------------------------
(* The goroutines of Stream.Conversations implement the promise of Delivery. *)

\* Without faults nothing is cancelled and no error is on its way.
Calm ==
  Faults = {} =>
    /\ ~cancelled
    /\ \A w \in Workers : pc[w] = "send" => out[w].err = "none"
    /\ \A i \in DOMAIN resultsC : resultsC[i].err = "none"

LEMMA InitCalm == Init => Calm
<1> SUFFICES ASSUME Init PROVE Calm
  OBVIOUS
<1>1. \A w \in Workers : pc[w] = "loop"
  BY DEF Init
<1> QED
  BY <1>1 DEF Init, Calm

\* A step of w that sends no error and leaves the result channel alone.
LEMMA CalmFrame ==
  ASSUME TypeOK, Calm, NEW w \in Workers,
         pc'[w] = "send" => out'[w].err = "none",
         \A v \in Workers \ {w} : pc'[v] = pc[v] /\ out'[v] = out[v],
         UNCHANGED <<resultsC, cancelled>>
  PROVE  Calm'
BY DEF Calm

LEMMA MainCalm == ASSUME TypeOK, Calm, Faults = {}, Main PROVE Calm'
<1> USE DEF queues, chanVars, threadVars, history
<1>w. "main" \in Workers
  BY DEF Workers
<1>1. CASE MainTake
  <2>1. Goto("main", IF Head(links).kind = "thread" THEN "putThread" ELSE "putChan")
        /\ UNCHANGED out
    BY <1>1 DEF MainTake
  <2> QED
    BY <1>1, <1>w, <2>1, OnlyOne, CalmFrame DEF MainTake
<1>2. CASE MainEnd
  BY <1>2, <1>w, OnlyOne, CalmFrame DEF MainEnd
<1>3. CASE MainPutChan
  BY <1>3, <1>w, OnlyOne, CalmFrame DEF MainPutChan
<1>4. CASE MainPutThread
  BY <1>4, <1>w, OnlyOne, CalmFrame DEF MainPutThread
<1> QED
  BY <1>1, <1>2, <1>3, <1>4 DEF Main

LEMMA InfoCalm ==
  ASSUME TypeOK, Calm, Faults = {}, NEW w \in Workers, NEW id, Info(w, id)
  PROVE  Calm'
<1>1. Goto(w, "page") /\ UNCHANGED <<out, resultsC, cancelled>>
  BY DEF Info, CanFail, Calm, queues
<1> QED
  BY <1>1, OnlyOne, CalmFrame

LEMMA ChannelCalm == ASSUME TypeOK, Calm, Faults = {}, ChannelWorker PROVE Calm'
<1> USE DEF queues, chanVars, threadVars, history
<1>w. "channel" \in Workers
  BY DEF Workers
<1>1. CASE ChanRecv
  <2>1. \E l \in {"info", "exit"} : Goto("channel", l)
    BY <1>1 DEF ChanRecv
  <2> QED
    BY <1>1, <1>w, <2>1, OnlyOne, CalmFrame DEF ChanRecv
<1>2. CASE ChanInfo
  BY <1>2, <1>w, InfoCalm DEF ChanInfo
<1>3. CASE ChanPage
  <2>1. Goto("channel", "spawn") /\ UNCHANGED out
    BY <1>3 DEF ChanPage, CanFail, Calm
  <2> QED
    BY <1>3, <1>w, <2>1, OnlyOne, CalmFrame DEF ChanPage
<1>4. CASE ChanSpawn
  BY <1>4, <1>w, CalmFrame DEF ChanSpawn, Calm
<1>5. CASE ChanReport
  <2>1. PICK b, l : Raise("channel", Success("channel", creq, b), l)
    BY <1>5 DEF ChanReport
  <2>2. out'["channel"].err = "none"
    BY <1>w, <2>1, RaiseOne DEF Success
  <2> QED
    BY <1>5, <1>w, <2>1, <2>2, RaiseOne, CalmFrame DEF ChanReport
<1> QED
  BY <1>1, <1>2, <1>3, <1>4, <1>5 DEF ChannelWorker

LEMMA ThreadCalm == ASSUME TypeOK, Calm, Faults = {}, ThreadWorker PROVE Calm'
<1> USE DEF queues, chanVars, threadVars, history
<1>w. "thread" \in Workers
  BY DEF Workers
<1>1. CASE ThreadRecv
  <2>1. \E l \in {"info", "page", "exit"} : Goto("thread", l)
    BY <1>1 DEF ThreadRecv
  <2> QED
    BY <1>1, <1>w, <2>1, OnlyOne, CalmFrame DEF ThreadRecv
<1>2. CASE ThreadInfo
  BY <1>2, <1>w, InfoCalm DEF ThreadInfo
<1>3. CASE ThreadPage
  <2>1. PICK b, l : Raise("thread", Success("thread", treq.id, b), l)
    BY <1>3 DEF ThreadPage, CanFail, Calm
  <2>2. out'["thread"].err = "none"
    BY <1>w, <2>1, RaiseOne DEF Success
  <2> QED
    BY <1>3, <1>w, <2>1, <2>2, RaiseOne, CalmFrame DEF ThreadPage
<1>4. CASE ThreadRetry
  BY <1>4 DEF ThreadRetry
<1> QED
  BY <1>1, <1>2, <1>3, <1>4 DEF ThreadWorker

LEMMA NextCalm == ASSUME TypeOK, Calm, [Next]_vars PROVE Calm'
<1> USE DEF queues, chanVars, threadVars, history
<1> SUFFICES ASSUME Faults = {} PROVE Calm'
  BY DEF Calm
<1>1. ASSUME NEW w \in Workers, SendResult(w) PROVE Calm'
  <2>1. out[w].err = "none" /\ out[w] \in Result /\ resultsC \in Seq(Result)
    BY <1>1 DEF Calm, SendResult, TypeOK
  <2>2. resultsC' = Append(resultsC, out[w])
    BY <1>1 DEF SendResult
  <2>3. \A i \in DOMAIN resultsC' : resultsC'[i].err = "none"
    BY <2>1, <2>2 DEF Calm
  <2>4. \A v \in Workers : pc'[v] = "send" => pc[v] = "send"
    BY <1>1 DEF SendResult, Goto, TypeOK, Resumes
  <2> QED
    BY <1>1, <2>3, <2>4 DEF Calm, SendResult
<1>2. ASSUME NEW w \in Workers, SeeCancel(w) PROVE Calm'
  BY <1>2 DEF SeeCancel, Calm
<1>3. ASSUME NEW w \in Workers, Exit(w) PROVE Calm'
  BY <1>3, OnlyOne, CalmFrame DEF Exit
<1>4. CASE Consume
  <2>1. resultsC \in Seq(Result) /\ resultsC # <<>> /\ resultsC' = Tail(resultsC)
    BY <1>4 DEF Consume, TypeOK
  <2>2. \A i \in DOMAIN resultsC' : resultsC'[i].err = "none"
    BY <2>1 DEF Calm
  <2> QED
    BY <1>4, <2>2 DEF Consume, Calm
<1>5. CASE Cancel
  BY <1>5 DEF Cancel
<1>6. CASE Sentinel \/ Return \/ UNCHANGED vars
  BY <1>6 DEF Sentinel, Return, vars, Calm
<1> QED
  BY <1>1, <1>2, <1>3, <1>4, <1>5, <1>6, MainCalm, ChannelCalm, ThreadCalm DEF Next

LEMMA CalmInvariance == Spec => []Calm
<1>1. IInv /\ Calm /\ [Next]_vars => Calm'
  BY NextCalm DEF IInv
<1> QED
  BY <1>1, InitCalm, Invariance, PTL DEF Spec

-----------------------------------------------------------------------------
(* The step.                                                               *)

\* What is known of a reachable state.
Known == IInv /\ EndInv /\ Progress /\ Calm /\ CompleteOnSuccess

\* Which step changes what Conversations returns.
LEMMA WhoEnds ==
  ASSUME [Next]_vars
  PROVE  UNCHANGED status \/ ((Consume \/ Return) /\ UNCHANGED calls)
<1> USE DEF history
<1>1. CASE Main
  BY <1>1 DEF Main, MainTake, MainEnd, MainPutChan, MainPutThread
<1>2. CASE ChannelWorker
  BY <1>2 DEF ChannelWorker, ChanRecv, ChanInfo, Info, ChanPage, ChanSpawn, ChanReport
<1>3. CASE ThreadWorker
  BY <1>3 DEF ThreadWorker, ThreadRecv, ThreadInfo, Info, ThreadPage, ThreadRetry
<1>4. ASSUME NEW w \in Workers, SendResult(w) \/ SeeCancel(w) \/ Exit(w) PROVE UNCHANGED status
  BY <1>4 DEF SendResult, SeeCancel, Exit
<1>5. CASE Sentinel \/ Consume \/ Return \/ Cancel \/ UNCHANGED vars
  BY <1>5 DEF Sentinel, Consume, Return, Cancel, vars
<1> QED
  BY <1>1, <1>2, <1>3, <1>4, <1>5 DEF Next

LEMMA DeliverSteps ==
  ASSUME TypeOK, NEW id, NEW page, [id |-> id, page |-> page] \in Calls, Deliver(id, page),
         UNCHANGED status, status # "ok",
         \E d \in Before([id |-> id, page |-> page]) : d \subseteq {k \in Calls : Delivered(k)}
  PROVE  Promise!Next
<1> DEFINE c == [id |-> id, page |-> page]
<1>1. /\ \A k \in Calls : Delivered(k) => Delivered(k)'
      /\ \A k \in Calls : Delivered(k)' => Delivered(k) \/ k = c
      /\ Delivered(c)'
  BY DeliverMonotone
<1>2. c \in Calls /\ \E d \in Before(c) : d \subseteq {k \in Calls : Delivered(k)}
  OBVIOUS
<1> HIDE DEF c
<1>3. {k \in Calls : Delivered(k)}' = {k \in Calls : Delivered(k)} \cup {c}
  BY <1>1, <1>2
<1>4. Promise!Deliver(c)
  BY <1>2, <1>3 DEF Promise!Deliver
<1> QED
  BY <1>2, <1>4 DEF Promise!Next

LEMMA ChannelPageStep ==
  ASSUME Known, [Next]_vars, ChanPage, Deliver(creq, cpage)
  PROVE  Promise!Next
<1> USE DEF Known, IInv, EndInv, Progress
<1>1. pc["channel"] = "page" /\ UNCHANGED status /\ "channel" \in Workers
  BY DEF ChanPage, Workers
<1>2. creq \in Channels /\ cpage \in 1..Len(Pages[creq]) /\ Got(creq, cpage - 1)
  BY <1>1 DEF Control, ChanBusy, ChannelPart
<1>3. [id |-> creq, page |-> cpage] \in Calls
  BY <1>2, CallFacts
<1>4. status # "ok"
  BY <1>1 DEF Quiet, Order
<1>5. \E d \in Before([id |-> creq, page |-> cpage]) : d \subseteq {k \in Calls : Delivered(k)}
  <2>1. CASE cpage > 1
    <3>1. cpage - 1 \in 1..Len(Pages[creq])
      BY <1>2, <2>1, StreamAssumption
    <3>2. [id |-> creq, page |-> cpage - 1] \in Calls
      BY <1>2, <3>1, CallFacts
    <3>3. Delivered([id |-> creq, page |-> cpage - 1])
      BY <1>2, <3>2 DEF Got
    <3>4. {[id |-> creq, page |-> cpage - 1]} \in Before([id |-> creq, page |-> cpage])
      BY <2>1 DEF Before
    <3> QED
      BY <3>2, <3>3, <3>4
  <2>2. CASE ~(cpage > 1)
    BY <1>2, <2>2 DEF Before
  <2> QED
    BY <2>1, <2>2
<1> QED
  BY <1>1, <1>3, <1>4, <1>5, DeliverSteps

LEMMA ThreadPageStep ==
  ASSUME Known, [Next]_vars, ThreadPage, Deliver(treq.id, tpage)
  PROVE  Promise!Next
<1> USE DEF Known, IInv, EndInv, Progress
<1>1. pc["thread"] = "page" /\ UNCHANGED status /\ "thread" \in Workers
  BY DEF ThreadPage, Workers
<1>2. treq.id \in Threads /\ tpage \in 1..Replies[treq.id] /\ Got(treq.id, tpage - 1)
      /\ Justified(treq.id)
  BY <1>1 DEF Control, ThreadBusy, ThreadReq, MidThread, Place, ThreadPart, Provenance
<1>3. [id |-> treq.id, page |-> tpage] \in Calls
  BY <1>2, CallFacts
<1>4. status # "ok"
  BY <1>1 DEF Quiet, Order
<1>5. \E d \in Before([id |-> treq.id, page |-> tpage]) : d \subseteq {k \in Calls : Delivered(k)}
  <2>1. CASE tpage > 1
    <3>1. tpage - 1 \in 1..Replies[treq.id]
      BY <1>2, <2>1, StreamAssumption
    <3>2. [id |-> treq.id, page |-> tpage - 1] \in Calls
      BY <1>2, <3>1, CallFacts
    <3>3. Delivered([id |-> treq.id, page |-> tpage - 1])
      BY <1>2, <3>2 DEF Got
    <3>4. {[id |-> treq.id, page |-> tpage - 1]} \in Before([id |-> treq.id, page |-> tpage])
      BY <2>1 DEF Before
    <3> QED
      BY <3>2, <3>3, <3>4
  <2>2. CASE ~(tpage > 1)
    <3>1. treq.id \notin Channels
      BY <1>2, StreamAssumption
    <3>2. CASE Announced(treq.id)
      <4>1. PICK x \in ChanCalls : Delivered(x) /\ treq.id \in ElemsOf(Pages[x.id][x.page])
        BY <3>2 DEF Announced
      <4>2. {x} \in Before([id |-> treq.id, page |-> tpage])
        BY <2>2, <3>1, <4>1 DEF Before
      <4> QED
        BY <4>1, <4>2 DEF Calls
    <3>3. CASE Linked(treq.id)
      <4>1. {} \in Before([id |-> treq.id, page |-> tpage])
        BY <2>2, <3>1, <3>3 DEF Before
      <4> QED
        BY <4>1
    <3> QED
      BY <1>2, <3>2, <3>3 DEF Justified
  <2> QED
    BY <2>1, <2>2
<1> QED
  BY <1>1, <1>3, <1>4, <1>5, DeliverSteps

\* A link that is done stands for pages that have all arrived.
LEMMA UnitArrives ==
  ASSUME NEW l \in Link, LinkDone(l)
  PROVE  UnitOf(l) \subseteq {k \in Calls : Delivered(k)}
<1> SUFFICES ASSUME NEW k \in Calls,
                    \/ k.id = l.id
                    \/ l.kind = "channel" /\ \E p \in DOMAIN Pages[l.id] : k.id \in ElemsOf(Pages[l.id][p])
             PROVE  Delivered(k)
  BY DEF UnitOf
<1>1. k = [id |-> k.id, page |-> k.page]
  BY CallFacts
<1>2. CASE l.kind = "thread"
  <2>1. l.id \in Threads /\ k.id = l.id
    BY <1>2 DEF Link
  <2> QED
    BY <1>1, <1>2, <2>1, CallFacts DEF LinkDone
<1>3. CASE l.kind = "channel"
  <2>1. l.id \in Channels /\ ChannelDone(l.id)
    BY <1>3 DEF Link, LinkDone
  <2>2. CASE k.id = l.id
    BY <1>1, <2>1, <2>2, CallFacts DEF ChannelDone
  <2>3. CASE \E p \in DOMAIN Pages[l.id] : k.id \in ElemsOf(Pages[l.id][p])
    <3>1. PICK p \in DOMAIN Pages[l.id] : k.id \in ElemsOf(Pages[l.id][p])
      BY <2>3
    <3>2. Pages[l.id] \in Seq(Seq(Threads))
      BY <2>1, StreamAssumption
    <3>3. p \in 1..Len(Pages[l.id]) /\ Pages[l.id][p] \in Seq(Threads)
      BY <3>1, <3>2
    <3>4. k.id \in Threads
      BY <3>1, <3>3 DEF ElemsOf
    <3>5. k.page \in 1..Replies[k.id]
      BY <3>4, CallFacts
    <3> QED
      BY <1>1, <2>1, <3>1, <3>3, <3>5 DEF ChannelDone
  <2> QED
    BY <2>2, <2>3
<1> QED
  BY <1>2, <1>3 DEF Link

LEMMA ReturnStep ==
  ASSUME Known, Known', [Next]_vars, Return
  PROVE  Promise!Next
<1>1. CompleteOnSuccess'
  BY DEF Known
<1>2. status = "run" /\ status' = "ok" /\ UNCHANGED calls
  BY DEF Return, history
<1>3. \A i \in DOMAIN Links : LinkDone(Links[i]) \/ "notfound" \in Faults
  BY <1>1, <1>2 DEF CompleteOnSuccess, LinkDone, ChannelDone, Delivered
<1>4. \A i \in DOMAIN Links : Links[i] \in Link
  BY StreamAssumption
<1>5. \A u \in {UnitOf(Links[i]) : i \in DOMAIN Links} :
         u \subseteq {k \in Calls : Delivered(k)} \/ "notfound" \in Faults
  BY <1>3, <1>4, UnitArrives
<1>6. UNCHANGED {k \in Calls : Delivered(k)}
  BY <1>2 DEF Delivered
<1>7. Promise!Succeed
  BY <1>2, <1>5, <1>6 DEF Promise!Succeed
<1> QED
  BY <1>7 DEF Promise!Next

LEMMA ConsumeStep ==
  ASSUME Known, Consume, UNCHANGED calls
  PROVE  Promise!Next \/ UNCHANGED Promise!vars
<1>1. UNCHANGED {k \in Calls : Delivered(k)}
  BY DEF Delivered
<1>2. resultsC # <<>> /\ resultsC \in Seq(Result) /\ status = "run"
  BY DEF Consume, Known, IInv, TypeOK
<1>3. CASE status' = "run"
  BY <1>1, <1>2, <1>3 DEF Promise!vars
<1>4. CASE status' = "failed"
  <2>1. Head(resultsC).err # "none" \/ "callback" \in Faults
    BY <1>4 DEF Consume
  <2>2. Faults # {}
    <3>1. CASE Head(resultsC).err # "none"
      BY <1>2, <3>1 DEF Known, Calm
    <3> QED
      BY <2>1, <3>1
  <2>3. Promise!Fail
    BY <1>1, <1>2, <1>4, <2>2 DEF Promise!Fail
  <2> QED
    BY <2>3 DEF Promise!Next
<1> QED
  BY <1>3, <1>4 DEF Consume

LEMMA PromiseStep ==
  ASSUME Known, Known', [Next]_vars
  PROVE  Promise!Next \/ UNCHANGED Promise!vars
<1>1. CASE UNCHANGED <<calls, status>>
  BY <1>1 DEF Promise!vars, Delivered
<1>2. CASE ~UNCHANGED calls
  BY <1>2, WhoCalls, ChannelPageStep, ThreadPageStep
<1>3. CASE UNCHANGED calls /\ ~UNCHANGED status
  BY <1>3, WhoEnds, ConsumeStep, ReturnStep
<1> QED
  BY <1>1, <1>2, <1>3

LEMMA PromiseInit == Init => Promise!Init
BY DEF Init, Promise!Init, Delivered

\* The goroutines, their Go channels and the loop over the results do what Delivery
\* promises to the processor, for any workspace, links, capacities and faults.
THEOREM StreamImplementsDelivery == Spec => KeepsPromise
<1>1. Known /\ Known' /\ [Next]_vars => [Promise!Next]_(Promise!vars)
  BY PromiseStep
<1>2. Spec => []Known
  BY Invariance, EndInvariance, ProgressInvariance, CalmInvariance, NilReturnIsComplete, PTL
     DEF Known
<1> QED
  BY <1>1, <1>2, PromiseInit, PTL DEF Spec, KeepsPromise, Promise!Spec

-----------------------------------------------------------------------------
(* The history of calls: a page is delivered as often as it is due.  What  *)
(* is due of a page is counted over the places a request can be in.        *)

\* Injections and bijections from what they do.
LEMMA Maps ==
  ASSUME NEW S, NEW T, NEW f \in [S -> T], \A a, b \in S : f[a] = f[b] => a = b
  PROVE  /\ f \in Injection(S, T)
         /\ (\A y \in T : \E x \in S : f[x] = y) => f \in Bijection(S, T) /\ f \in Surjection(S, T)
<1>1. IsInjective(f)
  BY DEF IsInjective
<1>2. f \in Injection(S, T)
  BY <1>1 DEF Injection
<1>3. ASSUME \A y \in T : \E x \in S : f[x] = y PROVE f \in Surjection(S, T)
  BY <1>3 DEF Surjection
<1> QED
  BY <1>2, <1>3 DEF Bijection

\* How often a sequence has an element in P.
Places(s, P) == {i \in 1..Len(s) : s[i] \in P}
Hits(s, P) == Cardinality(Places(s, P))

LEMMA HitsType ==
  ASSUME NEW S, NEW s \in Seq(S), NEW P
  PROVE  IsFiniteSet(Places(s, P)) /\ Hits(s, P) \in Nat
<1>1. IsFiniteSet(1..Len(s))
  <2>1. 1 \in Int /\ Len(s) \in Int
    OBVIOUS
  <2> QED
    BY <2>1, FS_Interval
<1>2. Places(s, P) \subseteq 1..Len(s)
  BY DEF Places
<1>3. IsFiniteSet(Places(s, P))
  BY <1>1, <1>2, FS_Subset
<1> QED
  BY <1>3, FS_CardinalityType DEF Hits

LEMMA HitsEmpty == ASSUME NEW P PROVE Hits(<<>>, P) = 0
<1>1. Places(<<>>, P) = {}
  BY DEF Places
<1> QED
  BY <1>1, FS_EmptySet DEF Hits

LEMMA HitsAppend ==
  ASSUME NEW S, NEW s \in Seq(S), NEW e \in S, NEW P
  PROVE  Hits(Append(s, e), P) = IF e \in P THEN Hits(s, P) + 1 ELSE Hits(s, P)
<1> DEFINE n == Len(s) + 1
<1>0. IsFiniteSet(Places(s, P)) /\ n \notin Places(s, P)
  <2>1. IsFiniteSet(Places(s, P))
    BY HitsType
  <2>2. n \notin Places(s, P)
    BY DEF Places
  <2> QED
    BY <2>1, <2>2
<1>1. CASE e \in P
  <2>1. Places(Append(s, e), P) = Places(s, P) \cup {n}
    BY <1>1 DEF Places
  <2> QED
    BY <2>1, <1>0, <1>1, FS_AddElement DEF Hits
<1>2. CASE e \notin P
  <2>1. Places(Append(s, e), P) = Places(s, P)
    BY <1>2 DEF Places
  <2> QED
    BY <2>1, <1>2 DEF Hits
<1> QED
  BY <1>1, <1>2

LEMMA HitsTail ==
  ASSUME NEW S, NEW s \in Seq(S), s # <<>>, NEW P
  PROVE  Hits(s, P) = IF Head(s) \in P THEN Hits(Tail(s), P) + 1 ELSE Hits(Tail(s), P)
<1> DEFINE R == Places(s, P) \ {1}
           f == [i \in Places(Tail(s), P) |-> i + 1]
<1>t. Tail(s) \in Seq(S) /\ Len(Tail(s)) = Len(s) - 1 /\ Len(s) \in Nat \ {0}
      /\ Head(s) = s[1] /\ \A i \in 1..Len(s) - 1 : Tail(s)[i] = s[i + 1]
  OBVIOUS
<1>1. f \in Bijection(Places(Tail(s), P), R)
  <2>1. f \in [Places(Tail(s), P) -> R]
    BY <1>t DEF Places
  <2>2. \A a, b \in Places(Tail(s), P) : f[a] = f[b] => a = b
    BY <1>t DEF Places
  <2>3. ASSUME NEW y \in R PROVE \E x \in Places(Tail(s), P) : f[x] = y
    <3>1. y - 1 \in Places(Tail(s), P) /\ y \in Int
      BY <1>t DEF Places
    <3>2. f[y - 1] = y
      BY <3>1
    <3> QED
      BY <3>1, <3>2
  <2> HIDE DEF f, R
  <2> QED
    BY <2>1, <2>2, <2>3, Maps
<1>2. IsFiniteSet(Places(s, P)) /\ IsFiniteSet(Places(Tail(s), P))
      /\ Hits(s, P) \in Nat /\ Hits(Tail(s), P) \in Nat
  BY <1>t, HitsType
<1>3. Cardinality(R) = Hits(Tail(s), P)
  <2> HIDE DEF f, R
  <2>1. ExistsBijection(Places(Tail(s), P), R)
    BY <1>1 DEF ExistsBijection
  <2> QED
    BY <2>1, <1>2, FS_Bijection DEF Hits
<1>4. CASE Head(s) \in P
  <2>1. 1 \in Places(s, P)
    BY <1>4, <1>t DEF Places
  <2>2. Cardinality(R) = Cardinality(Places(s, P)) - 1
    BY <2>1, <1>2, FS_RemoveElement
  <2> QED
    BY <2>2, <1>2, <1>3, <1>4 DEF Hits
<1>5. CASE Head(s) \notin P
  <2>1. R = Places(s, P)
    BY <1>5, <1>t DEF Places
  <2> QED
    BY <2>1, <1>3, <1>5 DEF Hits
<1> QED
  BY <1>4, <1>5

LEMMA HitsOnce ==
  ASSUME NEW S, NEW s \in Seq(S), \A i, j \in DOMAIN s : s[i] = s[j] => i = j, NEW x
  PROVE  Hits(s, {x}) = IF x \in ElemsOf(s) THEN 1 ELSE 0
<1>1. CASE x \in ElemsOf(s)
  <2>1. PICK i \in DOMAIN s : s[i] = x
    BY <1>1 DEF ElemsOf
  <2>2. Places(s, {x}) = {i}
    BY <2>1 DEF Places
  <2> QED
    BY <2>2, <1>1, FS_Singleton DEF Hits
<1>2. CASE x \notin ElemsOf(s)
  <2>1. Places(s, {x}) = {}
    BY <1>2 DEF Places, ElemsOf
  <2> QED
    BY <2>1, <1>2, FS_EmptySet DEF Hits
<1> QED
  BY <1>1, <1>2

-----------------------------------------------------------------------------
(* Requests for an entity, at every place on their way: links not received and the link *)
(* that the main loop holds, the Go channels, the threads still to be requested of a     *)
(* page, and the worker as long as it has not come to page p of the entity.              *)

LinksOf(id) == {l \in Link : l.id = id}
ReqsOf(id) == {r \in ThreadReq : r.id = id}

AtMain(id) == IF pc["main"] \in {"putChan", "putThread"} /\ held = id THEN 1 ELSE 0
ToFetch == ChanBusy /\ pc["channel"] # "spawn"
AtChannel(id, p) ==
  IF /\ creq = id
     /\ \/ pc["channel"] = "info"
        \/ ToFetch /\ cpage <= p
        \/ pc["channel"] = "spawn" /\ cpage < p
  THEN 1 ELSE 0
AtThread(id, p) ==
  IF treq.id = id /\ (pc["thread"] = "info" \/ (MidThread /\ tpage <= p)) THEN 1 ELSE 0

InMain(id) == Hits(links, LinksOf(id)) + AtMain(id)
InChannel(id, p) == Hits(chansC, {id}) + AtChannel(id, p)
InThread(id, p) == Hits(threadsC, ReqsOf(id)) + AtThread(id, p)
Due(id, p) == InMain(id) + InChannel(id, p) + Hits(todo, {id}) + InThread(id, p)

LEMMA DueType ==
  ASSUME TypeOK, NEW id, NEW p
  PROVE  /\ Hits(links, LinksOf(id)) \in Nat /\ Hits(chansC, {id}) \in Nat
         /\ Hits(todo, {id}) \in Nat /\ Hits(threadsC, ReqsOf(id)) \in Nat
         /\ InMain(id) \in Nat /\ InChannel(id, p) \in Nat /\ InThread(id, p) \in Nat
         /\ Due(id, p) \in Nat
<1>1. /\ Hits(links, LinksOf(id)) \in Nat /\ Hits(chansC, {id}) \in Nat
      /\ Hits(todo, {id}) \in Nat /\ Hits(threadsC, ReqsOf(id)) \in Nat
  BY HitsType DEF TypeOK
<1>2. AtMain(id) \in Nat /\ AtChannel(id, p) \in Nat /\ AtThread(id, p) \in Nat
  BY DEF AtMain, AtChannel, AtThread
<1>3. InMain(id) \in Nat /\ InChannel(id, p) \in Nat /\ InThread(id, p) \in Nat
  BY <1>1, <1>2 DEF InMain, InChannel, InThread
<1> QED
  BY <1>1, <1>3 DEF Due

\* What anything but the main loop does to its part.
LEMMA MainPartStill ==
  ASSUME TypeOK, [Next]_vars, ~Main, NEW id
  PROVE  InMain(id)' = InMain(id)
BY MainStill DEF InMain, AtMain

LEMMA AtChannelStill ==
  ASSUME TypeOK, [Next]_vars, ~ChannelWorker, NEW id, NEW p
  PROVE  AtChannel(id, p)' = AtChannel(id, p)
BY ChannelStill DEF AtChannel, ToFetch

LEMMA AtThreadStill ==
  ASSUME TypeOK, [Next]_vars, ~ThreadWorker, NEW id, NEW p
  PROVE  AtThread(id, p)' = AtThread(id, p)
BY ThreadStill DEF AtThread

\* A request put on threadsC is there once, or the process is aborted.
LEMMA PutDue ==
  ASSUME TypeOK, NEW r \in ThreadReq, PutThread(r), NEW id
  PROVE  Hits(threadsC', ReqsOf(id)) <= Hits(threadsC, ReqsOf(id)) + (IF r.id = id THEN 1 ELSE 0)
<1>1. threadsC \in Seq(ThreadReq) /\ Hits(threadsC, ReqsOf(id)) \in Nat
  BY DueType DEF TypeOK
<1>2. r \in ReqsOf(id) <=> r.id = id
  BY DEF ReqsOf
<1>3. CASE UNCHANGED threadsC
  BY <1>1, <1>3
<1>4. CASE threadsC' = Append(threadsC, r)
  BY <1>1, <1>2, <1>4, HitsAppend
<1> QED
  BY <1>3, <1>4 DEF PutThread

\* The main loop hands a link on: it holds it, then one of the Go channels does.
LEMMA MainDue ==
  ASSUME TypeOK, Control, Main, NEW id
  PROVE  InMain(id)' + Hits(chansC', {id}) + Hits(threadsC', ReqsOf(id))
           <= InMain(id) + Hits(chansC, {id}) + Hits(threadsC, ReqsOf(id))
<1> USE DEF queues
<1>t. /\ "main" \in Workers /\ pc \in [Workers -> Labels] /\ links \in Seq(Link)
      /\ chansC \in Seq(Channels) /\ \A l \in Link : l \in LinksOf(id) <=> l.id = id
  BY DEF TypeOK, Workers, LinksOf
<1>n. Hits(links, LinksOf(id)) \in Nat /\ Hits(chansC, {id}) \in Nat /\ Hits(threadsC, ReqsOf(id)) \in Nat
      /\ AtMain(id) \in {0, 1}
  BY DueType DEF AtMain
<1>1. CASE MainTake
  <2>1. links # <<>> /\ links' = Tail(links) /\ UNCHANGED <<chansC, threadsC>> /\ pc["main"] = "loop"
    BY <1>1 DEF MainTake
  <2>2. Head(links) \in Link /\ Tail(links) \in Seq(Link)
    BY <2>1, <1>t
  <2>3. Hits(links, LinksOf(id)) = IF Head(links).id = id THEN Hits(links', LinksOf(id)) + 1
                                   ELSE Hits(links', LinksOf(id))
    BY <2>1, <2>2, <1>t, HitsTail
  <2>4. Hits(links', LinksOf(id)) \in Nat
    BY <2>1, <2>2, HitsType
  <2>5. AtMain(id)' <= IF Head(links).id = id THEN 1 ELSE 0
    BY <1>1, <1>t, <2>1 DEF MainTake, AtMain, Raise, Goto
  <2>6. AtMain(id)' \in {0, 1} /\ AtMain(id) = 0
    BY <2>1 DEF AtMain
  <2> QED
    BY <2>1, <2>3, <2>4, <2>5, <2>6, <1>n DEF InMain
<1>2. CASE MainEnd
  <2>1. AtMain(id)' = 0 /\ UNCHANGED <<links, chansC, threadsC>>
    BY <1>2, <1>t DEF MainEnd, AtMain, Goto
  <2> QED
    BY <2>1, <1>n DEF InMain
<1>3. CASE MainPutChan
  <2>1. /\ AtMain(id)' = 0 /\ UNCHANGED <<links, threadsC>> /\ chansC' = Append(chansC, held)
        /\ AtMain(id) = IF held = id THEN 1 ELSE 0
    BY <1>3, <1>t DEF MainPutChan, AtMain, Goto
  <2>2. held \in Channels
    BY <1>3 DEF MainPutChan, Control
  <2>3. Hits(chansC', {id}) = IF held = id THEN Hits(chansC, {id}) + 1 ELSE Hits(chansC, {id})
    BY <2>1, <2>2, <1>t, HitsAppend
  <2> QED
    BY <2>1, <2>3, <1>n DEF InMain
<1>4. CASE MainPutThread
  <2>1. /\ AtMain(id)' = 0 /\ UNCHANGED <<links, chansC>> /\ PutThread([id |-> held, only |-> TRUE])
        /\ AtMain(id) = IF held = id THEN 1 ELSE 0
    BY <1>4, <1>t DEF MainPutThread, AtMain, Goto
  <2>2. [id |-> held, only |-> TRUE] \in ThreadReq
    BY <1>4 DEF MainPutThread, Control, ThreadReq
  <2>3. Hits(threadsC', ReqsOf(id)) <= Hits(threadsC, ReqsOf(id)) + (IF held = id THEN 1 ELSE 0)
    BY <2>1, <2>2, PutDue
  <2>4. Hits(threadsC', ReqsOf(id)) \in Nat
    <3>1. threadsC' \in Seq(ThreadReq)
      BY <2>1, <2>2, PutThreadType
    <3> QED
      BY <3>1, HitsType
  <2> QED
    BY <2>1, <2>3, <2>4, <1>n DEF InMain
<1> QED
  BY <1>1, <1>2, <1>3, <1>4 DEF Main

\* The channel worker takes a request and keeps it until its last page.
LEMMA ChanRecvDue ==
  ASSUME TypeOK, ChanRecv, NEW id, NEW p
  PROVE  InChannel(id, p)' <= InChannel(id, p)
<1>t. "channel" \in Workers /\ pc \in [Workers -> Labels] /\ chansC \in Seq(Channels)
  BY DEF TypeOK, Workers
<1>n. Hits(chansC, {id}) \in Nat /\ AtChannel(id, p) \in {0, 1} /\ AtChannel(id, p)' \in {0, 1}
  BY DueType DEF AtChannel
<1>1. CASE chansC # <<>> /\ creq' = Head(chansC) /\ chansC' = Tail(chansC)
  <2>1. Tail(chansC) \in Seq(Channels)
    BY <1>t, <1>1
  <2>2. Hits(chansC, {id}) = IF creq' = id THEN Hits(chansC', {id}) + 1 ELSE Hits(chansC', {id})
    BY <1>1, <1>t, HitsTail
  <2>3. Hits(chansC', {id}) \in Nat
    BY <1>1, <2>1, HitsType
  <2>4. creq' # id => AtChannel(id, p)' = 0
    BY DEF AtChannel
  <2> QED
    BY <2>2, <2>3, <2>4, <1>n DEF InChannel
<1>2. CASE UNCHANGED <<creq, chansC>> /\ Goto("channel", "exit")
  <2>1. AtChannel(id, p)' = 0
    BY <1>2, <1>t DEF Goto, AtChannel, ToFetch, ChanBusy
  <2> QED
    BY <1>2, <2>1, <1>n DEF InChannel
<1> QED
  BY <1>1, <1>2 DEF ChanRecv

LEMMA ChanSpawnDue ==
  ASSUME TypeOK, ChanSpawn, NEW id, NEW p
  PROVE  Hits(todo', {id}) + Hits(threadsC', ReqsOf(id)) <= Hits(todo, {id}) + Hits(threadsC, ReqsOf(id))
         /\ InChannel(id, p)' = InChannel(id, p)
<1>t. todo \in Seq(Threads) /\ todo # <<>> /\ todo' = Tail(todo) /\ PutThread([id |-> Head(todo), only |-> FALSE])
  BY DEF TypeOK, ChanSpawn
<1>r. [id |-> Head(todo), only |-> FALSE] \in ThreadReq
  BY <1>t DEF ThreadReq
<1>n. Hits(todo, {id}) \in Nat /\ Hits(threadsC, ReqsOf(id)) \in Nat
  BY DueType
<1>1. Hits(threadsC', ReqsOf(id)) <= Hits(threadsC, ReqsOf(id)) + (IF Head(todo) = id THEN 1 ELSE 0)
  BY <1>t, <1>r, PutDue
<1>2. Hits(threadsC', ReqsOf(id)) \in Nat
  <2>1. threadsC' \in Seq(ThreadReq)
    BY <1>t, <1>r, PutThreadType
  <2> QED
    BY <2>1, HitsType
<1>3. Hits(todo, {id}) = IF Head(todo) = id THEN Hits(todo', {id}) + 1 ELSE Hits(todo', {id})
  BY <1>t, HitsTail
<1>4. Hits(todo', {id}) \in Nat
  <2>1. todo' \in Seq(Threads)
    BY <1>t
  <2> QED
    BY <2>1, HitsType
<1>5. InChannel(id, p)' = InChannel(id, p)
  BY DEF ChanSpawn, InChannel, AtChannel, ToFetch, ChanBusy
<1> QED
  BY <1>n, <1>1, <1>2, <1>3, <1>4, <1>5

LEMMA ChanKeepsDue ==
  ASSUME TypeOK, Control, NEW id, NEW p \in Nat, ChanInfo \/ ChanReport
  PROVE  InChannel(id, p)' <= InChannel(id, p)
<1> USE DEF queues
<1>t. "channel" \in Workers /\ pc \in [Workers -> Labels] /\ after \in [Workers -> Resumes]
  BY DEF TypeOK, Workers
<1>n. Hits(chansC, {id}) \in Nat /\ AtChannel(id, p) \in {0, 1} /\ AtChannel(id, p)' \in {0, 1}
  BY DueType DEF AtChannel
<1>1. CASE ChanInfo
  <2>1. AtChannel(id, p)' <= AtChannel(id, p) /\ UNCHANGED chansC
    BY <1>1, <1>t DEF ChanInfo, Info, Goto, Raise, AtChannel, ToFetch, ChanBusy
  <2> QED
    BY <2>1, <1>n DEF InChannel
<1>2. CASE ChanReport
  <2> DEFINE isLast == cpage = Len(Pages[creq])
  <2>1. Raise("channel", Success("channel", creq, isLast), IF isLast THEN "loop" ELSE "page")
        /\ cpage' = (IF isLast THEN cpage ELSE cpage + 1) /\ UNCHANGED <<creq, chansC>> /\ pc["channel"] = "spawn"
    BY <1>2 DEF ChanReport, NextPage
  <2>2. cpage \in Nat
    BY DEF TypeOK
  <2> HIDE DEF isLast
  <2>3. pc'["channel"] = "send" /\ after'["channel"] = (IF isLast THEN "loop" ELSE "page")
    BY <2>1, <1>t, RaiseOne
  <2>4. AtChannel(id, p)' <= AtChannel(id, p) /\ UNCHANGED chansC
    BY <2>1, <2>2, <2>3 DEF AtChannel, ToFetch, ChanBusy
  <2> QED
    BY <2>4, <1>n DEF InChannel
<1> QED
  BY <1>1, <1>2

\* Each time that a page with id on it has been delivered.
Found(id) ==
  {x \in Nat \X ChanCalls : x[1] \in 1..calls[x[2]] /\ id \in ElemsOf(Pages[x[2].id][x[2].page])}

LEMMA ThreadRecvDue ==
  ASSUME TypeOK, ThreadRecv, NEW id, NEW p \in Nat \ {0}
  PROVE  InThread(id, p)' <= InThread(id, p)
<1>t. "thread" \in Workers /\ pc \in [Workers -> Labels] /\ threadsC \in Seq(ThreadReq)
      /\ \A r \in ThreadReq : r \in ReqsOf(id) <=> r.id = id
  BY DEF TypeOK, Workers, ReqsOf
<1>n. Hits(threadsC, ReqsOf(id)) \in Nat /\ AtThread(id, p) \in {0, 1} /\ AtThread(id, p)' \in {0, 1}
  BY DueType DEF AtThread
<1>1. CASE threadsC # <<>> /\ treq' = Head(threadsC) /\ threadsC' = Tail(threadsC)
  <2>1. Tail(threadsC) \in Seq(ThreadReq) /\ Head(threadsC) \in ThreadReq
    BY <1>t, <1>1
  <2>2. Hits(threadsC, ReqsOf(id)) = IF treq'.id = id THEN Hits(threadsC', ReqsOf(id)) + 1
                                     ELSE Hits(threadsC', ReqsOf(id))
    BY <1>1, <1>t, <2>1, HitsTail
  <2>3. Hits(threadsC', ReqsOf(id)) \in Nat
    BY <1>1, <2>1, HitsType
  <2>4. treq'.id # id => AtThread(id, p)' = 0
    BY DEF AtThread
  <2> QED
    BY <2>2, <2>3, <2>4, <1>n DEF InThread
<1>2. CASE UNCHANGED <<treq, threadsC>> /\ Goto("thread", "exit")
  <2>1. AtThread(id, p)' = 0
    BY <1>2, <1>t DEF Goto, AtThread, MidThread
  <2> QED
    BY <1>2, <2>1, <1>n DEF InThread
<1> QED
  BY <1>1, <1>2 DEF ThreadRecv

LEMMA ThreadInfoDue ==
  ASSUME TypeOK, ThreadInfo, NEW id, NEW p
  PROVE  InThread(id, p)' <= InThread(id, p)
<1>t. "thread" \in Workers /\ pc \in [Workers -> Labels] /\ after \in [Workers -> Resumes]
  BY DEF TypeOK, Workers
<1>n. Hits(threadsC, ReqsOf(id)) \in Nat /\ AtThread(id, p) \in {0, 1} /\ AtThread(id, p)' \in {0, 1}
  BY DueType DEF AtThread
<1>1. AtThread(id, p)' <= AtThread(id, p) /\ UNCHANGED threadsC
  BY <1>t DEF ThreadInfo, Info, Goto, Raise, AtThread, MidThread, queues
<1> QED
  BY <1>1, <1>n DEF InThread

\* An attempt repeated past a first page makes the pages before it due once more.
LEMMA ThreadRetryDue ==
  ASSUME TypeOK, Control, ThreadRetry, NEW id, NEW p
  PROVE  InThread(id, p)' <= InThread(id, p) + (IF id \in Threads THEN 1 ELSE 0)
<1>n. Hits(threadsC, ReqsOf(id)) \in Nat /\ AtThread(id, p) \in {0, 1} /\ AtThread(id, p)' \in {0, 1}
  BY DueType DEF AtThread
<1>1. treq.id \in Threads /\ UNCHANGED <<treq, threadsC>>
  BY DEF ThreadRetry, Control, ThreadBusy, ThreadReq, queues
<1>2. id # treq.id => AtThread(id, p)' = 0
  BY <1>1 DEF AtThread
<1> QED
  BY <1>1, <1>2, <1>n DEF InThread

\* The counts of Deliver.
LEMMA DeliverCount ==
  ASSUME TypeOK, NEW id, NEW page, Deliver(id, page), NEW k \in Calls
  PROVE  /\ calls[k] \in Nat /\ calls'[k] \in Nat
         /\ calls'[k] = IF k = [id |-> id, page |-> page] THEN calls[k] + 1 ELSE calls[k]
<1> DEFINE c == [id |-> id, page |-> page]
<1>1. calls \in [Calls -> Nat] /\ calls' = [calls EXCEPT ![c] = @ + 1]
  BY DEF TypeOK, Deliver
<1> HIDE DEF c
<1>2. CASE k = c
  BY <1>1, <1>2 DEF c
<1>3. CASE k # c
  BY <1>1, <1>3 DEF c
<1> QED
  BY <1>2, <1>3

LEMMA ThreadPageDue ==
  ASSUME TypeOK, Control, ThreadPage, NEW k \in Calls
  PROVE  calls'[k] + InThread(k.id, k.page)' <= calls[k] + InThread(k.id, k.page)
<1>t. "thread" \in Workers /\ pc \in [Workers -> Labels] /\ after \in [Workers -> Resumes]
      /\ calls[k] \in Nat /\ tpage \in Nat
  BY DEF TypeOK, Workers
<1>k. k = [id |-> k.id, page |-> k.page] /\ k.page \in Int
  BY CallFacts
<1>n. /\ Hits(threadsC, ReqsOf(k.id)) \in Nat
      /\ AtThread(k.id, k.page) \in {0, 1} /\ AtThread(k.id, k.page)' \in {0, 1}
  BY DueType DEF AtThread
<1>u. UNCHANGED <<treq, threadsC>> /\ pc["thread"] = "page"
  BY DEF ThreadPage, queues
<1> DEFINE isLast == tpage = Replies[treq.id]
<1>1. CASE /\ Deliver(treq.id, tpage) /\ tpage' = NextPage(tpage, Replies[treq.id])
           /\ Raise("thread", Success("thread", treq.id, isLast), IF isLast THEN "loop" ELSE "page")
  <2>1. pc'["thread"] = "send" /\ after'["thread"] = (IF isLast THEN "loop" ELSE "page")
    BY <1>1, <1>t, RaiseOne
  <2>2. ~isLast => tpage' = tpage + 1
    BY <1>1 DEF NextPage
  <2>3. calls'[k] = IF k = [id |-> treq.id, page |-> tpage] THEN calls[k] + 1 ELSE calls[k]
    BY <1>1, DeliverCount
  <2> HIDE DEF isLast
  <2>4. CASE k = [id |-> treq.id, page |-> tpage]
    <3>1. AtThread(k.id, k.page) = 1
      BY <2>4, <1>u, <1>t DEF AtThread, MidThread
    <3>2. AtThread(k.id, k.page)' = 0
      BY <2>4, <1>t, <2>1, <2>2 DEF AtThread, MidThread
    <3> QED
      BY <3>1, <3>2, <2>3, <2>4, <1>n, <1>u, <1>t DEF InThread
  <2>5. CASE k # [id |-> treq.id, page |-> tpage]
    <3>1. AtThread(k.id, k.page)' <= AtThread(k.id, k.page)
      BY <2>5, <1>k, <1>t, <1>u, <2>1, <2>2 DEF AtThread, MidThread
    <3> QED
      BY <3>1, <2>3, <2>5, <1>n, <1>u, <1>t DEF InThread
  <2> QED
    BY <2>4, <2>5
<1>2. CASE UNCHANGED <<history, tpage>> /\ Raise("thread", Failure("thread", treq.id, "fatal"), "loop")
  <2>1. pc'["thread"] = "send" /\ after'["thread"] = "loop"
    BY <1>2, <1>t, RaiseOne
  <2>2. AtThread(k.id, k.page)' = 0 /\ UNCHANGED calls
    BY <2>1, <1>2 DEF AtThread, MidThread, history
  <2> QED
    BY <2>2, <1>n, <1>u, <1>t DEF InThread
<1> QED
  BY <1>1, <1>2 DEF ThreadPage

LEMMA ChanPageDue ==
  ASSUME TypeOK, Control, ChanPage, NEW k \in Calls
  PROVE  calls'[k] + InChannel(k.id, k.page)' <= calls[k] + InChannel(k.id, k.page)
<1>t. "channel" \in Workers /\ pc \in [Workers -> Labels] /\ after \in [Workers -> Resumes]
      /\ calls[k] \in Nat /\ cpage \in Nat
  BY DEF TypeOK, Workers
<1>k. k = [id |-> k.id, page |-> k.page] /\ k.page \in Int
  BY CallFacts
<1>n. /\ Hits(chansC, {k.id}) \in Nat
      /\ AtChannel(k.id, k.page) \in {0, 1} /\ AtChannel(k.id, k.page)' \in {0, 1}
  BY DueType DEF AtChannel
<1>u. UNCHANGED <<creq, cpage, chansC>> /\ pc["channel"] = "page"
  BY DEF ChanPage, queues
<1>1. CASE Deliver(creq, cpage) /\ Goto("channel", "spawn")
  <2>1. pc'["channel"] = "spawn"
    BY <1>1, <1>t, OnlyOne
  <2>3. calls'[k] = IF k = [id |-> creq, page |-> cpage] THEN calls[k] + 1 ELSE calls[k]
    BY <1>1, DeliverCount
  <2>4. CASE k = [id |-> creq, page |-> cpage]
    <3>1. AtChannel(k.id, k.page) = 1
      BY <2>4, <1>u, <1>t DEF AtChannel, ToFetch, ChanBusy
    <3>2. AtChannel(k.id, k.page)' = 0
      BY <2>4, <1>t, <1>u, <2>1 DEF AtChannel, ToFetch, ChanBusy
    <3> QED
      BY <3>1, <3>2, <2>3, <2>4, <1>n, <1>u, <1>t DEF InChannel
  <2>5. CASE k # [id |-> creq, page |-> cpage]
    <3>1. AtChannel(k.id, k.page)' <= AtChannel(k.id, k.page)
      BY <2>5, <1>k, <1>t, <1>u, <2>1 DEF AtChannel, ToFetch, ChanBusy
    <3> QED
      BY <3>1, <2>3, <2>5, <1>n, <1>u, <1>t DEF InChannel
  <2> QED
    BY <2>4, <2>5
<1>2. CASE UNCHANGED <<history, todo>> /\ Raise("channel", Failure("channel", creq, "fatal"), "loop")
  <2>1. pc'["channel"] = "send" /\ after'["channel"] = "loop"
    BY <1>2, <1>t, RaiseOne
  <2>2. AtChannel(k.id, k.page)' = 0 /\ UNCHANGED calls
    BY <2>1, <1>2 DEF AtChannel, ToFetch, ChanBusy, history
  <2> QED
    BY <2>2, <1>n, <1>u, <1>t DEF InChannel
<1> QED
  BY <1>1, <1>2 DEF ChanPage

\* A page of a channel delivered is one place more at which its threads are found.
LEMMA PageFound ==
  ASSUME TypeOK, Control, pc["channel"] = "page", Deliver(creq, cpage), NEW id, IsFiniteSet(Found(id))
  PROVE  /\ IsFiniteSet(Found(id)')
         /\ Cardinality(Found(id)') = IF id \in ElemsOf(Pages[creq][cpage])
                                      THEN Cardinality(Found(id)) + 1 ELSE Cardinality(Found(id))
<1> DEFINE c == [id |-> creq, page |-> cpage]
           x == <<calls[c] + 1, c>>
<1>1. c \in ChanCalls /\ c.id = creq /\ c.page = cpage
  BY CallSets DEF Control, ChanBusy
<1>2. \A k \in ChanCalls : /\ calls[k] \in Nat /\ calls'[k] \in Nat
                           /\ calls'[k] = IF k = c THEN calls[k] + 1 ELSE calls[k]
  BY DeliverCount DEF Calls
<1> HIDE DEF c
<1>3. calls[c] \in Nat
  BY <1>1, <1>2
<1>4. CASE id \in ElemsOf(Pages[creq][cpage])
  <2>1. x \in Nat \X ChanCalls /\ x[1] = calls[c] + 1 /\ x[2] = c
    BY <1>1, <1>3
  <2> HIDE DEF x
  <2>2. Found(id)' = Found(id) \cup {x}
    <3>1. ASSUME NEW y \in Nat \X ChanCalls
          PROVE  y[1] \in 1..calls'[y[2]] <=> y[1] \in 1..calls[y[2]] \/ (y[2] = c /\ y[1] = calls[c] + 1)
      <4>1. y[2] \in ChanCalls /\ y[1] \in Nat
        OBVIOUS
      <4>2. CASE y[2] = c
        BY <4>1, <4>2, <1>2, <1>3
      <4>3. CASE y[2] # c
        BY <4>1, <4>3, <1>2
      <4> QED
        BY <4>2, <4>3
    <3>2. ASSUME NEW y \in Nat \X ChanCalls PROVE (y[2] = c /\ y[1] = calls[c] + 1) <=> y = x
      BY <2>1 DEF x
    <3>3. id \in ElemsOf(Pages[x[2].id][x[2].page])
      BY <1>4, <1>1, <2>1
    <3>4. ASSUME NEW y \in Nat \X ChanCalls
          PROVE  y \in Found(id)' <=> y \in Found(id) \/ y = x
      BY <3>1, <3>2, <3>3 DEF Found
    <3>5. Found(id) \subseteq Nat \X ChanCalls /\ Found(id)' \subseteq Nat \X ChanCalls
      BY DEF Found
    <3> QED
      BY <3>4, <3>5, <2>1
  <2>3. x \notin Found(id)
    BY <2>1, <1>3 DEF Found
  <2> QED
    BY <2>2, <2>3, <1>4, FS_AddElement
<1>5. CASE id \notin ElemsOf(Pages[creq][cpage])
  <2>1. Found(id)' = Found(id)
    <3>1. ASSUME NEW y \in Nat \X ChanCalls, id \in ElemsOf(Pages[y[2].id][y[2].page])
          PROVE  calls'[y[2]] = calls[y[2]]
      BY <3>1, <1>1, <1>2, <1>5
    <3> QED
      BY <3>1 DEF Found
  <2> QED
    BY <2>1, <1>5
<1> QED
  BY <1>4, <1>5

LEMMA FoundStill ==
  ASSUME TypeOK, Control, [Next]_vars, ~(ChanPage /\ Deliver(creq, cpage)), NEW id
  PROVE  Found(id)' = Found(id)
<1>1. CASE UNCHANGED calls
  BY <1>1 DEF Found
<1>2. CASE ThreadPage /\ Deliver(treq.id, tpage)
  <2>1. treq.id \in Threads
    BY <1>2 DEF ThreadPage, Control, ThreadBusy, ThreadReq
  <2>2. ASSUME NEW k \in ChanCalls PROVE calls'[k] = calls[k]
    <3>1. k # [id |-> treq.id, page |-> tpage]
      BY <2>1, CallSets, StreamAssumption
    <3> QED
      BY <1>2, <3>1, DeliverCount DEF Calls
  <2> QED
    BY <2>2 DEF Found
<1> QED
  BY <1>1, <1>2, WhoCalls

\* The invariant: what has been delivered of a page and what is due of it is covered by
\* the links that ask for it, the places at which it was found, and the attempts repeated.
Asks(id) == Cardinality({i \in DOMAIN Links : Links[i].id = id})
Extra(k) == IF k \in ThreadCalls THEN retried ELSE 0
CountedAt(k) ==
  /\ IsFiniteSet(Found(k.id))
  /\ calls[k] + Due(k.id, k.page) <= Asks(k.id) + Cardinality(Found(k.id)) + Extra(k)
Counted == \A k \in Calls : CountedAt(k)

\* A step of one goroutine leaves the others where they are.
LEMMA OwnStep ==
  ASSUME TypeOK
  PROVE  /\ Main => /\ \A v \in {"channel", "thread"} : pc'[v] = pc[v] /\ after'[v] = after[v]
                    /\ UNCHANGED <<chanVars, threadVars, calls>>
         /\ ChannelWorker => /\ \A v \in {"main", "thread"} : pc'[v] = pc[v] /\ after'[v] = after[v]
                             /\ UNCHANGED <<links, held, threadVars>>
         /\ ThreadWorker => /\ \A v \in {"main", "channel"} : pc'[v] = pc[v] /\ after'[v] = after[v]
                            /\ UNCHANGED <<links, held, chansC, chanVars>>
<1> USE DEF Goto, Raise, queues, chanVars, threadVars, history
<1>t. pc \in [Workers -> Labels] /\ after \in [Workers -> Resumes] /\ Workers = {"main", "channel", "thread"}
  BY DEF TypeOK, Workers
<1>1. ASSUME Main
      PROVE  /\ \A v \in {"channel", "thread"} : pc'[v] = pc[v] /\ after'[v] = after[v]
             /\ UNCHANGED <<chanVars, threadVars, calls>>
  BY <1>1, <1>t DEF Main, MainTake, MainEnd, MainPutChan, MainPutThread
<1>2. ASSUME ChannelWorker
      PROVE  /\ \A v \in {"main", "thread"} : pc'[v] = pc[v] /\ after'[v] = after[v]
             /\ UNCHANGED <<links, held, threadVars>>
  BY <1>2, <1>t DEF ChannelWorker, ChanRecv, ChanInfo, Info, ChanPage, ChanSpawn, ChanReport
<1>3. ASSUME ThreadWorker
      PROVE  /\ \A v \in {"main", "channel"} : pc'[v] = pc[v] /\ after'[v] = after[v]
             /\ UNCHANGED <<links, held, chansC, chanVars>>
  BY <1>3, <1>t DEF ThreadWorker, ThreadRecv, ThreadInfo, Info, ThreadPage, ThreadRetry
<1> QED
  BY <1>1, <1>2, <1>3

LEMMA PartsOf ==
  ASSUME TypeOK, NEW id, NEW p
  PROVE  /\ Main => AtChannel(id, p)' = AtChannel(id, p) /\ AtThread(id, p)' = AtThread(id, p)
         /\ ChannelWorker => InMain(id)' = InMain(id) /\ AtThread(id, p)' = AtThread(id, p)
         /\ ThreadWorker => InMain(id)' = InMain(id) /\ InChannel(id, p)' = InChannel(id, p)
<1> USE OwnStep DEF chanVars, threadVars
<1>1. Main => AtChannel(id, p)' = AtChannel(id, p) /\ AtThread(id, p)' = AtThread(id, p)
  BY DEF AtChannel, AtThread, ToFetch, ChanBusy, MidThread
<1>2. ChannelWorker => InMain(id)' = InMain(id) /\ AtThread(id, p)' = AtThread(id, p)
  BY DEF AtThread, MidThread, InMain, AtMain
<1>3. ThreadWorker => InMain(id)' = InMain(id) /\ InChannel(id, p)' = InChannel(id, p)
  BY DEF InMain, AtMain, InChannel, AtChannel, ToFetch, ChanBusy
<1> QED
  BY <1>1, <1>2, <1>3

LEMMA CountTypes ==
  ASSUME TypeOK, NEW k \in Calls
  PROVE  /\ calls[k] \in Nat /\ Asks(k.id) \in Nat /\ Extra(k) \in Nat
         /\ IsFiniteSet(Found(k.id)) => Cardinality(Found(k.id)) \in Nat
<1>1. Asks(k.id) \in Nat
  <2>1. Len(Links) \in Int /\ 1 \in Int /\ DOMAIN Links = 1..Len(Links)
    BY StreamAssumption
  <2>2. IsFiniteSet(DOMAIN Links)
    BY <2>1, FS_Interval
  <2>3. IsFiniteSet({i \in DOMAIN Links : Links[i].id = k.id})
    BY <2>2, FS_Subset
  <2> QED
    BY <2>3, FS_CardinalityType DEF Asks
<1>2. calls[k] \in Nat /\ Extra(k) \in Nat
  BY DEF TypeOK, Extra
<1>3. IsFiniteSet(Found(k.id)) => Cardinality(Found(k.id)) \in Nat
  BY FS_CardinalityType
<1> QED
  BY <1>1, <1>2, <1>3

\* A step that delivers nothing and repeats nothing leaves no more due than before.
LEMMA DueFalls ==
  ASSUME TypeOK, TypeOK', Control, [Next]_vars, NEW k \in Calls,
         ~(ChanPage /\ Deliver(creq, cpage))
  PROVE  calls'[k] + Due(k.id, k.page)' <= calls[k] + Due(k.id, k.page) + (Extra(k)' - Extra(k))
<1> DEFINE id == k.id
           p == k.page
<1>p. p \in Nat \ {0} /\ (id \in Threads <=> k \in ThreadCalls)
  <2>1. k.page \in Nat \ {0}
    BY CallFacts, StreamAssumption
  <2>2. k.id \in Threads <=> k \in ThreadCalls
    BY CallSets, StreamAssumption DEF Calls
  <2> QED
    BY <2>1, <2>2
<1>n. /\ Hits(links, LinksOf(id)) \in Nat /\ Hits(chansC, {id}) \in Nat
      /\ Hits(todo, {id}) \in Nat /\ Hits(threadsC, ReqsOf(id)) \in Nat
      /\ InMain(id) \in Nat /\ InChannel(id, p) \in Nat /\ InThread(id, p) \in Nat
      /\ calls[k] \in Nat /\ Extra(k) \in Nat
  BY DueType, CountTypes
<1>o. /\ Hits(links', LinksOf(id)) \in Nat /\ Hits(chansC', {id}) \in Nat
      /\ Hits(todo', {id}) \in Nat /\ Hits(threadsC', ReqsOf(id)) \in Nat
      /\ InMain(id)' \in Nat /\ InChannel(id, p)' \in Nat /\ InThread(id, p)' \in Nat
      /\ calls'[k] \in Nat /\ Extra(k)' \in Nat
  <2>1. /\ links' \in Seq(Link) /\ chansC' \in Seq(Channels) /\ todo' \in Seq(Threads)
        /\ threadsC' \in Seq(ThreadReq) /\ retried' \in Nat /\ calls'[k] \in Nat
    BY DEF TypeOK
  <2>2. /\ Hits(links', LinksOf(id)) \in Nat /\ Hits(chansC', {id}) \in Nat
        /\ Hits(todo', {id}) \in Nat /\ Hits(threadsC', ReqsOf(id)) \in Nat
    BY <2>1, HitsType
  <2>3. AtMain(id)' \in Nat /\ AtChannel(id, p)' \in Nat /\ AtThread(id, p)' \in Nat
    BY DEF AtMain, AtChannel, AtThread
  <2>4. InMain(id)' \in Nat /\ InChannel(id, p)' \in Nat /\ InThread(id, p)' \in Nat
    BY <2>2, <2>3 DEF InMain, InChannel, InThread
  <2>5. Extra(k)' \in Nat
    BY <2>1 DEF Extra
  <2> QED
    BY <2>1, <2>2, <2>4, <2>5
<1>q. AtChannel(id, p) \in Nat /\ AtThread(id, p) \in Nat /\ AtChannel(id, p)' \in Nat /\ AtThread(id, p)' \in Nat
  BY DEF AtChannel, AtThread
<1> SUFFICES calls'[k] + Due(id, p)' <= calls[k] + Due(id, p) + (Extra(k)' - Extra(k))
  OBVIOUS
<1> HIDE DEF id, p
<1>1. CASE Main
  <2>1. UNCHANGED <<todo, retried, calls>>
    BY <1>1, OwnStep DEF chanVars, threadVars
  <2>2. AtChannel(id, p)' = AtChannel(id, p) /\ AtThread(id, p)' = AtThread(id, p)
    BY <1>1, PartsOf
  <2>3. InMain(id)' + Hits(chansC', {id}) + Hits(threadsC', ReqsOf(id))
           <= InMain(id) + Hits(chansC, {id}) + Hits(threadsC, ReqsOf(id))
    BY <1>1, MainDue
  <2> QED
    BY <2>1, <2>2, <2>3, <1>n, <1>o, <1>q DEF Due, InChannel, InThread, Extra
<1>2. CASE ChannelWorker
  <2>1. UNCHANGED retried /\ InMain(id)' = InMain(id) /\ AtThread(id, p)' = AtThread(id, p)
    BY <1>2, OwnStep, PartsOf DEF threadVars
  <2>2. CASE ChanRecv \/ ChanInfo \/ ChanReport
    <3>1. InChannel(id, p)' <= InChannel(id, p)
      BY <2>2, <1>p, ChanRecvDue, ChanKeepsDue
    <3>2. UNCHANGED <<todo, threadsC, calls>>
      BY <2>2 DEF ChanRecv, ChanInfo, Info, ChanReport, queues, history
    <3> QED
      BY <2>1, <3>1, <3>2, <1>n, <1>o, <1>q DEF Due, InThread, Extra
  <2>3. CASE ChanSpawn
    <3>1. /\ Hits(todo', {id}) + Hits(threadsC', ReqsOf(id)) <= Hits(todo, {id}) + Hits(threadsC, ReqsOf(id))
          /\ InChannel(id, p)' = InChannel(id, p)
      BY <2>3, ChanSpawnDue
    <3>2. UNCHANGED calls
      BY <2>3 DEF ChanSpawn, history
    <3> QED
      BY <2>1, <3>1, <3>2, <1>n, <1>o, <1>q DEF Due, InThread, Extra
  <2>4. CASE ChanPage
    <3>1. calls'[k] + InChannel(id, p)' <= calls[k] + InChannel(id, p)
      BY <2>4, ChanPageDue DEF id, p
    <3>2. UNCHANGED <<todo, threadsC>>
      BY <2>4 DEF ChanPage, queues
    <3> QED
      BY <2>1, <3>1, <3>2, <1>n, <1>o, <1>q DEF Due, InThread, Extra
  <2> QED
    BY <1>2, <2>2, <2>3, <2>4 DEF ChannelWorker
<1>3. CASE ThreadWorker
  <2>1. UNCHANGED todo /\ InMain(id)' = InMain(id) /\ InChannel(id, p)' = InChannel(id, p)
    BY <1>3, OwnStep, PartsOf DEF chanVars
  <2>2. CASE ThreadRecv \/ ThreadInfo
    <3>1. InThread(id, p)' <= InThread(id, p)
      BY <2>2, <1>p, ThreadRecvDue, ThreadInfoDue
    <3>2. UNCHANGED <<retried, calls>>
      BY <2>2 DEF ThreadRecv, ThreadInfo, Info, history
    <3> QED
      BY <2>1, <3>1, <3>2, <1>n, <1>o DEF Due, Extra
  <2>3. CASE ThreadPage
    <3>1. calls'[k] + InThread(id, p)' <= calls[k] + InThread(id, p)
      BY <2>3, ThreadPageDue DEF id, p
    <3>2. UNCHANGED retried
      BY <2>3 DEF ThreadPage
    <3> QED
      BY <2>1, <3>1, <3>2, <1>n, <1>o DEF Due, Extra
  <2>4. CASE ThreadRetry
    <3>1. InThread(id, p)' <= InThread(id, p) + (IF id \in Threads THEN 1 ELSE 0)
      BY <2>4, ThreadRetryDue
    <3>2. retried' = retried + 1 /\ UNCHANGED calls /\ retried \in Nat
      BY <2>4 DEF ThreadRetry, history, TypeOK
    <3>3. Extra(k)' = Extra(k) + (IF id \in Threads THEN 1 ELSE 0)
      BY <3>2, <1>p DEF Extra
    <3> QED
      BY <2>1, <3>1, <3>2, <3>3, <1>n, <1>o DEF Due
  <2> QED
    BY <1>3, <2>2, <2>3, <2>4 DEF ThreadWorker
<1>4. CASE ~Main /\ ~ChannelWorker /\ ~ThreadWorker
  <2>1. UNCHANGED <<chansC, threadsC, todo, calls>>
    BY <1>4, QueuesStill, ChannelStill, WhoCalls DEF Main, ChannelWorker, ThreadWorker
  <2>2. /\ InMain(id)' = InMain(id) /\ AtChannel(id, p)' = AtChannel(id, p)
        /\ AtThread(id, p)' = AtThread(id, p)
    BY <1>4, MainPartStill, AtChannelStill, AtThreadStill
  <2>3. UNCHANGED retried
    BY <1>4 DEF Next, SendResult, SeeCancel, Exit, Sentinel, Consume, Return, Cancel, vars, threadVars
  <2> QED
    BY <2>1, <2>2, <2>3, <1>n, <1>o, <1>q DEF Due, InChannel, InThread, Extra
<1> QED
  BY <1>1, <1>2, <1>3, <1>4

-----------------------------------------------------------------------------
(* The counts are kept.                                                    *)

LEMMA InitCounted == Init => Counted
<1> SUFFICES ASSUME Init, NEW k \in Calls PROVE CountedAt(k)
  BY DEF Counted
<1>1. Found(k.id) = {}
  BY DEF Init, Found, Calls
<1>2. IsFiniteSet(Found(k.id)) /\ Cardinality(Found(k.id)) = 0
  BY <1>1, FS_EmptySet
<1>3. Hits(links, LinksOf(k.id)) = Asks(k.id)
  <2>1. links = Links /\ Links \in Seq(Link)
    BY StreamAssumption DEF Init
  <2>2. Places(links, LinksOf(k.id)) = {i \in DOMAIN Links : Links[i].id = k.id}
    BY <2>1 DEF Places, LinksOf
  <2> QED
    BY <2>2 DEF Hits, Asks
<1>4. /\ Hits(chansC, {k.id}) = 0 /\ Hits(todo, {k.id}) = 0 /\ Hits(threadsC, ReqsOf(k.id)) = 0
  BY HitsEmpty DEF Init
<1>5. \A w \in Workers : pc[w] = "loop"
  BY DEF Init
<1>6. AtMain(k.id) = 0 /\ AtChannel(k.id, k.page) = 0 /\ AtThread(k.id, k.page) = 0
  BY <1>5 DEF AtMain, AtChannel, AtThread, ToFetch, ChanBusy, MidThread, Workers
<1>7. calls[k] = 0 /\ Extra(k) = 0 /\ Asks(k.id) \in Nat
  <2>1. calls[k] = 0 /\ Extra(k) = 0
    BY DEF Init, Extra
  <2>2. TypeOK
    BY InitIInv DEF IInv
  <2> QED
    BY <2>1, <2>2, CountTypes
<1> QED
  BY <1>2, <1>3, <1>4, <1>6, <1>7 DEF CountedAt, Due, InMain, InChannel, InThread

LEMMA NextCounted ==
  ASSUME TypeOK, TypeOK', Control, Place, Counted, [Next]_vars
  PROVE  Counted'
<1> SUFFICES ASSUME NEW k \in Calls PROVE CountedAt(k)'
  BY DEF Counted
<1>0. IsFiniteSet(Found(k.id))
      /\ calls[k] + Due(k.id, k.page) <= Asks(k.id) + Cardinality(Found(k.id)) + Extra(k)
  BY DEF Counted, CountedAt
<1>t. /\ calls[k] \in Nat /\ Asks(k.id) \in Nat /\ Extra(k) \in Nat /\ Cardinality(Found(k.id)) \in Nat
      /\ Due(k.id, k.page) \in Nat
  BY <1>0, CountTypes, DueType
<1>u. calls'[k] \in Nat /\ Extra(k)' \in Nat
  BY DEF TypeOK, Extra
<1>1. CASE ChanPage /\ Deliver(creq, cpage)
  <2>1. /\ InMain(k.id)' = InMain(k.id) /\ AtThread(k.id, k.page)' = AtThread(k.id, k.page)
        /\ UNCHANGED <<retried, threadsC>> /\ pc["channel"] = "page"
        /\ todo = <<>> /\ todo' = Pages[creq][cpage]
    <3>1. ChannelWorker
      BY <1>1 DEF ChannelWorker
    <3>2. InMain(k.id)' = InMain(k.id) /\ AtThread(k.id, k.page)' = AtThread(k.id, k.page) /\ UNCHANGED retried
      BY <3>1, OwnStep, PartsOf DEF threadVars
    <3>3. UNCHANGED threadsC /\ pc["channel"] = "page" /\ todo = <<>>
      BY <1>1 DEF ChanPage, Place, queues
    <3>4. todo' = Pages[creq][cpage]
      <4>1. calls' # calls
        <5>1. [id |-> creq, page |-> cpage] \in Calls
          BY <3>3, CallSets DEF Control, ChanBusy, Calls
        <5> QED
          BY <1>1, <5>1, DeliverCount
      <4> QED
        BY <1>1, <4>1 DEF ChanPage, history
    <3> QED
      BY <3>2, <3>3, <3>4
  <2>2. /\ creq \in Channels /\ Pages[creq][cpage] \in Seq(Threads)
        /\ \A i, j \in DOMAIN Pages[creq][cpage] : Pages[creq][cpage][i] = Pages[creq][cpage][j] => i = j
    <3>1. creq \in Channels /\ cpage \in DOMAIN Pages[creq]
      BY <2>1, StreamAssumption DEF Control, ChanBusy
    <3>2. Pages[creq] \in Seq(Seq(Threads))
      BY <3>1, StreamAssumption
    <3>3. Pages[creq][cpage] \in Seq(Threads)
      BY <3>1, <3>2
    <3> QED
      BY <3>1, <3>3, StreamAssumption
  <2>3. Hits(todo', {k.id}) = IF k.id \in ElemsOf(Pages[creq][cpage]) THEN 1 ELSE 0
    BY <2>1, <2>2, HitsOnce
  <2>4. Hits(todo, {k.id}) = 0
    BY <2>1, HitsEmpty
  <2>5. calls'[k] + InChannel(k.id, k.page)' <= calls[k] + InChannel(k.id, k.page)
    BY <1>1, ChanPageDue
  <2>6. /\ IsFiniteSet(Found(k.id)')
        /\ Cardinality(Found(k.id)') = IF k.id \in ElemsOf(Pages[creq][cpage])
                                       THEN Cardinality(Found(k.id)) + 1 ELSE Cardinality(Found(k.id))
    BY <1>0, <1>1, <2>1, PageFound
  <2>7. InThread(k.id, k.page)' = InThread(k.id, k.page) /\ Extra(k)' = Extra(k)
    BY <2>1 DEF InThread, Extra
  <2>8. /\ InMain(k.id) \in Nat /\ InChannel(k.id, k.page) \in Nat /\ InThread(k.id, k.page) \in Nat
        /\ InChannel(k.id, k.page)' \in Nat
    <3>1. chansC' \in Seq(Channels) /\ AtChannel(k.id, k.page)' \in Nat
      BY DEF TypeOK, AtChannel
    <3>2. Hits(chansC', {k.id}) \in Nat
      BY <3>1, HitsType
    <3>3. InChannel(k.id, k.page)' \in Nat
      BY <3>1, <3>2 DEF InChannel
    <3>4. InMain(k.id) \in Nat /\ InChannel(k.id, k.page) \in Nat /\ InThread(k.id, k.page) \in Nat
      BY DueType
    <3> QED
      BY <3>3, <3>4
  <2>9. calls'[k] + Due(k.id, k.page)' <= Asks(k.id) + Cardinality(Found(k.id)') + Extra(k)'
    <3>1. Due(k.id, k.page)' = InMain(k.id) + InChannel(k.id, k.page)' + Hits(todo', {k.id}) + InThread(k.id, k.page)
      BY <2>1, <2>7 DEF Due
    <3>2. Due(k.id, k.page) = InMain(k.id) + InChannel(k.id, k.page) + InThread(k.id, k.page)
      BY <2>4, <2>8 DEF Due
    <3>3. Hits(todo', {k.id}) \in Nat /\ Cardinality(Found(k.id)') = Cardinality(Found(k.id)) + Hits(todo', {k.id})
      BY <2>3, <2>6, <1>t
    <3> QED
      BY <1>0, <1>t, <1>u, <2>5, <2>7, <2>8, <3>1, <3>2, <3>3
  <2> QED
    BY <2>6, <2>9 DEF CountedAt, Asks
<1>2. CASE ~(ChanPage /\ Deliver(creq, cpage))
  <2>1. Found(k.id)' = Found(k.id)
    BY <1>2, FoundStill
  <2>2. calls'[k] + Due(k.id, k.page)' <= calls[k] + Due(k.id, k.page) + (Extra(k)' - Extra(k))
    BY <1>2, DueFalls
  <2>3. Due(k.id, k.page)' \in Int
    <3>1. /\ links' \in Seq(Link) /\ chansC' \in Seq(Channels) /\ todo' \in Seq(Threads)
          /\ threadsC' \in Seq(ThreadReq)
      BY DEF TypeOK
    <3>2. /\ Hits(links', LinksOf(k.id)) \in Nat /\ Hits(chansC', {k.id}) \in Nat
          /\ Hits(todo', {k.id}) \in Nat /\ Hits(threadsC', ReqsOf(k.id)) \in Nat
      BY <3>1, HitsType
    <3>3. AtMain(k.id)' \in Nat /\ AtChannel(k.id, k.page)' \in Nat /\ AtThread(k.id, k.page)' \in Nat
      BY DEF AtMain, AtChannel, AtThread
    <3> QED
      BY <3>2, <3>3 DEF Due, InMain, InChannel, InThread
  <2>4. calls'[k] + Due(k.id, k.page)' <= Asks(k.id) + Cardinality(Found(k.id)) + Extra(k)'
    BY <1>0, <1>t, <1>u, <2>2, <2>3
  <2> QED
    BY <1>0, <2>1, <2>4 DEF CountedAt, Asks
<1> QED
  BY <1>1, <1>2

LEMMA CountedInvariance == Spec => []Counted
<1>1. Init => Counted
  BY InitCounted
<1>2. IInv /\ IInv' /\ Progress /\ Counted /\ [Next]_vars => Counted'
  BY NextCounted DEF IInv, Progress
<1> QED
  BY <1>1, <1>2, Invariance, ProgressInvariance, PTL DEF Spec

-----------------------------------------------------------------------------
(* What is counted along the way is what NoRepeatedPages counts.           *)

LEMMA FiniteUnion ==
  ASSUME NEW I, IsFiniteSet(I), NEW f, \A i \in I : IsFiniteSet(f[i])
  PROVE  IsFiniteSet(UNION {f[i] : i \in I})
<1> DEFINE T == {f[i] : i \in I}
           g == [i \in I |-> f[i]]
<1>1. g \in Surjection(I, T)
  BY DEF Surjection
<1> HIDE DEF g
<1>2. IsFiniteSet(T)
  BY <1>1, FS_Surjection
<1> QED
  BY <1>2, FS_UNION

\* The pages of the channels of links are finitely many.
Pointed == UNION {{k \in ChanCalls : k.id = Links[i].id} : i \in DOMAIN Links}

LEMMA LinksFinite == IsFiniteSet(DOMAIN Links) /\ \A id : IsFiniteSet({i \in DOMAIN Links : Links[i].id = id})
<1>1. Len(Links) \in Int /\ 1 \in Int /\ DOMAIN Links = 1..Len(Links)
  BY StreamAssumption
<1>2. IsFiniteSet(DOMAIN Links)
  BY <1>1, FS_Interval
<1> QED
  BY <1>2, FS_Subset

LEMMA PointedFinite == IsFiniteSet(Pointed)
<1> DEFINE f == [i \in DOMAIN Links |-> {k \in ChanCalls : k.id = Links[i].id}]
<1>1. ASSUME NEW i \in DOMAIN Links PROVE IsFiniteSet({k \in ChanCalls : k.id = Links[i].id})
  <2> DEFINE S == {k \in ChanCalls : k.id = Links[i].id}
             g == [k \in S |-> k.page]
  <2>1. CASE Links[i].id \in Channels
    <3>1. Len(Pages[Links[i].id]) \in Int /\ 1 \in Int
      BY <2>1, StreamAssumption
    <3>2. IsFiniteSet(1..Len(Pages[Links[i].id]))
      BY <3>1, FS_Interval
    <3>3. g \in [S -> 1..Len(Pages[Links[i].id])]
      BY <2>1, CallFacts DEF Calls
    <3>4. \A a, b \in S : g[a] = g[b] => a = b
      BY CallFacts DEF Calls
    <3> HIDE DEF g, S
    <3>5. g \in Injection(S, 1..Len(Pages[Links[i].id]))
      BY <3>3, <3>4, Maps
    <3>6. IsFiniteSet(S)
      BY <3>2, <3>5, FS_Injection
    <3> QED
      BY <3>6 DEF S
  <2>2. CASE Links[i].id \notin Channels
    <3>1. S = {}
      BY <2>2, CallSets
    <3> QED
      BY <3>1, FS_EmptySet
  <2> QED
    BY <2>1, <2>2
<1>2. \A i \in DOMAIN Links : IsFiniteSet(f[i])
  BY <1>1
<1>3. Pointed = UNION {f[i] : i \in DOMAIN Links}
  BY DEF Pointed
<1> HIDE DEF f
<1> QED
  BY <1>2, <1>3, LinksFinite, FiniteUnion

FoundBy(id) == {x \in (DOMAIN Links) \X ChanCalls :
                 Links[x[1]].id = x[2].id /\ id \in ElemsOf(Pages[x[2].id][x[2].page])}

LEMMA FoundByFinite == ASSUME NEW id PROVE IsFiniteSet(FoundBy(id))
<1>1. FoundBy(id) \subseteq (DOMAIN Links) \X Pointed
  <2>1. ASSUME NEW x \in (DOMAIN Links) \X ChanCalls, Links[x[1]].id = x[2].id
        PROVE  x \in (DOMAIN Links) \X Pointed
    <3>1. x[1] \in DOMAIN Links /\ x[2] \in ChanCalls
      OBVIOUS
    <3>2. x[2] \in Pointed
      BY <3>1, <2>1 DEF Pointed
    <3> QED
      BY <3>1, <3>2
  <2> QED
    BY <2>1 DEF FoundBy
<1>2. IsFiniteSet((DOMAIN Links) \X Pointed)
  BY LinksFinite, PointedFinite, FS_Product
<1> QED
  BY <1>1, <1>2, FS_Subset

\* A channel is fetched at most as often as links ask for it.
LEMMA ChannelCount ==
  ASSUME TypeOK, Counted, NEW k \in ChanCalls
  PROVE  calls[k] <= Asks(k.id)
<1>1. k \in Calls /\ k.id \in Channels /\ k \notin ThreadCalls
  BY CallSets, StreamAssumption DEF Calls
<1>2. Found(k.id) = {}
  <2>1. ASSUME NEW x \in ChanCalls PROVE k.id \notin ElemsOf(Pages[x.id][x.page])
    <3>1. x.id \in Channels /\ x.page \in DOMAIN Pages[x.id]
      BY CallSets, CallFacts, StreamAssumption DEF Calls
    <3>2. Pages[x.id] \in Seq(Seq(Threads))
      BY <3>1, StreamAssumption
    <3>3. Pages[x.id][x.page] \in Seq(Threads)
      BY <3>1, <3>2
    <3> QED
      BY <1>1, <3>3, StreamAssumption DEF ElemsOf
  <2> QED
    BY <2>1 DEF Found
<1>3. Cardinality(Found(k.id)) = 0
  BY <1>2, FS_EmptySet
<1>4. calls[k] + Due(k.id, k.page) <= Asks(k.id) + Cardinality(Found(k.id)) + Extra(k)
  BY <1>1 DEF Counted, CountedAt
<1>5. Extra(k) = 0 /\ calls[k] \in Nat /\ Asks(k.id) \in Nat /\ Due(k.id, k.page) \in Nat
  BY <1>1, CountTypes, DueType DEF Extra
<1> QED
  BY <1>3, <1>4, <1>5

\* The nth time that a page was delivered is charged to the nth link of its channel.
LEMMA FoundFits ==
  ASSUME TypeOK, Counted, NEW id
  PROVE  Cardinality(Found(id)) <= Cardinality(FoundBy(id))
<1> DEFINE LinksTo(c) == {i \in DOMAIN Links : Links[i].id = c}
           B(c) == Bijection(1..Asks(c), LinksTo(c))
           b == [c \in Channels |-> CHOOSE h \in B(c) : TRUE]
           g == [x \in Found(id) |-> <<b[x[2].id][x[1]], x[2]>>]
<1>1. ASSUME NEW c \in Channels
      PROVE  /\ b[c] \in [1..Asks(c) -> LinksTo(c)]
             /\ \A i, j \in 1..Asks(c) : b[c][i] = b[c][j] => i = j
  <2>1. B(c) # {}
    BY LinksFinite, FS_CardinalityType DEF Asks, ExistsBijection
  <2>2. b[c] \in B(c)
    BY <2>1
  <2> HIDE DEF b
  <2> QED
    BY <2>2 DEF Bijection, Injection, IsInjective
<1> HIDE DEF b
<1>2. ASSUME NEW x \in Found(id)
      PROVE  /\ x[1] \in 1..Asks(x[2].id) /\ x[2] \in ChanCalls /\ x[2].id \in Channels
             /\ x = <<x[1], x[2]>> /\ id \in ElemsOf(Pages[x[2].id][x[2].page])
  <2>1. /\ x \in Nat \X ChanCalls /\ x[1] \in 1..calls[x[2]]
        /\ id \in ElemsOf(Pages[x[2].id][x[2].page])
    BY DEF Found
  <2>2. x[2] \in ChanCalls /\ x = <<x[1], x[2]>>
    BY <2>1
  <2>3. calls[x[2]] <= Asks(x[2].id) /\ calls[x[2]] \in Nat /\ Asks(x[2].id) \in Nat
    BY <2>2, ChannelCount, CountTypes DEF Calls
  <2> QED
    BY <2>1, <2>2, <2>3, CallSets
<1>3. g \in [Found(id) -> FoundBy(id)]
  <2>1. ASSUME NEW x \in Found(id) PROVE <<b[x[2].id][x[1]], x[2]>> \in FoundBy(id)
    <3>1. b[x[2].id][x[1]] \in LinksTo(x[2].id)
      BY <1>1, <1>2
    <3> QED
      BY <3>1, <1>2 DEF FoundBy
  <2> QED
    BY <2>1
<1>4. \A x, y \in Found(id) : g[x] = g[y] => x = y
  <2>1. ASSUME NEW x \in Found(id), NEW y \in Found(id), g[x] = g[y] PROVE x = y
    <3>1. x[2] = y[2] /\ b[x[2].id][x[1]] = b[x[2].id][y[1]]
      BY <2>1
    <3>2. x[1] = y[1]
      BY <3>1, <1>1, <1>2
    <3> QED
      BY <3>1, <3>2, <1>2
  <2> QED
    BY <2>1
<1> HIDE DEF g
<1>5. g \in Injection(Found(id), FoundBy(id))
  BY <1>3, <1>4, Maps
<1> QED
  BY <1>5, FoundByFinite, FS_Injection

LEMMA CountedSuffices == TypeOK /\ Counted => NoRepeatedPages
<1> SUFFICES ASSUME TypeOK, Counted, NEW k \in Calls
             PROVE  calls[k] <= Asked(k.id) + Extra(k)
  BY DEF NoRepeatedPages, Extra
<1>1. Asked(k.id) = Asks(k.id) + Cardinality(FoundBy(k.id))
  BY DEF Asked, Asks, FoundBy
<1>2. IsFiniteSet(Found(k.id))
      /\ calls[k] + Due(k.id, k.page) <= Asks(k.id) + Cardinality(Found(k.id)) + Extra(k)
  BY DEF Counted, CountedAt
<1>3. /\ calls[k] \in Nat /\ Asks(k.id) \in Nat /\ Extra(k) \in Nat /\ Cardinality(Found(k.id)) \in Nat
      /\ Due(k.id, k.page) \in Nat
  BY <1>2, CountTypes, DueType
<1>4. Cardinality(FoundBy(k.id)) \in Nat
  BY FoundByFinite, FS_CardinalityType
<1>5. Cardinality(Found(k.id)) <= Cardinality(FoundBy(k.id))
  BY FoundFits
<1> QED
  BY <1>1, <1>2, <1>3, <1>4, <1>5

\* processConversations gives the processor no page more often than the links and the
\* pages delivered ask for it, whatever the two workers interleave; only a repeated attempt
\* of thread() does.
THEOREM NoPageIsRepeated == Spec => []NoRepeatedPages
<1>1. IInv /\ Counted => NoRepeatedPages
  BY CountedSuffices DEF IInv
<1> QED
  BY <1>1, Invariance, CountedInvariance, PTL
=============================================================================
