------------------------ MODULE ExportCoordinator_proofs ------------------------
(***************************************************************************)
(* Proofs about ExportCoordinator for any sets of clients and requests and *)
(* any buffer size: no accepted request and no conversion error is lost, a *)
(* nil return of Close means that everything was converted or reported,    *)
(* and nothing is converted before the users are known; and about the      *)
(* other calls of commands that wait for goroutines, of DumpCoordinator    *)
(* and Search; and about the windows a command is set up in, of TimeEntry, *)
(* FileList and Wizard.                                                    *)
(***************************************************************************)
EXTENDS MCCommands, SequenceTheorems, WellFoundedInduction, TLAPS

\* The queue holds accepted requests, each once.
QueueOK ==
  /\ \A i \in 1..Len(requestC) : fate[requestC[i]] = "accepted"
  /\ \A i, j \in 1..Len(requestC) : i # j => requestC[i] # requestC[j]

\* The request in the worker's hands is none of those queued.
HandOK ==
  /\ worker = "convert" => /\ cur \in Requests /\ fate[cur] = "accepted"
                           /\ \A i \in 1..Len(requestC) : requestC[i] # cur
  /\ worker = "report" => cur \in Requests /\ fate[cur] = "failed"

\* The pending error is of a failed request, and not of the one being reported.
PendingOK ==
  errC # <<>> => /\ fate[errC[1]] = "failed"
                 /\ worker = "report" => errC[1] # cur

\* The calls of Transform in progress carry different requests, not yet placed.
JobsOK ==
  /\ \A c \in Clients : client[c] # "idle" => job[c] \in Requests /\ fate[job[c]] = "new"
  /\ \A c, d \in Clients : client[c] # "idle" /\ client[d] # "idle" /\ c # d => job[c] # job[d]

\* Once closed, no call is about to put a request, so an ended worker leaves none behind.
ClosingOK ==
  /\ closer = "idle" => shut = {}
  /\ closer # "idle" => /\ closedFlag /\ "request" \in shut
                        /\ \A c \in Clients : client[c] # "put"
  /\ "err" \in shut => worker = "done"
  /\ worker = "done" => "request" \in shut /\ requestC = <<>>
  /\ closer = "nil" => worker = "done" /\ errC = <<>>

\* Without users and before Close the worker is held back.
HeldOK ==
  closer = "idle" /\ ~users =>
    /\ worker = "wait" /\ starter \in {"idle", "failed"} /\ errC = <<>>
    /\ \A r \in Requests : fate[r] \notin {"converted", "failed", "reported"}

IInv == /\ TypeOK /\ QueueOK /\ HandOK /\ PendingOK /\ JobsOK /\ ClosingOK /\ HeldOK
        /\ NoRequestLost /\ NoErrorLost

-----------------------------------------------------------------------------

LEMMA AppendFacts ==
  ASSUME NEW S, NEW q \in Seq(S), NEW x \in S
  PROVE  /\ Append(q, x) \in Seq(S) /\ Len(Append(q, x)) = Len(q) + 1
         /\ \A i \in 1..Len(q) : Append(q, x)[i] = q[i]
         /\ Append(q, x)[Len(q) + 1] = x
         /\ DOMAIN q = 1..Len(q) /\ DOMAIN Append(q, x) = 1..Len(Append(q, x))
OBVIOUS

LEMMA TailFacts ==
  ASSUME NEW S, NEW q \in Seq(S), q # <<>>
  PROVE  /\ Tail(q) \in Seq(S) /\ Len(Tail(q)) = Len(q) - 1 /\ Len(q) \in Nat \ {0}
         /\ \A i \in 1..Len(Tail(q)) : Tail(q)[i] = q[i + 1] /\ i + 1 \in 1..Len(q)
         /\ Head(q) = q[1] /\ Head(q) \in S
         /\ DOMAIN q = 1..Len(q) /\ DOMAIN Tail(q) = 1..Len(Tail(q))
OBVIOUS

LEMMA InitIInv == Init => IInv
<1> SUFFICES ASSUME Init PROVE IInv
  OBVIOUS
<1> USE CoordinatorAssumption DEF Init
<1>1. TypeOK
  <2>1. requestC \in Seq(Requests) /\ Len(requestC) <= BufferSize
    OBVIOUS
  <2>2. errC \in Seq(Requests) /\ Len(errC) <= 1
    OBVIOUS
  <2> QED
    BY <2>1, <2>2 DEF TypeOK, Fates
<1>2. QueueOK /\ HandOK /\ PendingOK /\ JobsOK
  BY DEF QueueOK, HandOK, PendingOK, JobsOK
<1>3. ClosingOK /\ HeldOK
  BY DEF ClosingOK, HeldOK
<1>4. NoRequestLost /\ NoErrorLost
  BY DEF NoRequestLost, NoErrorLost
<1> QED
  BY <1>1, <1>2, <1>3, <1>4 DEF IInv

LEMMA CallStep ==
  ASSUME IInv, NEW c \in Clients, NEW r \in Requests, Call(c, r)
  PROVE  IInv'
<1> USE CoordinatorAssumption DEF IInv, TypeOK, Call, ReturnFrom, TakeError, clientVars, Fates
<1>1. TypeOK'
  OBVIOUS
<1>2. QueueOK'
  BY DEF QueueOK, HandOK, PendingOK, JobsOK
<1>3. HandOK'
  BY DEF QueueOK, HandOK, PendingOK, JobsOK
<1>4. PendingOK'
  BY DEF QueueOK, HandOK, PendingOK, JobsOK
<1>5. JobsOK'
  BY DEF JobsOK, PendingOK, QueueOK, HandOK
<1>6. ClosingOK'
  BY DEF ClosingOK
<1>7. HeldOK'
  BY DEF HeldOK, ClosingOK, JobsOK
<1>8. NoRequestLost'
  BY DEF NoRequestLost, InQueue, InHand, HandOK, PendingOK, JobsOK
<1>9. NoErrorLost'
  BY DEF NoErrorLost, HandOK, PendingOK, JobsOK
<1> QED
  BY <1>1, <1>2, <1>3, <1>4, <1>5, <1>6, <1>7, <1>8, <1>9 DEF IInv

LEMMA TestErrorStep ==
  ASSUME IInv, NEW c \in Clients, TestError(c)
  PROVE  IInv'
<1> USE CoordinatorAssumption DEF IInv, TypeOK, TestError, ReturnFrom, TakeError, clientVars, Fates
<1>1. TypeOK'
  OBVIOUS
<1>2. QueueOK'
  BY DEF QueueOK, HandOK, PendingOK, JobsOK
<1>3. HandOK'
  BY DEF QueueOK, HandOK, PendingOK, JobsOK
<1>4. PendingOK'
  BY DEF QueueOK, HandOK, PendingOK, JobsOK
<1>5. JobsOK'
  BY DEF JobsOK, PendingOK, QueueOK, HandOK
<1>6. ClosingOK'
  BY DEF ClosingOK
<1>7. HeldOK'
  BY DEF HeldOK, ClosingOK, JobsOK
<1>8. NoRequestLost'
  BY DEF NoRequestLost, InQueue, InHand, HandOK, PendingOK, JobsOK
<1>9. NoErrorLost'
  BY DEF NoErrorLost, HandOK, PendingOK, JobsOK
<1> QED
  BY <1>1, <1>2, <1>3, <1>4, <1>5, <1>6, <1>7, <1>8, <1>9 DEF IInv

LEMMA TestClosedStep ==
  ASSUME IInv, NEW c \in Clients, TestClosed(c)
  PROVE  IInv'
<1> USE CoordinatorAssumption DEF IInv, TypeOK, TestClosed, ReturnFrom, TakeError, clientVars, Fates
<1>1. TypeOK'
  OBVIOUS
<1>2. QueueOK'
  BY DEF QueueOK, HandOK, PendingOK, JobsOK
<1>3. HandOK'
  BY DEF QueueOK, HandOK, PendingOK, JobsOK
<1>4. PendingOK'
  BY DEF QueueOK, HandOK, PendingOK, JobsOK
<1>5. JobsOK'
  BY DEF JobsOK, PendingOK, QueueOK, HandOK
<1>6. ClosingOK'
  BY DEF ClosingOK
<1>7. HeldOK'
  BY DEF HeldOK, ClosingOK, JobsOK
<1>8. NoRequestLost'
  BY DEF NoRequestLost, InQueue, InHand, HandOK, PendingOK, JobsOK
<1>9. NoErrorLost'
  BY DEF NoErrorLost, HandOK, PendingOK, JobsOK
<1> QED
  BY <1>1, <1>2, <1>3, <1>4, <1>5, <1>6, <1>7, <1>8, <1>9 DEF IInv

LEMMA PutStep ==
  ASSUME IInv, NEW c \in Clients, Put(c)
  PROVE  IInv'
<1>1. "request" \notin shut
  BY DEF IInv, Put, ClosingOK
<1> DEFINE r == job[c]
<1>2. /\ Len(requestC) < BufferSize /\ requestC' = Append(requestC, r)
      /\ fate' = [fate EXCEPT ![r] = "accepted"]
      /\ client' = [client EXCEPT ![c] = "idle"] /\ job' = [job EXCEPT ![c] = None]
      /\ UNCHANGED <<closedFlag, errC, shut, users, worker, cur, starter, closer, panicked>>
  BY <1>1 DEF Put, ReturnFrom
<1>3. client[c] = "put" /\ r \in Requests /\ fate[r] = "new"
  BY DEF Put, IInv, JobsOK
<1>4. requestC \in Seq(Requests) /\ Len(requestC) \in Nat /\ fate \in [Requests -> Fates]
  BY DEF IInv, TypeOK
<1>5. /\ requestC' \in Seq(Requests) /\ Len(requestC') = Len(requestC) + 1
      /\ \A i \in 1..Len(requestC) : requestC'[i] = requestC[i]
      /\ requestC'[Len(requestC) + 1] = r
      /\ DOMAIN requestC = 1..Len(requestC) /\ DOMAIN requestC' = 1..Len(requestC')
  BY <1>2, <1>3, <1>4, AppendFacts
<1>6. \A i \in 1..Len(requestC') : i \in 1..Len(requestC) \/ i = Len(requestC) + 1
  BY <1>4, <1>5
<1>7. \A i \in 1..Len(requestC) : requestC[i] \in Requests /\ requestC[i] # r
  BY <1>3, <1>4 DEF IInv, QueueOK
<1>8. \A x \in Requests : x # r => fate'[x] = fate[x]
  BY <1>2, <1>4
<1>9. fate'[r] = "accepted" /\ fate' \in [Requests -> Fates]
  BY <1>2, <1>3, <1>4 DEF Fates
<1> HIDE DEF r
<1>10. TypeOK'
  <2>1. Len(requestC') <= BufferSize
    BY <1>2, <1>4, <1>5, CoordinatorAssumption
  <2>2. client' \in [Clients -> {"idle", "test", "flag", "put"}]
          /\ job' \in [Clients -> Requests \cup {None}]
    BY <1>2 DEF IInv, TypeOK
  <2> QED
    BY <2>1, <2>2, <1>2, <1>5, <1>9 DEF IInv, TypeOK
<1>11. QueueOK'
  BY <1>5, <1>6, <1>7, <1>8, <1>9 DEF IInv, QueueOK
<1>12. HandOK'
  BY <1>2, <1>3, <1>5, <1>6, <1>8 DEF IInv, HandOK
<1>13. PendingOK'
  BY <1>2, <1>3, <1>8 DEF IInv, PendingOK, TypeOK
<1>14. JobsOK'
  <2>1. \A d \in Clients : d # c => client'[d] = client[d] /\ job'[d] = job[d]
    BY <1>2 DEF IInv, TypeOK
  <2>2. client'[c] = "idle"
    BY <1>2 DEF IInv, TypeOK
  <2>3. \A d \in Clients : d # c /\ client[d] # "idle" => job[d] # r
    BY <1>3 DEF IInv, JobsOK, r
  <2> QED
    BY <2>1, <2>2, <2>3, <1>8 DEF IInv, JobsOK
<1>15. ClosingOK' /\ HeldOK'
  <2>1. closer = "idle"
    BY <1>3 DEF IInv, ClosingOK
  <2>2. worker # "done"
    BY <1>1 DEF IInv, ClosingOK
  <2>3. ClosingOK'
    BY <2>1, <2>2, <1>2 DEF IInv, ClosingOK
  <2>4. HeldOK'
    BY <1>2, <1>8, <1>9 DEF IInv, HeldOK
  <2> QED
    BY <2>3, <2>4
<1>16. NoRequestLost'
  <2>1. ASSUME NEW x \in Requests, fate'[x] = "accepted"
        PROVE  InQueue(x)' \/ InHand(x)'
    <3>1. CASE x = r
      BY <3>1, <1>4, <1>5 DEF InQueue
    <3>2. CASE x # r
      BY <3>2, <2>1, <1>2, <1>4, <1>5, <1>8 DEF IInv, NoRequestLost, InQueue, InHand
    <3> QED
      BY <3>1, <3>2
  <2> QED
    BY <2>1 DEF NoRequestLost
<1>17. NoErrorLost'
  BY <1>2, <1>8, <1>9 DEF IInv, NoErrorLost
<1> QED
  BY <1>10, <1>11, <1>12, <1>13, <1>14, <1>15, <1>16, <1>17 DEF IInv

LEMMA StartWithUsersStep ==
  ASSUME IInv, StartWithUsers
  PROVE  IInv'
<1> USE CoordinatorAssumption DEF IInv, TypeOK, StartWithUsers, ReturnFrom, TakeError, clientVars, Fates
<1>1. TypeOK'
  OBVIOUS
<1>2. QueueOK'
  BY DEF QueueOK, HandOK, PendingOK, JobsOK
<1>3. HandOK'
  BY DEF QueueOK, HandOK, PendingOK, JobsOK
<1>4. PendingOK'
  BY DEF QueueOK, HandOK, PendingOK, JobsOK
<1>5. JobsOK'
  BY DEF JobsOK, PendingOK, QueueOK, HandOK
<1>6. ClosingOK'
  BY DEF ClosingOK
<1>7. HeldOK'
  BY DEF HeldOK, ClosingOK, JobsOK
<1>8. NoRequestLost'
  BY DEF NoRequestLost, InQueue, InHand, HandOK, PendingOK, JobsOK
<1>9. NoErrorLost'
  BY DEF NoErrorLost, HandOK, PendingOK, JobsOK
<1> QED
  BY <1>1, <1>2, <1>3, <1>4, <1>5, <1>6, <1>7, <1>8, <1>9 DEF IInv

LEMMA StartSelectStep ==
  ASSUME IInv, StartSelect
  PROVE  IInv'
<1> USE CoordinatorAssumption DEF IInv, TypeOK, StartSelect, ReturnFrom, TakeError, clientVars, Fates
<1>1. TypeOK'
  OBVIOUS
<1>2. QueueOK'
  BY DEF QueueOK, HandOK, PendingOK, JobsOK
<1>3. HandOK'
  BY DEF QueueOK, HandOK, PendingOK, JobsOK
<1>4. PendingOK'
  BY DEF QueueOK, HandOK, PendingOK, JobsOK
<1>5. JobsOK'
  BY DEF JobsOK, PendingOK, QueueOK, HandOK
<1>6. ClosingOK'
  BY DEF ClosingOK
<1>7. HeldOK'
  BY DEF HeldOK, ClosingOK, JobsOK
<1>8. NoRequestLost'
  BY DEF NoRequestLost, InQueue, InHand, HandOK, PendingOK, JobsOK
<1>9. NoErrorLost'
  BY DEF NoErrorLost, HandOK, PendingOK, JobsOK
<1> QED
  BY <1>1, <1>2, <1>3, <1>4, <1>5, <1>6, <1>7, <1>8, <1>9 DEF IInv

LEMMA StartPutStep ==
  ASSUME IInv, StartPut
  PROVE  IInv'
<1> USE CoordinatorAssumption DEF IInv, TypeOK, StartPut, ReturnFrom, TakeError, clientVars, Fates
<1>1. TypeOK'
  OBVIOUS
<1>2. QueueOK'
  BY DEF QueueOK, HandOK, PendingOK, JobsOK
<1>3. HandOK'
  BY DEF QueueOK, HandOK, PendingOK, JobsOK
<1>4. PendingOK'
  BY DEF QueueOK, HandOK, PendingOK, JobsOK
<1>5. JobsOK'
  BY DEF JobsOK, PendingOK, QueueOK, HandOK
<1>6. ClosingOK'
  BY DEF ClosingOK
<1>7. HeldOK'
  BY DEF HeldOK, ClosingOK, JobsOK
<1>8. NoRequestLost'
  BY DEF NoRequestLost, InQueue, InHand, HandOK, PendingOK, JobsOK
<1>9. NoErrorLost'
  BY DEF NoErrorLost, HandOK, PendingOK, JobsOK
<1> QED
  BY <1>1, <1>2, <1>3, <1>4, <1>5, <1>6, <1>7, <1>8, <1>9 DEF IInv

LEMMA StartClosedStep ==
  ASSUME IInv, StartClosed
  PROVE  IInv'
<1> USE CoordinatorAssumption DEF IInv, TypeOK, StartClosed, ReturnFrom, TakeError, clientVars, Fates
<1>1. TypeOK'
  OBVIOUS
<1>2. QueueOK'
  BY DEF QueueOK, HandOK, PendingOK, JobsOK
<1>3. HandOK'
  BY DEF QueueOK, HandOK, PendingOK, JobsOK
<1>4. PendingOK'
  BY DEF QueueOK, HandOK, PendingOK, JobsOK
<1>5. JobsOK'
  BY DEF JobsOK, PendingOK, QueueOK, HandOK
<1>6. ClosingOK'
  BY DEF ClosingOK
<1>7. HeldOK'
  BY DEF HeldOK, ClosingOK, JobsOK
<1>8. NoRequestLost'
  BY DEF NoRequestLost, InQueue, InHand, HandOK, PendingOK, JobsOK
<1>9. NoErrorLost'
  BY DEF NoErrorLost, HandOK, PendingOK, JobsOK
<1> QED
  BY <1>1, <1>2, <1>3, <1>4, <1>5, <1>6, <1>7, <1>8, <1>9 DEF IInv

LEMMA ReceiveStep ==
  ASSUME IInv, Receive
  PROVE  IInv'
<1>1. CASE requestC # <<>>
  <2>1. /\ worker = "recv" /\ worker' = "convert"
        /\ cur' = Head(requestC) /\ requestC' = Tail(requestC)
        /\ UNCHANGED <<closedFlag, errC, shut, users, starter, closer, client, job,
                       panicked, fate>>
    BY <1>1 DEF Receive, clientVars
  <2>2. /\ requestC' \in Seq(Requests) /\ Len(requestC') = Len(requestC) - 1
        /\ Len(requestC) \in Nat \ {0}
        /\ \A i \in 1..Len(requestC') : requestC'[i] = requestC[i + 1] /\ i + 1 \in 1..Len(requestC)
        /\ cur' = requestC[1] /\ cur' \in Requests
        /\ DOMAIN requestC = 1..Len(requestC) /\ DOMAIN requestC' = 1..Len(requestC')
    BY <1>1, <2>1, TailFacts DEF IInv, TypeOK
  <2>3. TypeOK'
    BY <2>1, <2>2, CoordinatorAssumption DEF IInv, TypeOK
  <2>4. QueueOK'
    BY <2>1, <2>2 DEF IInv, QueueOK
  <2>5. HandOK'
    BY <2>1, <2>2 DEF IInv, QueueOK, HandOK
  <2>6. PendingOK' /\ JobsOK' /\ ClosingOK'
    BY <1>1, <2>1 DEF IInv, PendingOK, JobsOK, ClosingOK
  <2>7. HeldOK'
    BY <2>1 DEF IInv, HeldOK
  <2>8. NoRequestLost'
    <3>1. ASSUME NEW x \in Requests, fate[x] = "accepted"
          PROVE  InQueue(x)' \/ InHand(x)'
      <4>1. PICK i \in 1..Len(requestC) : requestC[i] = x
        BY <2>1, <2>2, <3>1 DEF IInv, NoRequestLost, InQueue, InHand
      <4>2. CASE i = 1
        BY <4>1, <4>2, <2>1, <2>2 DEF InHand
      <4>3. CASE i # 1
        <5>1. i - 1 \in 1..Len(requestC') /\ requestC'[i - 1] = x
          BY <4>1, <4>3, <2>2
        <5> QED
          BY <5>1, <2>2 DEF InQueue
      <4> QED
        BY <4>2, <4>3
    <3> QED
      BY <2>1, <3>1 DEF NoRequestLost
  <2>9. NoErrorLost'
    BY <2>1 DEF IInv, NoErrorLost
  <2> QED
    BY <2>3, <2>4, <2>5, <2>6, <2>7, <2>8, <2>9 DEF IInv
<1>2. CASE requestC = <<>>
  <2>1. /\ worker = "recv" /\ worker' = "done" /\ "request" \in shut
        /\ shut' = shut \cup {"err"}
        /\ UNCHANGED <<closedFlag, requestC, errC, users, cur, starter, closer, client, job,
                       panicked, fate>>
    BY <1>2 DEF Receive, clientVars
  <2>2. TypeOK' /\ QueueOK' /\ HandOK' /\ PendingOK' /\ JobsOK'
    BY <2>1 DEF IInv, TypeOK, QueueOK, HandOK, PendingOK, JobsOK
  <2>3. ClosingOK' /\ HeldOK'
    BY <1>2, <2>1 DEF IInv, ClosingOK, HeldOK
  <2>4. NoRequestLost' /\ NoErrorLost'
    BY <2>1 DEF IInv, NoRequestLost, NoErrorLost, InQueue, InHand
  <2> QED
    BY <2>2, <2>3, <2>4 DEF IInv
<1> QED
  BY <1>1, <1>2

LEMMA ConvertStep ==
  ASSUME IInv, Convert
  PROVE  IInv'
<1> USE CoordinatorAssumption DEF IInv, TypeOK, Convert, ReturnFrom, TakeError, clientVars, Fates
<1>1. TypeOK'
  OBVIOUS
<1>2. QueueOK'
  BY DEF QueueOK, HandOK, PendingOK, JobsOK
<1>3. HandOK'
  BY DEF QueueOK, HandOK, PendingOK, JobsOK
<1>4. PendingOK'
  BY DEF QueueOK, HandOK, PendingOK, JobsOK
<1>5. JobsOK'
  BY DEF JobsOK, PendingOK, QueueOK, HandOK
<1>6. ClosingOK'
  BY DEF ClosingOK
<1>7. HeldOK'
  BY DEF HeldOK, ClosingOK, JobsOK
<1>8. NoRequestLost'
  BY DEF NoRequestLost, InQueue, InHand, HandOK, PendingOK, JobsOK
<1>9. NoErrorLost'
  BY DEF NoErrorLost, HandOK, PendingOK, JobsOK
<1> QED
  BY <1>1, <1>2, <1>3, <1>4, <1>5, <1>6, <1>7, <1>8, <1>9 DEF IInv

LEMMA ReportStep ==
  ASSUME IInv, Report
  PROVE  IInv'
<1> USE CoordinatorAssumption DEF IInv, TypeOK, Report, ReturnFrom, TakeError, clientVars, Fates
<1>1. TypeOK'
  <2>1. cur \in Requests
    BY DEF HandOK
  <2>2. errC' \in Seq(Requests) /\ Len(errC') <= 1
    BY <2>1
  <2> QED
    BY <2>2
<1>2. QueueOK'
  BY DEF QueueOK, HandOK, PendingOK, JobsOK
<1>3. HandOK'
  BY DEF QueueOK, HandOK, PendingOK, JobsOK
<1>4. PendingOK'
  BY DEF QueueOK, HandOK, PendingOK, JobsOK
<1>5. JobsOK'
  BY DEF JobsOK, PendingOK, QueueOK, HandOK
<1>6. ClosingOK'
  BY DEF ClosingOK
<1>7. HeldOK'
  BY DEF HeldOK, ClosingOK, JobsOK
<1>8. NoRequestLost'
  BY DEF NoRequestLost, InQueue, InHand, HandOK, PendingOK, JobsOK
<1>9. NoErrorLost'
  BY DEF NoErrorLost, HandOK, PendingOK, JobsOK
<1> QED
  BY <1>1, <1>2, <1>3, <1>4, <1>5, <1>6, <1>7, <1>8, <1>9 DEF IInv

LEMMA CloseStep ==
  ASSUME IInv, Close
  PROVE  IInv'
<1> USE CoordinatorAssumption DEF IInv, TypeOK, Close, ReturnFrom, TakeError, clientVars, Fates
<1>1. TypeOK'
  OBVIOUS
<1>2. QueueOK'
  BY DEF QueueOK, HandOK, PendingOK, JobsOK
<1>3. HandOK'
  BY DEF QueueOK, HandOK, PendingOK, JobsOK
<1>4. PendingOK'
  BY DEF QueueOK, HandOK, PendingOK, JobsOK
<1>5. JobsOK'
  BY DEF JobsOK, PendingOK, QueueOK, HandOK
<1>6. ClosingOK'
  BY DEF ClosingOK
<1>7. HeldOK'
  BY DEF HeldOK, ClosingOK, JobsOK
<1>8. NoRequestLost'
  BY DEF NoRequestLost, InQueue, InHand, HandOK, PendingOK, JobsOK
<1>9. NoErrorLost'
  BY DEF NoErrorLost, HandOK, PendingOK, JobsOK
<1> QED
  BY <1>1, <1>2, <1>3, <1>4, <1>5, <1>6, <1>7, <1>8, <1>9 DEF IInv

LEMMA CloseReturnStep ==
  ASSUME IInv, CloseReturn
  PROVE  IInv'
<1> USE CoordinatorAssumption DEF IInv, TypeOK, CloseReturn, ReturnFrom, TakeError, clientVars, Fates
<1>1. TypeOK'
  <2>1. errC' \in Seq(Requests) /\ Len(errC') <= 1
    BY TailFacts
  <2>2. fate' \in [Requests -> Fates] /\ closer' \in {"nil", "error"}
    BY Zenon
  <2> QED
    BY <2>1, <2>2
<1>2. QueueOK'
  BY DEF QueueOK, HandOK, PendingOK, JobsOK
<1>3. HandOK'
  BY DEF QueueOK, HandOK, PendingOK, JobsOK
<1>4. PendingOK'
  BY DEF QueueOK, HandOK, PendingOK, JobsOK
<1>5. JobsOK'
  BY DEF JobsOK, PendingOK, QueueOK, HandOK
<1>6. ClosingOK'
  BY DEF ClosingOK
<1>7. HeldOK'
  BY DEF HeldOK, ClosingOK, JobsOK
<1>8. NoRequestLost'
  BY DEF NoRequestLost, InQueue, InHand, HandOK, PendingOK, JobsOK
<1>9. NoErrorLost'
  BY DEF NoErrorLost, HandOK, PendingOK, JobsOK
<1> QED
  BY <1>1, <1>2, <1>3, <1>4, <1>5, <1>6, <1>7, <1>8, <1>9 DEF IInv

-----------------------------------------------------------------------------

LEMMA InvariantStep == IInv /\ [Next]_vars => IInv'
<1> SUFFICES ASSUME IInv, [Next]_vars PROVE IInv'
  OBVIOUS
<1>1. ASSUME NEW c \in Clients, Transform(c) PROVE IInv'
  BY <1>1, CallStep, TestErrorStep, TestClosedStep, PutStep DEF Transform
<1>2. CASE Start
  BY <1>2, StartWithUsersStep, StartSelectStep, StartPutStep DEF Start
<1>3. CASE Worker
  BY <1>3, StartClosedStep, ReceiveStep, ConvertStep, ReportStep DEF Worker
<1>4. CASE Close \/ CloseReturn
  BY <1>4, CloseStep, CloseReturnStep
<1>5. CASE UNCHANGED vars
  BY <1>5 DEF vars, clientVars, IInv, TypeOK, QueueOK, HandOK, PendingOK, JobsOK,
       ClosingOK, HeldOK, NoRequestLost, NoErrorLost, InQueue, InHand
<1> QED
  BY <1>1, <1>2, <1>3, <1>4, <1>5 DEF Next

\* A nil return of Close finds the worker ended, so nothing is queued, in its hands or
\* pending.
LEMMA NilReturn == IInv => NilMeansDone /\ UsersBeforeConversion
<1> SUFFICES ASSUME IInv PROVE NilMeansDone /\ UsersBeforeConversion
  OBVIOUS
<1>1. NilMeansDone
  BY DEF IInv, TypeOK, ClosingOK, NilMeansDone, NoRequestLost, NoErrorLost, InQueue, InHand
<1>2. UsersBeforeConversion
  BY DEF IInv, HeldOK, UsersBeforeConversion
<1> QED
  BY <1>1, <1>2

LEMMA Invariant == Spec => []IInv
BY InitIInv, InvariantStep, PTL DEF Spec

\* The variables keep their types and the two buffers their capacity.
THEOREM CoordinatorTypes == Spec => []TypeOK
<1>1. IInv => TypeOK
  BY DEF IInv
<1> QED
  BY <1>1, Invariant, PTL

\* A request that Transform has accepted is converted or fails; the error of a failed
\* conversion stays on its way until a call of the coordinator returns it.
THEOREM NothingLost == Spec => [](NoRequestLost /\ NoErrorLost)
<1>1. IInv => NoRequestLost /\ NoErrorLost
  BY DEF IInv
<1> QED
  BY <1>1, Invariant, PTL

\* A nil return of Close vouches for every accepted request.
THEOREM NilReturnVouches == Spec => []NilMeansDone
BY Invariant, NilReturn, PTL

\* Conversations completed before the users are fetched wait for them.
THEOREM ConversionWaitsForUsers == Spec => []UsersBeforeConversion
BY Invariant, NilReturn, PTL
-----------------------------------------------------------------------------
(* The search.  The call and its two goroutines are told apart by what the caller learns: as long *)
(* as it has not learned of an error (Sound) the pages are recorded one after another, and as     *)
(* long as nothing disturbs the search (Quiet) so are the channels they are from.                  *)

Elements(s) == {s[i] : i \in DOMAIN s}
SearchChannels == UNION {SE!ChannelsOf(p) : p \in DOMAIN SearchPages}

SearchTypes ==
  /\ SE!TypeOK
  /\ passing \in Seq(SearchChannels) /\ infoC \in Seq(SearchChannels) /\ seen \subseteq SearchChannels
  /\ informer \in {"inform", "record"} => informing \in SearchChannels
  /\ srC \in {<<>>, <<"error">>}
  /\ call \in {"read", "nil", "error", "none"}
  /\ files \in {"ask", "process", "nil", "error", "none"} /\ filePage \in 1..FilePages
  /\ workspace \in {"ask", "nil", "error"}

SearchRecorded == recorded \subseteq SE!Everything

\* What is not wanted is not done, and what has ended stays so.
SearchEnds ==
  /\ call = "none" <=> "messages" \notin want
  /\ files = "none" <=> "files" \notin want
  /\ call \in {"none", "nil"} => searcher = "ended" /\ informer = "ended" /\ srC = <<>>
  /\ interrupted => cancelled
  /\ outcome # "wait" => cancelled /\ SE!Calls \cap {"read", "ask", "process"} = {}
  /\ outcome = "nil" <=> outcome # "wait" /\ "error" \notin SE!Calls
  /\ cancelled => interrupted \/ "error" \in SE!Calls \/ outcome # "wait"

\* After the return of a failed search, the goroutine may be with the page it has asked for and the
\* worker with the channel it has fetched, but neither gets another.
SearchLate ==
  /\ outcome \in {"wait", "nil"} => late = {}
  /\ \A x \in late : \/ x[1] = "page" /\ searcher # "process"
                     \/ x[1] = "info" /\ informer # "record"
  /\ \A x, y \in late : x[1] = y[1] => x = y

\* No error is on its way to the caller, or has reached it.
Sound == call \in {"read", "nil"} /\ srC = <<>> /\ searcher # "fail"
PagesDone == IF searcher \in {"pass", "ended"} THEN page ELSE page - 1
SearchPaged == Sound =>
  /\ \A p \in 1..PagesDone : <<"page", p>> \in recorded
  /\ searcher = "ended" => page = Len(SearchPages)

\* A channel is recorded, or it is with the worker, or on its way to it.
Quiet == Sound /\ ~interrupted /\ "error" \notin SE!Calls
OnItsWay(c) ==
  \/ c \in Elements(infoC)
  \/ informer \in {"inform", "record"} /\ informing = c
  \/ searcher = "pass" /\ c \in Elements(passing)
SearchInformed == Quiet =>
  /\ \A c \in seen : <<"info", c>> \in recorded
  /\ \A p \in 1..PagesDone : \A c \in SE!ChannelsOf(p) : OnItsWay(c) \/ <<"info", c>> \in recorded
  /\ informer = "ended" => infoC = <<>> /\ searcher = "ended"

\* The search for files and the workspace, which wait for nobody.
SearchOthers ==
  /\ files \in {"ask", "process"} => \A p \in 1..(filePage - 1) : <<"files", p>> \in recorded
  /\ files = "nil" => \A p \in 1..FilePages : <<"files", p>> \in recorded
  /\ workspace = "nil" => <<"workspace", 1>> \in recorded

SearchInv ==
  /\ SearchTypes /\ SearchRecorded /\ SearchEnds /\ SearchLate
  /\ SearchPaged /\ SearchInformed /\ SearchOthers

\* A page is a sequence of channels.
LEMMA SearchForm ==
  /\ Len(SearchPages) \in Nat \ {0} /\ DOMAIN SearchPages = 1..Len(SearchPages)
  /\ \A p \in 1..Len(SearchPages) :
       /\ SearchPages[p] \in Seq(SearchChannels) /\ Elements(SearchPages[p]) = SE!ChannelsOf(p)
       /\ SE!ChannelsOf(p) \subseteq SearchChannels
  /\ FilePages \in Nat \ {0} /\ InfoCap \in Nat
<1>1. Len(SearchPages) \in Nat \ {0} /\ DOMAIN SearchPages = 1..Len(SearchPages)
  BY SearchAssumption
<1>2. ASSUME NEW p \in 1..Len(SearchPages)
      PROVE  /\ SearchPages[p] \in Seq(SearchChannels) /\ Elements(SearchPages[p]) = SE!ChannelsOf(p)
             /\ SE!ChannelsOf(p) \subseteq SearchChannels
  <2>1. SearchPages[p] \in Seq(STRING)
    BY <1>1, SearchAssumption
  <2>2. Elements(SearchPages[p]) = SE!ChannelsOf(p)
    BY DEF Elements, SE!ChannelsOf
  <2>3. SE!ChannelsOf(p) \subseteq SearchChannels
    BY <1>1 DEF SearchChannels
  <2>4. \A i \in 1..Len(SearchPages[p]) : SearchPages[p][i] \in SearchChannels
    BY <2>1, <2>3 DEF SE!ChannelsOf
  <2> QED
    BY <2>1, <2>2, <2>3, <2>4
<1> QED
  BY <1>1, <1>2, SearchAssumption

\* What a channel of Go holds when a value is sent on it or received from it.
LEMMA AppendElements ==
  ASSUME NEW S, NEW q \in Seq(S), NEW x \in S
  PROVE  Append(q, x) \in Seq(S) /\ Elements(Append(q, x)) = Elements(q) \cup {x}
         /\ Len(Append(q, x)) = Len(q) + 1 /\ Append(q, x) # <<>>
BY AppendFacts DEF Elements

LEMMA TailElements ==
  ASSUME NEW S, NEW q \in Seq(S), q # <<>>
  PROVE  /\ Head(q) \in S /\ Tail(q) \in Seq(S) /\ Len(Tail(q)) = Len(q) - 1 /\ Len(q) \in Nat
         /\ Elements(q) = {Head(q)} \cup Elements(Tail(q))
<1>1. /\ Head(q) \in S /\ Tail(q) \in Seq(S) /\ Len(Tail(q)) = Len(q) - 1 /\ Len(q) \in Nat \ {0}
  OBVIOUS
<1>2. Head(q) = q[1] /\ \A i \in 1..(Len(q) - 1) : Tail(q)[i] = q[i + 1]
  BY <1>1
<1>3. ASSUME NEW x \in Elements(q)
      PROVE  x \in {Head(q)} \cup Elements(Tail(q))
  <2>1. PICK i \in 1..Len(q) : x = q[i]
    BY <1>3 DEF Elements
  <2>2. CASE i = 1
    BY <1>2, <2>1, <2>2
  <2>3. CASE i # 1
    <3>1. i - 1 \in 1..Len(Tail(q)) /\ Tail(q)[i - 1] = x
      BY <1>1, <1>2, <2>1, <2>3
    <3>2. DOMAIN Tail(q) = 1..Len(Tail(q))
      BY <1>1
    <3> QED
      BY <3>1, <3>2 DEF Elements
  <2> QED
    BY <2>2, <2>3
<1>4. ASSUME NEW x \in Elements(Tail(q))
      PROVE  x \in Elements(q)
  <2>1. PICK i \in 1..(Len(q) - 1) : x = Tail(q)[i]
    BY <1>1, <1>4 DEF Elements
  <2>2. i + 1 \in 1..Len(q) /\ q[i + 1] = x
    BY <1>1, <1>2, <2>1
  <2> QED
    BY <2>2 DEF Elements
<1>5. Head(q) \in Elements(q)
  BY <1>1, <1>2 DEF Elements
<1> QED
  BY <1>1, <1>3, <1>4, <1>5

LEMMA NoElements == Elements(<<>>) = {}
BY DEF Elements

\* What a search may record.
LEMMA RecordedForm ==
  /\ <<"workspace", 1>> \in SE!Everything
  /\ "messages" \in want =>
       /\ \A p \in 1..Len(SearchPages) : <<"page", p>> \in SE!Everything
       /\ \A c \in SearchChannels : <<"info", c>> \in SE!Everything
  /\ "files" \in want => \A p \in 1..FilePages : <<"files", p>> \in SE!Everything
BY SearchForm DEF SE!Everything, SearchChannels

\* Each step keeps each part of the invariant.
LEMMA AskPageKept == SearchInv /\ SE!AskPage => SearchInv'
<1> SUFFICES ASSUME SearchInv, SE!AskPage
             PROVE  SearchInv'
  OBVIOUS
<1> USE DEF SearchInv, SE!AskPage
<1>1. SearchTypes'
  BY DEF SearchTypes, SE!TypeOK, SE!others
<1>2. SearchEnds'
  BY DEF SearchTypes, SE!TypeOK, SearchEnds, SE!Calls, SE!others
<1>3. SearchLate'
  BY DEF SearchTypes, SE!TypeOK, SearchEnds, SE!Calls, SearchLate, SE!others
<1>4. SearchPaged'
  BY DEF SearchTypes, SE!TypeOK, SearchEnds, SearchPaged, Sound, PagesDone, SE!others
<1>5. SearchInformed'
  BY DEF SearchTypes, SE!TypeOK, SearchEnds, SearchInformed, Sound, Quiet, PagesDone,
         OnItsWay, SE!Calls, SE!others
<1>6. SearchOthers'
  BY DEF SearchTypes, SE!TypeOK, SearchOthers, SE!others
<1>7. SearchRecorded'
  BY RecordedForm DEF SearchRecorded, SE!Everything
<1> QED
  BY <1>1, <1>2, <1>3, <1>4, <1>5, <1>6, <1>7

LEMMA ProcessPageKept == SearchInv /\ SE!ProcessPage => SearchInv'
<1> SUFFICES ASSUME SearchInv, SE!ProcessPage
             PROVE  SearchInv'
  OBVIOUS
<1> USE DEF SearchInv, SE!ProcessPage
<1>1. SearchTypes'
  BY SearchForm DEF SearchTypes, SE!TypeOK, SE!Record, SE!others
<1>2. SearchEnds'
  BY DEF SearchTypes, SE!TypeOK, SearchEnds, SE!Calls, SE!Record, SE!others
<1>3. SearchLate'
  <2>1. CASE SE!Record(<<"page", page>>) /\ searcher' = "pass" /\ passing' = SearchPages[page]
    <3>0. outcome # "nil"
      BY DEF SearchEnds, SE!Calls, SearchTypes
    <3>1. \A x \in late : x[1] = "info" /\ informer # "record"
      BY DEF SearchLate
    <3>2. late' \subseteq late \cup {<<"page", page>>} /\ (outcome = "wait" => late' = late)
      BY <2>1 DEF SE!Record
    <3>3. <<"page", page>>[1] = "page" /\ <<"page", page>>[1] # "info"
      OBVIOUS
    <3> QED
      BY <2>1, <3>0, <3>1, <3>2, <3>3 DEF SearchLate
  <2>2. CASE searcher' = "fail" /\ UNCHANGED <<passing, recorded, late>>
    BY <2>2 DEF SearchLate
  <2> QED
    BY <2>1, <2>2
<1>4. SearchPaged'
  <2>1. CASE SE!Record(<<"page", page>>) /\ searcher' = "pass" /\ passing' = SearchPages[page]
    <3>1. page \in 1..Len(SearchPages)
      BY DEF SearchTypes, SE!TypeOK
    <3>2. (Sound /\ PagesDone = page - 1 /\ PagesDone' = page) \/ ~Sound'
      BY <2>1 DEF Sound, PagesDone
    <3>3. recorded' = recorded \cup {<<"page", page>>}
      BY <2>1 DEF SE!Record
    <3>4. Sound => \A p \in 1..(page - 1) : <<"page", p>> \in recorded
      BY DEF SearchPaged, PagesDone
    <3>5. searcher' # "ended"
      BY <2>1
    <3>6. \A p \in 1..page : p \in 1..(page - 1) \/ p = page
      BY <3>1
    <3> QED
      BY <3>2, <3>3, <3>4, <3>5, <3>6 DEF SearchPaged
  <2>2. CASE searcher' = "fail" /\ UNCHANGED <<passing, recorded, late>>
    BY <2>2 DEF SearchPaged, Sound
  <2> QED
    BY <2>1, <2>2
<1>5. SearchInformed'
  BY SearchForm DEF SearchTypes, SE!TypeOK, SearchEnds, SearchInformed, Sound, Quiet, PagesDone,
         OnItsWay, SE!Calls, SE!Record, SE!others
<1>6. SearchOthers'
  BY DEF SearchTypes, SE!TypeOK, SearchOthers, SE!Record, SE!others
<1>7. SearchRecorded'
  BY RecordedForm DEF SearchRecorded, SE!Everything, SearchTypes, SE!TypeOK, SearchEnds, SE!Record
<1> QED
  BY <1>1, <1>2, <1>3, <1>4, <1>5, <1>6, <1>7

LEMMA PassOnKept == SearchInv /\ SE!PassOn => SearchInv'
<1> SUFFICES ASSUME SearchInv, SE!PassOn
             PROVE  SearchInv'
  OBVIOUS
<1> USE DEF SearchInv, SE!PassOn
<1>1. SearchTypes'
  <2>1. CASE /\ passing # <<>> /\ Len(infoC) < InfoCap
             /\ infoC' = Append(infoC, Head(passing)) /\ passing' = Tail(passing) /\ UNCHANGED <<searcher, page>>
    <3>1. passing' \in Seq(SearchChannels) /\ infoC' \in Seq(SearchChannels)
      BY <2>1, AppendElements, TailElements DEF SearchTypes
    <3>2. Len(infoC') <= InfoCap
      <4>1. Len(infoC') = Len(infoC) + 1 /\ Len(infoC) \in Nat
        BY <2>1, AppendElements, TailElements DEF SearchTypes
      <4> QED
        BY <2>1, <4>1, SearchForm
    <3> QED
      BY <2>1, <3>1, <3>2 DEF SearchTypes, SE!TypeOK, SE!others
  <2>2. CASE passing # <<>> /\ cancelled /\ searcher' = "fail" /\ UNCHANGED <<infoC, passing, page>>
    BY <2>2 DEF SearchTypes, SE!TypeOK, SE!others
  <2>3. CASE /\ passing = <<>> /\ UNCHANGED <<infoC, passing>>
             /\ IF page < Len(SearchPages) THEN searcher' = "ask" /\ page' = page + 1
                                           ELSE searcher' = "ended" /\ UNCHANGED page
    BY <2>3 DEF SearchTypes, SE!TypeOK, SE!others
  <2> QED
    BY <2>1, <2>2, <2>3
<1>2. SearchEnds'
  BY DEF SearchTypes, SE!TypeOK, SearchEnds, SE!Calls, SE!others
<1>3. SearchLate'
  BY DEF SearchTypes, SE!TypeOK, SearchEnds, SE!Calls, SearchLate, SE!others
<1>4. SearchPaged'
  BY DEF SearchTypes, SE!TypeOK, SearchEnds, SearchPaged, Sound, PagesDone, SE!others
<1>5. SearchInformed'
  <2>1. CASE /\ passing # <<>> /\ Len(infoC) < InfoCap
             /\ infoC' = Append(infoC, Head(passing)) /\ passing' = Tail(passing) /\ UNCHANGED <<searcher, page>>
    <3>1. Head(passing) \in SearchChannels /\ Elements(passing) = {Head(passing)} \cup Elements(passing')
      BY <2>1, TailElements DEF SearchTypes
    <3>2. Elements(infoC') = Elements(infoC) \cup {Head(passing)}
      BY <2>1, <3>1, AppendElements DEF SearchTypes
    <3>3. \A c : OnItsWay(c) => OnItsWay(c)'
      BY <2>1, <3>1, <3>2 DEF OnItsWay
    <3>4. PagesDone' = PagesDone /\ (Quiet' => Quiet)
      BY <2>1 DEF PagesDone, Quiet, Sound, SE!Calls, SE!others
    <3>5. informer # "ended" \/ ~Quiet
      BY DEF SearchInformed
    <3> QED
      BY <2>1, <3>3, <3>4, <3>5 DEF SearchInformed
  <2>2. CASE passing # <<>> /\ cancelled /\ searcher' = "fail" /\ UNCHANGED <<infoC, passing, page>>
    BY <2>2 DEF SearchInformed, Quiet, Sound
  <2>3. CASE /\ passing = <<>> /\ UNCHANGED <<infoC, passing>>
             /\ IF page < Len(SearchPages) THEN searcher' = "ask" /\ page' = page + 1
                                           ELSE searcher' = "ended" /\ UNCHANGED page
    <3>1. \A c : OnItsWay(c) => OnItsWay(c)'
      BY <2>3, NoElements DEF OnItsWay
    <3>2. PagesDone' = PagesDone /\ (Quiet' => Quiet)
      BY <2>3 DEF PagesDone, Quiet, Sound, SE!Calls, SE!others, SearchTypes, SE!TypeOK
    <3>3. informer # "ended" \/ ~Quiet
      BY DEF SearchInformed
    <3> QED
      BY <2>3, <3>1, <3>2, <3>3 DEF SearchInformed
  <2> QED
    BY <2>1, <2>2, <2>3
<1>6. SearchOthers'
  BY DEF SearchTypes, SE!TypeOK, SearchOthers, SE!others
<1>7. SearchRecorded'
  BY RecordedForm DEF SearchRecorded, SE!Everything
<1> QED
  BY <1>1, <1>2, <1>3, <1>4, <1>5, <1>6, <1>7

LEMMA SendErrorKept == SearchInv /\ SE!SendError => SearchInv'
<1> SUFFICES ASSUME SearchInv, SE!SendError
             PROVE  SearchInv'
  OBVIOUS
<1> USE DEF SearchInv, SE!SendError
<1>1. SearchTypes'
  BY DEF SearchTypes, SE!TypeOK, SE!others
<1>2. SearchEnds'
  BY DEF SearchTypes, SE!TypeOK, SearchEnds, SE!Calls, SE!others
<1>3. SearchLate'
  BY DEF SearchTypes, SE!TypeOK, SearchEnds, SE!Calls, SearchLate, SE!others
<1>4. SearchPaged'
  BY DEF SearchTypes, SE!TypeOK, SearchEnds, SearchPaged, Sound, PagesDone, SE!others
<1>5. SearchInformed'
  BY DEF SearchTypes, SE!TypeOK, SearchEnds, SearchInformed, Sound, Quiet, PagesDone,
         OnItsWay, SE!Calls, SE!others
<1>6. SearchOthers'
  BY DEF SearchTypes, SE!TypeOK, SearchOthers, SE!others
<1>7. SearchRecorded'
  BY RecordedForm DEF SearchRecorded, SE!Everything
<1> QED
  BY <1>1, <1>2, <1>3, <1>4, <1>5, <1>6, <1>7

LEMMA ReceiveKept == SearchInv /\ SE!Receive => SearchInv'
<1> SUFFICES ASSUME SearchInv, SE!Receive
             PROVE  SearchInv'
  OBVIOUS
<1> USE DEF SearchInv, SE!Receive
<1>1. SearchTypes'
  <2>1. CASE /\ infoC # <<>> /\ infoC' = Tail(infoC)
             /\ IF Head(infoC) \in seen THEN UNCHANGED <<informer, informing>>
                ELSE informer' = "inform" /\ informing' = Head(infoC)
    <3>1. /\ Head(infoC) \in SearchChannels /\ infoC' \in Seq(SearchChannels)
          /\ Len(infoC') = Len(infoC) - 1 /\ Len(infoC) \in Nat
      BY <2>1, TailElements DEF SearchTypes
    <3>2. Len(infoC') <= InfoCap
      BY <3>1, SearchForm DEF SearchTypes, SE!TypeOK
    <3>3. informer' \in {"recv", "inform"} /\ (informer' = "inform" => informing' \in SearchChannels)
      BY <2>1, <3>1, Zenon
    <3>4. UNCHANGED <<want, cancelled, interrupted, searcher, page, passing, seen, srC, call, files, filePage,
                      workspace, outcome, recorded, late>>
      BY DEF SE!others
    <3>5. SE!TypeOK'
      BY <3>2, <3>3, <3>4 DEF SearchTypes, SE!TypeOK
    <3> QED
      BY <3>1, <3>3, <3>4, <3>5 DEF SearchTypes
  <2>2. CASE /\ cancelled \/ (infoC = <<>> /\ searcher = "ended")
             /\ informer' = "ended" /\ UNCHANGED <<infoC, informing>>
    BY <2>2 DEF SearchTypes, SE!TypeOK, SE!others
  <2> QED
    BY <2>1, <2>2
<1>2. SearchEnds'
  BY DEF SearchTypes, SE!TypeOK, SearchEnds, SE!Calls, SE!others
<1>3. SearchLate'
  BY DEF SearchTypes, SE!TypeOK, SearchEnds, SE!Calls, SearchLate, SE!others
<1>4. SearchPaged'
  BY DEF SearchTypes, SE!TypeOK, SearchEnds, SearchPaged, Sound, PagesDone, SE!others
<1>5. SearchInformed'
  <2>1. CASE /\ infoC # <<>> /\ infoC' = Tail(infoC)
             /\ IF Head(infoC) \in seen THEN UNCHANGED <<informer, informing>>
                ELSE informer' = "inform" /\ informing' = Head(infoC)
    <3>1. Elements(infoC) = {Head(infoC)} \cup Elements(infoC')
      BY <2>1, TailElements DEF SearchTypes
    <3>2. PagesDone' = PagesDone /\ (Quiet' => Quiet)
      BY DEF PagesDone, Quiet, Sound, SE!Calls, SE!others
    <3>3. \A c : OnItsWay(c) => OnItsWay(c)' \/ c \in seen
      BY <2>1, <3>1 DEF OnItsWay
    <3>4. informer' # "ended"
      BY <2>1
    <3> QED
      BY <3>2, <3>3, <3>4 DEF SearchInformed
  <2>2. CASE /\ cancelled \/ (infoC = <<>> /\ searcher = "ended")
             /\ informer' = "ended" /\ UNCHANGED <<infoC, informing>>
    <3>1. PagesDone' = PagesDone /\ (Quiet' => Quiet)
      BY DEF PagesDone, Quiet, Sound, SE!Calls, SE!others
    <3>2. \A c : OnItsWay(c) => OnItsWay(c)'
      BY <2>2 DEF OnItsWay
    <3>3. Quiet /\ cancelled => call = "nil"
      BY DEF Quiet, Sound, SearchEnds, SearchTypes, SE!TypeOK, SE!Calls
    <3>4. call # "nil"
      BY DEF SearchEnds
    <3> QED
      BY <2>2, <3>1, <3>2, <3>3, <3>4 DEF SearchInformed
  <2> QED
    BY <2>1, <2>2
<1>6. SearchOthers'
  BY DEF SearchTypes, SE!TypeOK, SearchOthers, SE!others
<1>7. SearchRecorded'
  BY RecordedForm DEF SearchRecorded, SE!Everything
<1> QED
  BY <1>1, <1>2, <1>3, <1>4, <1>5, <1>6, <1>7

LEMMA InformKept == SearchInv /\ SE!Inform => SearchInv'
<1> SUFFICES ASSUME SearchInv, SE!Inform
             PROVE  SearchInv'
  OBVIOUS
<1> USE DEF SearchInv, SE!Inform
<1>1. SearchTypes'
  <2>1. CASE /\ informer = "inform" /\ ~cancelled /\ informer' = "record"
             /\ UNCHANGED <<informing, seen, srC, recorded, late>>
    BY <2>1 DEF SearchTypes, SE!TypeOK, SE!others
  <2>2. CASE /\ informer = "record" /\ SE!Record(<<"info", informing>>) /\ informer' = "recv"
             /\ informing' = SE!None /\ seen' = seen \union {informing} /\ UNCHANGED srC
    <3>1. informing \in SearchChannels
      BY <2>2 DEF SearchTypes
    <3>2. late' \subseteq recorded'
      BY <2>2 DEF SearchTypes, SE!TypeOK, SE!Record
    <3> QED
      BY <2>2, <3>1, <3>2 DEF SearchTypes, SE!TypeOK, SE!others
  <2>3. CASE /\ informer \in {"inform", "record"} /\ srC = <<>> /\ srC' = <<"error">> /\ informer' = "recv"
             /\ informing' = SE!None /\ seen' = seen \union {informing} /\ UNCHANGED <<recorded, late>>
    <3>1. informing \in SearchChannels /\ Len(srC') <= 1
      BY <2>3 DEF SearchTypes
    <3> QED
      BY <2>3, <3>1 DEF SearchTypes, SE!TypeOK, SE!others
  <2> QED
    BY <2>1, <2>2, <2>3
<1>2. SearchEnds'
  BY DEF SearchTypes, SE!TypeOK, SearchEnds, SE!Calls, SE!Record, SE!others
<1>3. SearchLate'
  <2>1. CASE /\ informer = "inform" /\ ~cancelled /\ informer' = "record"
             /\ UNCHANGED <<informing, seen, srC, recorded, late>>
    BY <2>1 DEF SearchLate, SearchEnds
  <2>2. CASE /\ informer = "record" /\ SE!Record(<<"info", informing>>) /\ informer' = "recv"
             /\ informing' = SE!None /\ seen' = seen \union {informing} /\ UNCHANGED srC
    <3>0. outcome # "nil"
      BY <2>2 DEF SearchEnds, SE!Calls, SearchTypes
    <3>1. \A x \in late : x[1] = "page" /\ searcher # "process"
      BY <2>2 DEF SearchLate
    <3>2. late' \subseteq late \cup {<<"info", informing>>} /\ (outcome = "wait" => late' = late)
      BY <2>2 DEF SE!Record
    <3>3. <<"info", informing>>[1] = "info" /\ <<"info", informing>>[1] # "page"
      OBVIOUS
    <3> QED
      BY <2>2, <3>0, <3>1, <3>2, <3>3 DEF SearchLate
  <2>3. CASE /\ informer \in {"inform", "record"} /\ srC = <<>> /\ srC' = <<"error">> /\ informer' = "recv"
             /\ informing' = SE!None /\ seen' = seen \union {informing} /\ UNCHANGED <<recorded, late>>
    BY <2>3 DEF SearchLate
  <2> QED
    BY <2>1, <2>2, <2>3
<1>4. SearchPaged'
  BY DEF SearchTypes, SE!TypeOK, SearchEnds, SearchPaged, Sound, PagesDone, SE!Record, SE!others
<1>5. SearchInformed'
  BY DEF SearchTypes, SE!TypeOK, SearchEnds, SearchInformed, Sound, Quiet, PagesDone,
         OnItsWay, SE!Calls, SE!Record, SE!others
<1>6. SearchOthers'
  BY DEF SearchTypes, SE!TypeOK, SearchOthers, SE!Record, SE!others
<1>7. SearchRecorded'
  <2>1. recorded' \subseteq recorded \union {<<"info", informing>>} \/ recorded' = recorded
    BY DEF SE!Record
  <2>2. informer = "record" => informing \in SearchChannels /\ "messages" \in want
    BY DEF SearchTypes, SearchEnds
  <2>3. recorded' # recorded => informer = "record"
    BY DEF SE!Record
  <2>4. SE!Everything' = SE!Everything
    BY DEF SE!Everything
  <2>5. SearchRecorded
    OBVIOUS
  <2> HIDE DEF SearchInv, SE!Inform
  <2> QED
    BY <2>1, <2>2, <2>3, <2>4, <2>5, RecordedForm DEF SearchRecorded
<1> QED
  BY <1>1, <1>2, <1>3, <1>4, <1>5, <1>6, <1>7

LEMMA ReadResultsKept == SearchInv /\ SE!ReadResults => SearchInv'
<1> SUFFICES ASSUME SearchInv, SE!ReadResults
             PROVE  SearchInv'
  OBVIOUS
<1> USE DEF SearchInv, SE!ReadResults
<1>1. SearchTypes'
  BY DEF SearchTypes, SE!TypeOK, SE!others
<1>2. SearchEnds'
  BY DEF SearchTypes, SE!TypeOK, SearchEnds, SE!Calls, SE!others
<1>3. SearchLate'
  BY DEF SearchTypes, SE!TypeOK, SearchEnds, SE!Calls, SearchLate, SE!others
<1>4. SearchPaged'
  BY DEF SearchTypes, SE!TypeOK, SearchEnds, SearchPaged, Sound, PagesDone, SE!others
<1>5. SearchInformed'
  BY DEF SearchTypes, SE!TypeOK, SearchEnds, SearchInformed, Sound, Quiet, PagesDone,
         OnItsWay, SE!Calls, SE!others
<1>6. SearchOthers'
  BY DEF SearchTypes, SE!TypeOK, SearchOthers, SE!others
<1>7. SearchRecorded'
  BY RecordedForm DEF SearchRecorded, SE!Everything
<1> QED
  BY <1>1, <1>2, <1>3, <1>4, <1>5, <1>6, <1>7

LEMMA SearchFilesKept == SearchInv /\ SE!SearchFiles => SearchInv'
<1> SUFFICES ASSUME SearchInv, SE!SearchFiles
             PROVE  SearchInv'
  OBVIOUS
<1> USE DEF SearchInv, SE!SearchFiles
<1>1. SearchTypes'
  BY SearchForm DEF SearchTypes, SE!TypeOK, SE!Record, SE!messages
<1>2. SearchEnds'
  BY DEF SearchTypes, SE!TypeOK, SearchEnds, SE!Calls, SE!Record, SE!messages
<1>3. SearchLate'
  BY DEF SearchTypes, SE!TypeOK, SearchEnds, SE!Calls, SearchLate, SE!Record, SE!messages
<1>4. SearchPaged'
  BY DEF SearchTypes, SE!TypeOK, SearchEnds, SearchPaged, Sound, PagesDone, SE!Record, SE!messages
<1>5. SearchInformed'
  BY DEF SearchTypes, SE!TypeOK, SearchEnds, SearchInformed, Sound, Quiet, PagesDone,
         OnItsWay, SE!Calls, SE!Record, SE!messages
<1>6. SearchOthers'
  <2>1. recorded \subseteq recorded' /\ UNCHANGED workspace
    BY DEF SE!Record, SE!others
  <2>2. CASE files = "ask" /\ ~cancelled /\ files' = "process" /\ UNCHANGED <<filePage, recorded, late>>
    BY <2>1, <2>2 DEF SearchOthers
  <2>3. CASE /\ files = "process" /\ SE!Record(<<"files", filePage>>)
             /\ IF filePage < FilePages THEN filePage' = filePage + 1 /\ files' = "ask"
                                        ELSE files' = "nil" /\ UNCHANGED filePage
    <3>1. filePage \in 1..FilePages /\ FilePages \in Nat
      BY SearchForm DEF SearchTypes
    <3>2. \A p \in 1..(filePage - 1) : <<"files", p>> \in recorded
      BY <2>3 DEF SearchOthers
    <3>3. recorded' = recorded \cup {<<"files", filePage>>}
      BY <2>3 DEF SE!Record
    <3>4. \A p \in 1..filePage : p \in 1..(filePage - 1) \/ p = filePage
      BY <3>1
    <3>5. \A p \in 1..filePage : <<"files", p>> \in recorded'
      BY <3>2, <3>3, <3>4
    <3> QED
      BY <2>1, <2>3, <3>1, <3>5 DEF SearchOthers
  <2>4. CASE files \in {"ask", "process"} /\ files' = "error" /\ UNCHANGED <<filePage, recorded, late>>
    BY <2>1, <2>4 DEF SearchOthers
  <2> QED
    BY <2>2, <2>3, <2>4
<1>7. SearchRecorded'
  BY RecordedForm DEF SearchRecorded, SE!Everything, SearchTypes, SE!TypeOK, SearchEnds, SE!Record
<1> QED
  BY <1>1, <1>2, <1>3, <1>4, <1>5, <1>6, <1>7

LEMMA WorkspaceInfoKept == SearchInv /\ SE!WorkspaceInfo => SearchInv'
<1> SUFFICES ASSUME SearchInv, SE!WorkspaceInfo
             PROVE  SearchInv'
  OBVIOUS
<1> USE DEF SearchInv, SE!WorkspaceInfo
<1>1. SearchTypes'
  BY DEF SearchTypes, SE!TypeOK, SE!Record, SE!messages
<1>2. SearchEnds'
  BY DEF SearchTypes, SE!TypeOK, SearchEnds, SE!Calls, SE!Record, SE!messages
<1>3. SearchLate'
  BY DEF SearchTypes, SE!TypeOK, SearchEnds, SE!Calls, SearchLate, SE!Record, SE!messages
<1>4. SearchPaged'
  BY DEF SearchTypes, SE!TypeOK, SearchEnds, SearchPaged, Sound, PagesDone, SE!Record, SE!messages
<1>5. SearchInformed'
  BY DEF SearchTypes, SE!TypeOK, SearchEnds, SearchInformed, Sound, Quiet, PagesDone,
         OnItsWay, SE!Calls, SE!Record, SE!messages
<1>6. SearchOthers'
  BY DEF SearchTypes, SE!TypeOK, SearchOthers, SE!Record, SE!messages
<1>7. SearchRecorded'
  BY RecordedForm DEF SearchRecorded, SE!Everything, SearchTypes, SE!TypeOK, SearchEnds, SE!Record
<1> QED
  BY <1>1, <1>2, <1>3, <1>4, <1>5, <1>6, <1>7

LEMMA AbortKept == SearchInv /\ SE!Abort => SearchInv'
<1> SUFFICES ASSUME SearchInv, SE!Abort
             PROVE  SearchInv'
  OBVIOUS
<1> USE DEF SearchInv, SE!Abort
<1>1. SearchTypes'
  BY DEF SearchTypes, SE!TypeOK, SE!messages, SE!others
<1>2. SearchEnds'
  BY DEF SearchTypes, SE!TypeOK, SearchEnds, SE!Calls, SE!messages, SE!others
<1>3. SearchLate'
  BY DEF SearchTypes, SE!TypeOK, SearchEnds, SE!Calls, SearchLate, SE!messages, SE!others
<1>4. SearchPaged'
  BY DEF SearchTypes, SE!TypeOK, SearchEnds, SearchPaged, Sound, PagesDone, SE!messages, SE!others
<1>5. SearchInformed'
  BY DEF SearchTypes, SE!TypeOK, SearchEnds, SearchInformed, Sound, Quiet, PagesDone,
         OnItsWay, SE!Calls, SE!messages, SE!others
<1>6. SearchOthers'
  BY DEF SearchTypes, SE!TypeOK, SearchOthers, SE!messages, SE!others
<1>7. SearchRecorded'
  BY RecordedForm DEF SearchRecorded, SE!Everything
<1> QED
  BY <1>1, <1>2, <1>3, <1>4, <1>5, <1>6, <1>7

LEMMA WaitKept == SearchInv /\ SE!Wait => SearchInv'
<1> SUFFICES ASSUME SearchInv, SE!Wait
             PROVE  SearchInv'
  OBVIOUS
<1> USE DEF SearchInv, SE!Wait
<1>1. SearchTypes'
  BY DEF SearchTypes, SE!TypeOK, SE!messages, SE!others
<1>2. SearchEnds'
  BY DEF SearchTypes, SE!TypeOK, SearchEnds, SE!Calls, SE!messages, SE!others
<1>3. SearchLate'
  BY DEF SearchTypes, SE!TypeOK, SearchEnds, SE!Calls, SearchLate, SE!messages, SE!others
<1>4. SearchPaged'
  BY DEF SearchTypes, SE!TypeOK, SearchEnds, SearchPaged, Sound, PagesDone, SE!messages, SE!others
<1>5. SearchInformed'
  BY DEF SearchTypes, SE!TypeOK, SearchEnds, SearchInformed, Sound, Quiet, PagesDone,
         OnItsWay, SE!Calls, SE!messages, SE!others
<1>6. SearchOthers'
  BY DEF SearchTypes, SE!TypeOK, SearchOthers, SE!messages, SE!others
<1>7. SearchRecorded'
  BY RecordedForm DEF SearchRecorded, SE!Everything
<1> QED
  BY <1>1, <1>2, <1>3, <1>4, <1>5, <1>6, <1>7

LEMMA InterruptKept == SearchInv /\ SE!Interrupt => SearchInv'
<1> SUFFICES ASSUME SearchInv, SE!Interrupt
             PROVE  SearchInv'
  OBVIOUS
<1> USE DEF SearchInv, SE!Interrupt
<1>1. SearchTypes'
  BY DEF SearchTypes, SE!TypeOK, SE!messages, SE!others
<1>2. SearchEnds'
  BY DEF SearchTypes, SE!TypeOK, SearchEnds, SE!Calls, SE!messages, SE!others
<1>3. SearchLate'
  BY DEF SearchTypes, SE!TypeOK, SearchEnds, SE!Calls, SearchLate, SE!messages, SE!others
<1>4. SearchPaged'
  BY DEF SearchTypes, SE!TypeOK, SearchEnds, SearchPaged, Sound, PagesDone, SE!messages, SE!others
<1>5. SearchInformed'
  BY DEF SearchTypes, SE!TypeOK, SearchEnds, SearchInformed, Sound, Quiet, PagesDone,
         OnItsWay, SE!Calls, SE!messages, SE!others
<1>6. SearchOthers'
  BY DEF SearchTypes, SE!TypeOK, SearchOthers, SE!messages, SE!others
<1>7. SearchRecorded'
  BY RecordedForm DEF SearchRecorded, SE!Everything
<1> QED
  BY <1>1, <1>2, <1>3, <1>4, <1>5, <1>6, <1>7

LEMMA SearchInitInv == SE!Init => SearchInv
<1> SUFFICES ASSUME SE!Init
             PROVE  SearchInv
  OBVIOUS
<1> USE SearchForm DEF SE!Init
<1>1. SE!TypeOK
  <2>1. Len(infoC) = 0 /\ Len(srC) = 0 /\ page \in 1..Len(SearchPages)
    OBVIOUS
  <2>2. searcher \in {"ask", "ended"} /\ informer \in {"recv", "ended"}
    OBVIOUS
  <2>3. want \in Wants /\ cancelled \in BOOLEAN /\ interrupted \in BOOLEAN /\ outcome = "wait" /\ late \subseteq recorded
    OBVIOUS
  <2>4. Len(infoC) <= InfoCap /\ Len(srC) <= 1
    BY <2>1
  <2> HIDE DEF SE!Init
  <2> QED
    BY <2>1, <2>2, <2>3, <2>4 DEF SE!TypeOK
<1>0. SearchTypes
  <2>1. passing \in Seq(SearchChannels) /\ infoC \in Seq(SearchChannels)
    OBVIOUS
  <2> QED
    BY <1>1, <2>1 DEF SearchTypes
<1>2. SearchRecorded /\ SearchLate
  BY DEF SearchRecorded, SearchLate
<1>3. SearchEnds
  BY DEF SearchEnds, SE!Calls
<1>4. SearchPaged /\ SearchInformed /\ SearchOthers
  BY DEF SearchPaged, SearchInformed, SearchOthers, PagesDone, Sound, Quiet
<1> QED
  BY <1>0, <1>2, <1>3, <1>4 DEF SearchInv

LEMMA SearchStep == SearchInv /\ [SE!Next]_(SE!vars) => SearchInv'
<1>1. SearchInv /\ UNCHANGED SE!vars => SearchInv'
  <2> SUFFICES ASSUME SearchInv, UNCHANGED SE!vars
               PROVE  SearchInv'
    OBVIOUS
  <2> USE DEF SearchInv, SE!vars, SE!messages, SE!others
  <2>1. SearchTypes' /\ SearchRecorded'
    BY DEF SearchTypes, SE!TypeOK, SearchRecorded, SE!Everything
  <2>2. SearchEnds' /\ SearchLate' /\ SearchOthers'
    BY DEF SearchEnds, SE!Calls, SearchLate, SearchOthers
  <2>3. SearchPaged' /\ SearchInformed'
    BY DEF SearchPaged, SearchInformed, PagesDone, Sound, Quiet, OnItsWay, SE!Calls
  <2> QED
    BY <2>1, <2>2, <2>3
<1> QED
  BY <1>1, AskPageKept, ProcessPageKept, PassOnKept, SendErrorKept, ReceiveKept, InformKept, ReadResultsKept,
     SearchFilesKept, WorkspaceInfoKept, AbortKept, WaitKept, InterruptKept
  DEF SE!Next, SE!Goes, SE!Searcher, SE!Informer

\* The end of a search that succeeds: nothing is under way, and nothing was lost that was not cancelled.
LEMMA SearchIsWhole == SearchInv => SE!SearchWhole
<1> SUFFICES ASSUME SearchInv
             PROVE  SE!SearchWhole
  OBVIOUS
<1> USE SearchForm DEF SearchInv
<1>1. \A x, y \in late : x[1] = y[1] => x = y
  BY DEF SearchLate
<1>2. ASSUME outcome = "nil"
      PROVE  /\ late = {} /\ workspace = "nil" /\ files \in {"nil", "none"} /\ call \in {"nil", "none"}
             /\ searcher = "ended" /\ informer = "ended" /\ srC = <<>>
  BY <1>2 DEF SearchLate, SearchEnds, SE!Calls, SearchTypes
<1>3. ASSUME outcome = "nil", "messages" \in want
      PROVE  Sound /\ PagesDone = Len(SearchPages) /\ (~interrupted => Quiet)
  <2>1. Sound
    BY <1>2, <1>3 DEF Sound, SearchEnds
  <2> QED
    BY <1>2, <1>3, <2>1 DEF Quiet, SearchPaged, PagesDone, SE!Calls
<1>4. ASSUME outcome = "nil"
      PROVE  /\ <<"workspace", 1>> \in recorded
             /\ "files" \in want => \A p \in 1..FilePages : <<"files", p>> \in recorded
  BY <1>2, <1>4 DEF SearchOthers, SearchEnds
<1>5. ASSUME outcome = "nil", "messages" \in want
      PROVE  \A p \in 1..Len(SearchPages) : <<"page", p>> \in recorded
  BY <1>3, <1>5 DEF SearchPaged
<1>6. ASSUME outcome = "nil", "messages" \in want, ~interrupted
      PROVE  \A p \in 1..Len(SearchPages) : \A c \in SE!ChannelsOf(p) : <<"info", c>> \in recorded
  <2>1. \A c : ~OnItsWay(c)
    BY <1>2, <1>3, <1>6, NoElements DEF SearchInformed, OnItsWay
  <2> QED
    BY <1>3, <1>6, <2>1 DEF SearchInformed
<1>9. ASSUME NEW x \in SE!Everything
      PROVE  \/ x = <<"workspace", 1>>
             \/ "messages" \in want /\ \E p \in 1..Len(SearchPages) : x = <<"page", p>>
             \/ /\ "messages" \in want
                /\ \E p \in 1..Len(SearchPages) : \E c \in SE!ChannelsOf(p) : x = <<"info", c>>
             \/ "files" \in want /\ \E p \in 1..FilePages : x = <<"files", p>>
  BY DEF SE!Everything
<1>7. outcome = "nil" /\ ~interrupted => SE!Everything \subseteq recorded
  BY <1>9, <1>4, <1>5, <1>6
<1>8. outcome = "nil" => \A x \in SE!Everything \ recorded : x[1] = "info"
  <2> SUFFICES ASSUME outcome = "nil", NEW x \in SE!Everything, x \notin recorded
               PROVE  x[1] = "info"
    OBVIOUS
  <2>1. PICK c : x = <<"info", c>>
    BY <1>4, <1>5, <1>9
  <2> QED
    BY <2>1
<1> QED
  BY <1>1, <1>2, <1>7, <1>8 DEF SE!SearchWhole, SearchRecorded

-----------------------------------------------------------------------------
(* The window of a date.                                                   *)

TimeInv == TE!TypeOK /\ TE!EntryIsTime /\ TE!OneField

LEMMA ClockType == \A p \in DOMAIN ClockMax : ClockMax[p] \in 0..99 /\ ClockMax[p] \in Int /\ ClockMax[p] >= 0
<1>1. ClockMax \in Seq(0..99)
  BY WindowsAssumption
<1>2. ASSUME NEW p \in DOMAIN ClockMax PROVE ClockMax[p] \in 0..99
  <2>1. p \in 1..Len(ClockMax)
    BY <1>1
  <2> QED
    BY <1>1, <2>1, ElementOfSeq
<1> QED
  BY <1>2

\* A digit is the high or the low one of its pair, and a pair has two digits of its own.
LEMMA PairDigits ==
  /\ Len(ClockMax) \in Nat \ {0}
  /\ \A c \in TE!Digits :
       /\ c \in Nat /\ TE!PairOf(c) \in DOMAIN ClockMax
       /\ TE!IsHigh(c) => c = 2 * TE!PairOf(c) - 1 /\ c + 1 = 2 * TE!PairOf(c) /\ c + 1 \in TE!Digits
       /\ ~TE!IsHigh(c) => c = 2 * TE!PairOf(c)
  /\ \A p \in DOMAIN ClockMax :
       p \in Nat /\ 2 * p - 1 \in TE!Digits /\ 2 * p \in TE!Digits /\ ClockMax[p] \in 0..99
  /\ \A p, q \in DOMAIN ClockMax : p # q => {2 * p - 1, 2 * p} \cap {2 * q - 1, 2 * q} = {}
<1>1. Len(ClockMax) \in Nat \ {0} /\ DOMAIN ClockMax = 1..Len(ClockMax)
  BY WindowsAssumption
<1>2. ASSUME NEW c \in TE!Digits
      PROVE  /\ c \in Nat /\ TE!PairOf(c) \in DOMAIN ClockMax
             /\ TE!IsHigh(c) => c = 2 * TE!PairOf(c) - 1 /\ c + 1 = 2 * TE!PairOf(c) /\ c + 1 \in TE!Digits
             /\ ~TE!IsHigh(c) => c = 2 * TE!PairOf(c)
  <2>1. c \in 1..(2 * Len(ClockMax))
    BY DEF TE!Digits
  <2>2. PICK h \in Nat : \E b \in {0, 1} : c = 2 * h + b
    <3>1. c \in Nat /\ c \div 2 \in Nat /\ c % 2 \in {0, 1} /\ c = 2 * (c \div 2) + (c % 2)
      BY <2>1, <1>1
    <3> QED
      BY <3>1
  <2>5. PICK b \in {0, 1} : c = 2 * h + b
    BY <2>2
  <2>3. CASE b = 0
    <3>1. c % 2 = 0 /\ (c + 1) \div 2 = h
      BY <2>5, <2>3
    <3> QED
      BY <3>1, <2>1, <2>5, <2>3, <1>1 DEF TE!IsHigh, TE!PairOf
  <2>4. CASE b = 1
    <3>1. c % 2 = 1 /\ (c + 1) \div 2 = h + 1
      BY <2>5, <2>4
    <3> QED
      BY <3>1, <2>1, <2>5, <2>4, <1>1 DEF TE!IsHigh, TE!PairOf, TE!Digits
  <2> QED
    BY <2>3, <2>4
<1>3. \A p \in DOMAIN ClockMax :
        p \in Nat /\ 2 * p - 1 \in TE!Digits /\ 2 * p \in TE!Digits /\ ClockMax[p] \in 0..99
  <2>1. \A p \in DOMAIN ClockMax : ClockMax[p] \in 0..99
    BY ClockType
  <2>2. \A p \in 1..Len(ClockMax) :
          p \in Nat /\ 2 * p - 1 \in 1..(2 * Len(ClockMax)) /\ 2 * p \in 1..(2 * Len(ClockMax))
    BY <1>1
  <2> QED
    BY <1>1, <2>1, <2>2 DEF TE!Digits
<1>4. \A p, q \in DOMAIN ClockMax : p # q => {2 * p - 1, 2 * p} \cap {2 * q - 1, 2 * q} = {}
  BY <1>1
<1> QED
  BY <1>1, <1>2, <1>3, <1>4

\* Two digits are a number.
LEMMA ValueType ==
  ASSUME NEW e \in [TE!Digits -> 0..9], NEW p \in DOMAIN ClockMax
  PROVE  TE!Value(e, p) \in Int /\ ClockMax[p] \in Int
<1>1. 2 * p - 1 \in TE!Digits /\ 2 * p \in TE!Digits /\ ClockMax[p] \in Int
  BY PairDigits, ClockType
<1>2. e[2 * p - 1] \in Int /\ e[2 * p] \in Int
  BY <1>1
<1> QED
  BY <1>1, <1>2 DEF TE!Value

\* What is written into one pair leaves the others as they are.
LEMMA OtherPairs ==
  ASSUME NEW e \in [TE!Digits -> 0..9], NEW f \in [TE!Digits -> 0..9], NEW p \in DOMAIN ClockMax,
         \A c \in TE!Digits \ {2 * p - 1, 2 * p} : f[c] = e[c],
         \A q \in DOMAIN ClockMax : TE!Value(e, q) <= ClockMax[q], TE!Value(f, p) <= ClockMax[p]
  PROVE  \A q \in DOMAIN ClockMax : TE!Value(f, q) <= ClockMax[q]
<1> TAKE q \in DOMAIN ClockMax
<1>1. CASE q = p
  BY <1>1
<1>2. CASE q # p
  <2>1. 2 * q - 1 \in TE!Digits \ {2 * p - 1, 2 * p} /\ 2 * q \in TE!Digits \ {2 * p - 1, 2 * p}
    BY <1>2, PairDigits
  <2>2. f[2 * q - 1] = e[2 * q - 1] /\ f[2 * q] = e[2 * q]
    BY <2>1
  <2>3. TE!Value(f, q) = TE!Value(e, q)
    BY <2>2 DEF TE!Value
  <2> QED
    BY <2>3
<1> QED
  BY <1>1, <1>2

\* A digit typed leaves a time: one too large makes its pair the largest there is.
LEMMA TypedKeeps ==
  ASSUME NEW e \in [TE!Digits -> 0..9], NEW c \in TE!Digits, NEW v \in 0..9,
         \A q \in DOMAIN ClockMax : TE!Value(e, q) <= ClockMax[q]
  PROVE  LET t == TE!Typed(e, c, v) IN
         /\ t.entry \in [TE!Digits -> 0..9] /\ t.cursor \in TE!Digits
         /\ \A q \in DOMAIN ClockMax : TE!Value(t.entry, q) <= ClockMax[q]
<1> DEFINE p == TE!PairOf(c)
           plain == [e EXCEPT ![c] = v]
           zeroed == [e EXCEPT ![c] = v, ![c + 1] = 0]
           t == TE!Typed(e, c, v)
<1>1. p \in DOMAIN ClockMax /\ c \in {2 * p - 1, 2 * p} /\ c \in Nat
  BY PairDigits
<1>2. plain \in [TE!Digits -> 0..9]
  OBVIOUS
<1>3. CASE TE!Value(plain, p) <= ClockMax[p]
  <2>1. t = [entry |-> plain, cursor |-> IF c < 2 * Len(ClockMax) THEN c + 1 ELSE c]
    BY <1>3 DEF TE!Typed
  <2>2. t.entry = plain /\ t.cursor = IF c < 2 * Len(ClockMax) THEN c + 1 ELSE c
    BY <2>1
  <2>3. t.cursor \in TE!Digits
    <3>1. Len(ClockMax) \in Nat /\ c \in 1..(2 * Len(ClockMax))
      BY PairDigits DEF TE!Digits
    <3>2. (IF c < 2 * Len(ClockMax) THEN c + 1 ELSE c) \in 1..(2 * Len(ClockMax))
      BY <3>1
    <3> QED
      BY <2>2, <3>2 DEF TE!Digits
  <2>4. \A d \in TE!Digits \ {2 * p - 1, 2 * p} : plain[d] = e[d]
    BY <1>1
  <2>5. \A q \in DOMAIN ClockMax : TE!Value(plain, q) <= ClockMax[q]
    BY <1>1, <1>2, <1>3, <2>4, OtherPairs
  <2> QED
    BY <1>2, <2>2, <2>3, <2>5
<1>4. CASE TE!Value(plain, p) > ClockMax[p] /\ TE!IsHigh(c) /\ v * 10 <= ClockMax[p]
  <2>1. t = [entry |-> zeroed, cursor |-> c + 1]
    <3>1. ~(TE!Value(plain, p) <= ClockMax[p])
      <4>1. TE!Value(plain, p) \in Int /\ ClockMax[p] \in Int
        BY <1>1, <1>2, ValueType
      <4> QED
        BY <1>4, <4>1
    <3> QED
      BY <1>4, <3>1 DEF TE!Typed
  <2>2. t.entry = zeroed /\ t.cursor = c + 1
    BY <2>1
  <2>3. c = 2 * p - 1 /\ c + 1 = 2 * p /\ c + 1 \in TE!Digits
    BY <1>4, PairDigits
  <2>4. zeroed \in [TE!Digits -> 0..9]
    <3>1. zeroed = [plain EXCEPT ![c + 1] = 0]
      OBVIOUS
    <3>2. ASSUME NEW g \in [TE!Digits -> 0..9], NEW d, NEW z \in 0..9
          PROVE  [g EXCEPT ![d] = z] \in [TE!Digits -> 0..9]
      OBVIOUS
    <3>3. 0 \in 0..9
      OBVIOUS
    <3> HIDE DEF plain, zeroed
    <3> QED
      BY <1>2, <3>1, <3>2, <3>3
  <2>5. zeroed[c] = v /\ zeroed[c + 1] = 0
    BY <2>3, <1>1
  <2>6. TE!Value(zeroed, p) <= ClockMax[p]
    <3>1. TE!Value(zeroed, p) = zeroed[c] * 10 + zeroed[c + 1]
      BY <2>3 DEF TE!Value
    <3> QED
      BY <3>1, <2>5, <1>4
  <2>7. \A d \in TE!Digits \ {2 * p - 1, 2 * p} : zeroed[d] = e[d]
    BY <2>3
  <2>8. \A q \in DOMAIN ClockMax : TE!Value(zeroed, q) <= ClockMax[q]
    BY <1>1, <2>4, <2>6, <2>7, OtherPairs
  <2> QED
    BY <2>2, <2>3, <2>4, <2>8
<1>5. CASE TE!Value(plain, p) > ClockMax[p] /\ ~(TE!IsHigh(c) /\ v * 10 <= ClockMax[p])
  <2>1. t = [entry |-> e, cursor |-> c]
    <3>1. ~(TE!Value(plain, p) <= ClockMax[p])
      <4>1. TE!Value(plain, p) \in Int /\ ClockMax[p] \in Int
        BY <1>1, <1>2, ValueType
      <4> QED
        BY <1>5, <4>1
    <3> QED
      BY <1>5, <3>1 DEF TE!Typed
  <2> QED
    BY <2>1
<1>6. TE!Value(plain, p) \in Int /\ ClockMax[p] \in Int
  BY <1>1, <1>2, ValueType
<1> QED
  BY <1>3, <1>4, <1>5, <1>6

\* The window opens with a time, and every key keeps one.
LEMMA TimeStart == TE!Init => TimeInv
<1> SUFFICES ASSUME TE!Init PROVE TimeInv
  OBVIOUS
<1>1. \A c \in TE!Digits : entry[c] = 0
  <2>1. \A c \in TE!Digits : TE!PairOf(c) \in DOMAIN ClockMax
    BY PairDigits
  <2>2. 0 \div 10 = 0 /\ 0 % 10 = 0
    OBVIOUS
  <2> QED
    BY <2>1, <2>2 DEF TE!Init, TE!toEntry
<1>2. entry \in [TE!Digits -> 0..9]
  BY <1>1 DEF TE!Init, TE!toEntry
<1>3. \A p \in DOMAIN ClockMax : TE!Value(entry, p) = 0
  BY <1>1, PairDigits DEF TE!Value
<1>4. TE!EntryIsTime
  <2>1. \A p \in DOMAIN ClockMax : ClockMax[p] >= 0
    BY ClockType
  <2> QED
    BY <1>3, <2>1 DEF TE!EntryIsTime
<1>5. 1 \in TE!Digits
  BY PairDigits DEF TE!Digits
<1> QED
  BY <1>2, <1>4, <1>5 DEF TimeInv, TE!TypeOK, TE!OneField, TE!Init

\* A key is one of the calendar or of the time, and changes at most the digits at the cursor.
LEMMA TimeStep == TimeInv /\ TE!Next => TimeInv'
<1> SUFFICES ASSUME TimeInv, TE!Next PROVE TimeInv'
  OBVIOUS
<1> USE DEF TimeInv, TE!TypeOK
<1>0. \A q \in DOMAIN ClockMax : TE!Value(entry, q) <= ClockMax[q]
  BY DEF TE!EntryIsTime
<1>f. TE!Timing => TE!OneField'
  BY DEF TE!Timing, TE!OneField
\* What is typed goes into one pair.
<1>w. ASSUME entry' \in [TE!Digits -> 0..9], NEW p \in DOMAIN ClockMax,
             \A c \in TE!Digits \ {2 * p - 1, 2 * p} : entry'[c] = entry[c],
             TE!Value(entry', p) <= ClockMax[p]
      PROVE  TE!EntryIsTime'
  <2>1. \A q \in DOMAIN ClockMax : TE!Value(entry', q) <= ClockMax[q]
    BY <1>w, <1>0, OtherPairs
  <2> QED
    BY <2>1 DEF TE!EntryIsTime, TE!Value
<1>1. CASE TE!NextField
  BY <1>1 DEF TE!NextField, TE!EntryIsTime, TE!Value, TE!OneField
<1>2. CASE TE!PrevField
  BY <1>2 DEF TE!PrevField, TE!EntryIsTime, TE!Value, TE!OneField
<1>3. CASE TE!Across
  BY <1>3 DEF TE!Across, TE!UpdateRight, TE!UpdateLeft, TE!EntryIsTime, TE!Value, TE!OneField
<1>4. CASE TE!Left
  <2>1. cursor' \in TE!Digits
    BY <1>4 DEF TE!Left, TE!Digits
  <2> QED
    BY <1>4, <1>f, <2>1 DEF TE!Left, TE!EntryIsTime, TE!Value
<1>5. CASE TE!Right
  <2>1. cursor' \in TE!Digits
    BY <1>5, PairDigits DEF TE!Right, TE!Digits
  <2> QED
    BY <1>5, <1>f, <2>1 DEF TE!Right, TE!EntryIsTime, TE!Value
<1> DEFINE p == TE!PairOf(cursor)
<1>p. /\ p \in DOMAIN ClockMax /\ cursor \in {2 * p - 1, 2 * p} /\ cursor \in Nat
      /\ 2 * p - 1 \in TE!Digits /\ 2 * p \in TE!Digits /\ p \in Nat
      /\ TE!IsHigh(cursor) => cursor = 2 * p - 1
      /\ ~TE!IsHigh(cursor) => cursor = 2 * p
  BY PairDigits
<1>v. TE!Value(entry, p) = entry[2 * p - 1] * 10 + entry[2 * p]
  BY DEF TE!Value
<1>c. 2 * p - 1 # 2 * p
  BY <1>p
<1>6. CASE TE!Increase
  <2>1. entry' = [entry EXCEPT ![cursor] = entry[cursor] + 1] /\ entry[cursor] < 9 /\ cursor' = cursor
        /\ TE!Value(entry, p) + TE!Weight <= ClockMax[p] /\ TE!Timing
    BY <1>6 DEF TE!Increase
  <2>2. entry' \in [TE!Digits -> 0..9] /\ \A c \in TE!Digits \ {2 * p - 1, 2 * p} : entry'[c] = entry[c]
    BY <2>1, <1>p
  <2>3. TE!Value(entry', p) = TE!Value(entry, p) + TE!Weight
    <3>1. TE!Value(entry', p) = entry'[2 * p - 1] * 10 + entry'[2 * p]
      BY DEF TE!Value
    <3>2. CASE TE!IsHigh(cursor)
      <4>1. entry'[2 * p - 1] = entry[2 * p - 1] + 1 /\ entry'[2 * p] = entry[2 * p] /\ TE!Weight = 10
        BY <3>2, <2>1, <1>p, <1>c DEF TE!Weight
      <4> QED
        BY <4>1, <3>1, <1>v, <1>p
    <3>3. CASE ~TE!IsHigh(cursor)
      <4>1. entry'[2 * p - 1] = entry[2 * p - 1] /\ entry'[2 * p] = entry[2 * p] + 1 /\ TE!Weight = 1
        BY <3>3, <2>1, <1>p, <1>c DEF TE!Weight
      <4> QED
        BY <4>1, <3>1, <1>v, <1>p
    <3> QED
      BY <3>2, <3>3
  <2>4. TE!Value(entry', p) <= ClockMax[p]
    BY <2>1, <2>3
  <2>5. TE!EntryIsTime'
    BY <1>w, <1>p, <2>2, <2>4
  <2> QED
    BY <2>1, <2>2, <2>5, <1>f
<1>7. CASE TE!Decrease
  <2>1. entry' = [entry EXCEPT ![cursor] = entry[cursor] - 1] /\ entry[cursor] > 0 /\ cursor' = cursor /\ TE!Timing
    BY <1>7 DEF TE!Decrease
  <2>2. entry' \in [TE!Digits -> 0..9] /\ \A c \in TE!Digits \ {2 * p - 1, 2 * p} : entry'[c] = entry[c]
    BY <2>1, <1>p
  <2>3. entry'[2 * p - 1] <= entry[2 * p - 1] /\ entry'[2 * p] <= entry[2 * p]
    BY <2>1, <1>p
  <2>4. TE!Value(entry', p) <= TE!Value(entry, p)
    <3>1. TE!Value(entry', p) = entry'[2 * p - 1] * 10 + entry'[2 * p]
      BY DEF TE!Value
    <3> QED
      BY <3>1, <1>v, <2>2, <2>3, <1>p
  <2>5. TE!Value(entry', p) <= ClockMax[p]
    <3>1. TE!Value(entry', p) \in Int /\ TE!Value(entry, p) \in Int /\ ClockMax[p] \in Int
      BY <1>p, <2>2, ValueType
    <3> QED
      BY <3>1, <2>4, <1>0, <1>p
  <2>6. TE!EntryIsTime'
    BY <1>w, <1>p, <2>2, <2>5
  <2> QED
    BY <2>1, <2>2, <2>6, <1>f
<1>8. CASE TE!Delete
  <2>1. entry' = [entry EXCEPT ![cursor] = 0] /\ cursor' = cursor /\ TE!Timing
    BY <1>8 DEF TE!Delete
  <2>2. entry' \in [TE!Digits -> 0..9] /\ \A c \in TE!Digits \ {2 * p - 1, 2 * p} : entry'[c] = entry[c]
    BY <2>1, <1>p
  <2>3. entry'[2 * p - 1] <= entry[2 * p - 1] /\ entry'[2 * p] <= entry[2 * p]
    BY <2>1, <1>p
  <2>4. TE!Value(entry', p) <= TE!Value(entry, p)
    <3>1. TE!Value(entry', p) = entry'[2 * p - 1] * 10 + entry'[2 * p]
      BY DEF TE!Value
    <3> QED
      BY <3>1, <1>v, <2>2, <2>3, <1>p
  <2>5. TE!Value(entry', p) <= ClockMax[p]
    <3>1. TE!Value(entry', p) \in Int /\ TE!Value(entry, p) \in Int /\ ClockMax[p] \in Int
      BY <1>p, <2>2, ValueType
    <3> QED
      BY <3>1, <2>4, <1>0, <1>p
  <2>6. TE!EntryIsTime'
    BY <1>w, <1>p, <2>2, <2>5
  <2> QED
    BY <2>1, <2>2, <2>6, <1>f
<1>9. CASE TE!Backspace
  <2>1. PICK q : /\ q = IF TE!Value(entry, p) = 0 /\ p > 1 THEN p - 1 ELSE p
                 /\ cursor' = 2 * q - 1 /\ entry' = [entry EXCEPT ![2 * q - 1] = 0, ![2 * q] = 0] /\ TE!Timing
    BY <1>9 DEF TE!Backspace
  <2>2. q \in DOMAIN ClockMax
    <3>1. DOMAIN ClockMax = 1..Len(ClockMax)
      BY WindowsAssumption
    <3> QED
      BY <2>1, <1>p, <3>1
  <2>3. 2 * q - 1 \in TE!Digits /\ 2 * q \in TE!Digits /\ q \in Nat /\ ClockMax[q] \in 0..99
    BY <2>2, PairDigits
  <2>4. entry' \in [TE!Digits -> 0..9] /\ \A c \in TE!Digits \ {2 * q - 1, 2 * q} : entry'[c] = entry[c]
    BY <2>1, <2>3
  <2>5. TE!Value(entry', q) <= ClockMax[q]
    <3>1. TE!Value(entry', q) = entry'[2 * q - 1] * 10 + entry'[2 * q]
      BY DEF TE!Value
    <3>2. entry'[2 * q - 1] = 0 /\ entry'[2 * q] = 0
      BY <2>1, <2>3
    <3> QED
      BY <3>1, <3>2, <2>3
  <2>6. TE!EntryIsTime'
    BY <1>w, <2>2, <2>4, <2>5
  <2> QED
    BY <2>1, <2>3, <2>4, <2>6, <1>f
<1>10. ASSUME NEW v \in 0..9, TE!Type(v) PROVE TimeInv'
  <2>1. entry' = TE!Typed(entry, cursor, v).entry /\ cursor' = TE!Typed(entry, cursor, v).cursor /\ TE!Timing
    BY <1>10 DEF TE!Type
  <2>2. /\ entry' \in [TE!Digits -> 0..9] /\ cursor' \in TE!Digits
        /\ \A q \in DOMAIN ClockMax : TE!Value(entry', q) <= ClockMax[q]
    BY <2>1, <1>0, TypedKeeps
  <2>3. TE!EntryIsTime'
    BY <2>2 DEF TE!EntryIsTime, TE!Value
  <2> QED
    BY <2>1, <2>2, <2>3, <1>f
<1> QED
  BY <1>1, <1>2, <1>3, <1>4, <1>5, <1>6, <1>7, <1>8, <1>9, <1>10 DEF TE!Next

\* Whatever is there, a number of the pair can be typed over it digit after digit.
LEMMA TypedOver == TimeInv => TE!TypedIsTaken
<1> SUFFICES ASSUME TimeInv, TE!IsHigh(cursor), NEW n \in 0..ClockMax[TE!PairOf(cursor)]
             PROVE  LET t == TE!Typed(entry, cursor, n \div 10)
                    IN TE!Value(TE!Typed(t.entry, t.cursor, n % 10).entry, TE!PairOf(cursor)) = n
  BY DEF TE!TypedIsTaken
<1> USE DEF TimeInv, TE!TypeOK
<1> DEFINE p == TE!PairOf(cursor)
           high == n \div 10
           low == n % 10
           plain == [entry EXCEPT ![cursor] = high]
           zeroed == [entry EXCEPT ![cursor] = high, ![cursor + 1] = 0]
           t == TE!Typed(entry, cursor, high)
           last == [t.entry EXCEPT ![t.cursor] = low]
           u == TE!Typed(t.entry, t.cursor, low)
<1>1. /\ p \in DOMAIN ClockMax /\ p \in Nat /\ cursor = 2 * p - 1 /\ cursor + 1 = 2 * p /\ cursor \in Nat
      /\ cursor \in TE!Digits /\ cursor + 1 \in TE!Digits /\ ClockMax[p] \in 0..99
  BY PairDigits
<1>2. n \in Nat /\ n <= ClockMax[p] /\ n <= 99 /\ high \in 0..9 /\ low \in 0..9 /\ n = high * 10 + low
  BY <1>1
<1>3. t.cursor = cursor + 1 /\ t.entry \in {plain, zeroed}
  <2>1. CASE TE!Value(plain, p) <= ClockMax[p]
    <3>1. t = [entry |-> plain, cursor |-> IF cursor < 2 * Len(ClockMax) THEN cursor + 1 ELSE cursor]
      BY <2>1 DEF TE!Typed
    <3>2. cursor < 2 * Len(ClockMax)
      BY <1>1, PairDigits DEF TE!Digits
    <3>3. t = [entry |-> plain, cursor |-> cursor + 1]
      BY <3>1, <3>2
    <3> HIDE DEF t, plain, zeroed
    <3>4. t.entry = plain /\ t.cursor = cursor + 1
      BY <3>3
    <3> QED
      BY <3>4
  <2>2. CASE ~(TE!Value(plain, p) <= ClockMax[p])
    <3>1. high * 10 <= ClockMax[p]
      BY <1>1, <1>2
    <3>2. t = [entry |-> zeroed, cursor |-> cursor + 1]
      BY <2>2, <3>1 DEF TE!Typed
    <3> HIDE DEF t, plain, zeroed
    <3>3. t.entry = zeroed /\ t.cursor = cursor + 1
      BY <3>2
    <3> QED
      BY <3>3
  <2> QED
    BY <2>1, <2>2
<1>4. t.entry \in [TE!Digits -> 0..9] /\ t.entry[cursor] = high
  <2>1. plain \in [TE!Digits -> 0..9] /\ plain[cursor] = high
    BY <1>1, <1>2
  <2>2. zeroed = [plain EXCEPT ![cursor + 1] = 0]
    OBVIOUS
  <2>3. zeroed \in [TE!Digits -> 0..9] /\ zeroed[cursor] = high
    BY <1>1, <2>1, <2>2
  <2> HIDE DEF plain, zeroed, t
  <2> QED
    BY <1>3, <2>1, <2>3
<1> HIDE DEF t
<1>5. last[cursor] = high /\ last[cursor + 1] = low
  BY <1>1, <1>3, <1>4
<1>6. TE!Value(last, p) = n
  <2>1. TE!Value(last, p) = last[cursor] * 10 + last[cursor + 1]
    BY <1>1 DEF TE!Value
  <2> QED
    BY <2>1, <1>5, <1>2
<1>7. TE!PairOf(t.cursor) = p
  <2>1. (2 * p + 1) \div 2 = p
    BY <1>1
  <2> QED
    BY <1>1, <1>3, <2>1 DEF TE!PairOf
<1>8. u.entry = last
  <2>1. TE!Value(last, TE!PairOf(t.cursor)) <= ClockMax[TE!PairOf(t.cursor)]
    BY <1>2, <1>6, <1>7
  <2>2. u = [entry |-> last, cursor |-> IF t.cursor < 2 * Len(ClockMax) THEN t.cursor + 1 ELSE t.cursor]
    BY <2>1 DEF TE!Typed
  <2> QED
    BY <2>2
<1> QED
  BY <1>6, <1>8 DEF t

-----------------------------------------------------------------------------
(* The list of a directory.                                                *)

\* Of some numbers, one is the least.
LEMMA LeastOf == ASSUME NEW S, S \subseteq Nat, S # {} PROVE \E x \in S : \A y \in S : x <= y
<1> DEFINE Less == OpToRel(<, Nat)
<1>0. IsWellFoundedOn(Less, Nat)
  BY NatLessThanWellFounded
<1> HIDE DEF Less
<1>1. PICK x \in S : \A y \in S : ~(<<y, x>> \in Less)
  BY <1>0, WFMin
<1>2. ASSUME NEW y \in S PROVE x <= y
  <2>1. y < x => <<y, x>> \in Less
    BY DEF Less, OpToRel
  <2> QED
    BY <1>1, <2>1
<1> QED
  BY <1>2

\* Bags of at most one element.
LEMMA ListBags ==
  /\ \A d : FL!SetToBag({d}) # FL!EmptyBag
  /\ \A d : FL!(+)(FL!EmptyBag, FL!SetToBag({d})) = FL!SetToBag({d})
  /\ \A d : FL!(-)(FL!SetToBag({d}), FL!SetToBag({d})) = FL!EmptyBag
  /\ \A d, e : FL!BagIn(e, FL!SetToBag({d})) => e = d
  /\ \A e : ~FL!BagIn(e, FL!EmptyBag)
<1>1. \A d : DOMAIN FL!SetToBag({d}) = {d} /\ DOMAIN FL!EmptyBag = {} /\ FL!SetToBag({d})[d] = 1
  BY DEF FL!SetToBag, FL!EmptyBag
<1>2. \A d : FL!(+)(FL!EmptyBag, FL!SetToBag({d})) = FL!SetToBag({d})
  BY DEF FL!SetToBag, FL!EmptyBag, FL!(+)
<1>3. \A d : FL!(-)(FL!SetToBag({d}), FL!SetToBag({d})) = FL!EmptyBag
  BY DEF FL!SetToBag, FL!EmptyBag, FL!(-)
<1>4. \A d : FL!SetToBag({d}) # FL!EmptyBag
  BY <1>1
<1>5. \A d, e : FL!BagIn(e, FL!SetToBag({d})) => e = d
  BY <1>1 DEF FL!BagIn, FL!BagToSet
<1>6. \A e : ~FL!BagIn(e, FL!EmptyBag)
  BY <1>1 DEF FL!BagIn, FL!BagToSet
<1> QED
  BY <1>2, <1>3, <1>4, <1>5, <1>6

\* They are bags.
LEMMA ListBagTypes ==
  ASSUME NEW b, FL!IsABag(b), NEW d
  PROVE  FL!IsABag(FL!(+)(b, FL!SetToBag({d}))) /\ FL!IsABag(FL!(-)(b, FL!SetToBag({d})))
<1>1. \A x \in DOMAIN b : b[x] \in Nat /\ b[x] > 0
  BY DEF FL!IsABag
<1>2. FL!IsABag(FL!(+)(b, FL!SetToBag({d})))
  BY <1>1 DEF FL!IsABag, FL!SetToBag, FL!(+)
<1>3. FL!IsABag(FL!(-)(b, FL!SetToBag({d})))
  BY <1>1 DEF FL!IsABag, FL!SetToBag, FL!(-)
<1> QED
  BY <1>2, <1>3

-----------------------------------------------------------------------------
\* The tree, and what a list of it is.
File0 == [name : FL!Names, dir : BOOLEAN]
Plain == FL!Names \ {".."}

\* A directory has its files and its directories, and is in one that is there.
LEMMA TreeShape ==
  /\ <<>> \in DOMAIN FileTree
  /\ \A d \in DOMAIN FileTree :
       /\ FileTree[d].files \in Seq(Plain) /\ FileTree[d].dirs \in Seq(Plain)
       /\ FL!Parent(d) \in DOMAIN FileTree
       /\ \A k \in DOMAIN FileTree[d].dirs : Append(d, FileTree[d].dirs[k]) \in DOMAIN FileTree
  /\ ".." \in FL!Names
<1>1. FileTree \in [DOMAIN FileTree -> [files : Seq(Plain), dirs : Seq(Plain)]]
  BY WindowsAssumption DEF Plain
<1>2. \A d \in DOMAIN FileTree :
        /\ FL!Parent(d) \in DOMAIN FileTree
        /\ \A k \in DOMAIN FileTree[d].dirs : Append(d, FileTree[d].dirs[k]) \in DOMAIN FileTree
  BY WindowsAssumption
<1>3. <<>> \in DOMAIN FileTree
  BY WindowsAssumption
<1>4. ".." \in FL!Names
  BY DEF FL!Names
<1> QED
  BY <1>1, <1>2, <1>3, <1>4

\* The entries of a directory are as many as its names.
LEMMA EntriesShape ==
  ASSUME NEW s \in Seq(Plain), NEW b \in BOOLEAN
  PROVE  /\ FL!EntriesOf(s, b) \in Seq(File0) /\ Len(FL!EntriesOf(s, b)) = Len(s)
         /\ \A k \in 1..Len(s) : FL!EntriesOf(s, b)[k] = [name |-> s[k], dir |-> b] /\ s[k] \in Plain
<1>1. DOMAIN s = 1..Len(s) /\ Len(s) \in Nat /\ \A k \in 1..Len(s) : s[k] \in Plain
  BY ElementOfSeq
<1>2. FL!EntriesOf(s, b) = [k \in 1..Len(s) |-> [name |-> s[k], dir |-> b]]
  BY <1>1 DEF FL!EntriesOf
<1>3. \A k \in 1..Len(s) : [name |-> s[k], dir |-> b] \in File0
  BY <1>1 DEF File0, Plain
<1>4. FL!EntriesOf(s, b) \in [1..Len(s) -> File0]
  BY <1>2, <1>3
<1>5. FL!EntriesOf(s, b) \in Seq(File0) /\ Len(FL!EntriesOf(s, b)) = Len(s)
  BY <1>1, <1>4
<1> QED
  BY <1>1, <1>2, <1>5

\* Two sequences put together.
LEMMA Joined ==
  ASSUME NEW S, NEW s \in Seq(S), NEW t \in Seq(S)
  PROVE  Len(s) \in Nat /\ Len(t) \in Nat /\ Len(s \o t) = Len(s) + Len(t)
OBVIOUS

\* What is in a list: the way up, a file of the directory, or a directory in it.
LEMMA ListShape ==
  ASSUME NEW d, tree[d].files \in Seq(Plain), tree[d].dirs \in Seq(Plain)
  PROVE  /\ FL!List(d) \in Seq(File0)
         /\ \A k \in DOMAIN FL!List(d) :
              LET f == FL!List(d)[k] IN
              \/ f = FL!Up
              \/ ~f.dir /\ \E l \in DOMAIN tree[d].files : tree[d].files[l] = f.name
              \/ f.dir /\ f.name # ".." /\ \E l \in DOMAIN tree[d].dirs : tree[d].dirs[l] = f.name
<1> DEFINE top == IF d = FL!Root THEN <<>> ELSE <<FL!Up>>
           fs == FL!EntriesOf(tree[d].files, FALSE)
           ds == FL!EntriesOf(tree[d].dirs, TRUE)
<1>1. FL!Up \in File0
  BY TreeShape DEF FL!Up, File0
<1>2. top \in Seq(File0) /\ \A k \in 1..Len(top) : top[k] = FL!Up
  BY <1>1
<1>3. /\ fs \in Seq(File0) /\ Len(fs) = Len(tree[d].files)
      /\ \A k \in 1..Len(fs) : fs[k] = [name |-> tree[d].files[k], dir |-> FALSE]
  BY EntriesShape
<1>4. /\ ds \in Seq(File0) /\ Len(ds) = Len(tree[d].dirs)
      /\ \A k \in 1..Len(ds) : ds[k] = [name |-> tree[d].dirs[k], dir |-> TRUE] /\ tree[d].dirs[k] \in Plain
  BY EntriesShape
<1>5. FL!List(d) = top \o fs \o ds
  BY DEF FL!List
<1>6. DOMAIN tree[d].files = 1..Len(tree[d].files) /\ DOMAIN tree[d].dirs = 1..Len(tree[d].dirs)
  OBVIOUS
<1> HIDE DEF top, fs, ds
<1>7. top \o fs \in Seq(File0)
  BY <1>2, <1>3
<1>8. FL!List(d) \in Seq(File0)
  BY <1>4, <1>5, <1>7
<1>9. ASSUME NEW k \in DOMAIN FL!List(d)
      PROVE  LET f == FL!List(d)[k] IN
             \/ f = FL!Up
             \/ ~f.dir /\ \E l \in DOMAIN tree[d].files : tree[d].files[l] = f.name
             \/ f.dir /\ f.name # ".." /\ \E l \in DOMAIN tree[d].dirs : tree[d].dirs[l] = f.name
  <2>0. /\ Len(top) \in Nat /\ Len(fs) \in Nat /\ Len(ds) \in Nat
        /\ Len(top \o fs) = Len(top) + Len(fs) /\ Len(FL!List(d)) = Len(top \o fs) + Len(ds)
        /\ DOMAIN FL!List(d) = 1..Len(FL!List(d))
    <3>1. Len(top) \in Nat /\ Len(fs) \in Nat /\ Len(top \o fs) = Len(top) + Len(fs)
      BY <1>2, <1>3, Joined
    <3>2. Len(ds) \in Nat /\ Len(top \o fs \o ds) = Len(top \o fs) + Len(ds)
      BY <1>4, <1>7, Joined
    <3>3. DOMAIN FL!List(d) = 1..Len(FL!List(d))
      BY <1>8
    <3> QED
      BY <3>1, <3>2, <3>3, <1>5
  <2>1. k \in 1..(Len(top) + Len(fs) + Len(ds)) /\ Len(top) \in Nat /\ Len(fs) \in Nat /\ Len(ds) \in Nat
    BY <2>0
  <2>2. CASE k \in 1..Len(top)
    <3>1. FL!List(d)[k] = top[k]
      BY <1>2, <1>3, <1>4, <1>5, <1>7, <2>1, <2>2
    <3> QED
      BY <3>1, <1>2, <2>2
  <2>3. CASE k \in (Len(top) + 1)..(Len(top) + Len(fs))
    <3>1. k - Len(top) \in 1..Len(fs) /\ FL!List(d)[k] = fs[k - Len(top)]
      BY <1>2, <1>3, <1>4, <1>5, <1>7, <2>1, <2>3
    <3>2. FL!List(d)[k] = [name |-> tree[d].files[k - Len(top)], dir |-> FALSE]
      BY <3>1, <1>3
    <3>3. k - Len(top) \in DOMAIN tree[d].files
      BY <3>1, <1>3, <1>6
    <3> QED
      BY <3>2, <3>3
  <2>4. CASE k > Len(top) + Len(fs)
    <3>0. k - Len(top \o fs) \in 1..Len(ds) /\ k - Len(top \o fs) = k - Len(top) - Len(fs)
      BY <2>0, <2>1, <2>4
    <3>1. k - Len(top) - Len(fs) \in 1..Len(ds) /\ FL!List(d)[k] = ds[k - Len(top) - Len(fs)]
      BY <1>4, <1>5, <1>7, <2>0, <3>0
    <3>2. /\ FL!List(d)[k] = [name |-> tree[d].dirs[k - Len(top) - Len(fs)], dir |-> TRUE]
          /\ tree[d].dirs[k - Len(top) - Len(fs)] # ".."
      BY <3>1, <1>4 DEF Plain
    <3>3. k - Len(top) - Len(fs) \in DOMAIN tree[d].dirs
      BY <3>1, <1>4, <1>6
    <3> QED
      BY <3>2, <3>3
  <2> QED
    BY <2>1, <2>2, <2>3, <2>4
<1> QED
  BY <1>8, <1>9

-----------------------------------------------------------------------------
\* The invariant of the list.  FolderCalm is of a window whose keys waited for the lists: at most the list of its own
\* directory is on its way.
FolderTypes ==
  /\ Directory \in Seq(FL!Names) /\ cursor \in Nat \ {0} /\ viewStack \in Seq(Nat \ {0})
  /\ FL!IsABag(reads) /\ chosen \in Seq(FL!Names) /\ listed \in Seq(File0)
  /\ hasty \in BOOLEAN /\ dotted \in BOOLEAN /\ outside \in BOOLEAN
  /\ tree \in [DOMAIN FileTree -> [files : Seq(Plain), dirs : Seq(Plain)]]
  /\ \A d \in DOMAIN FileTree : Len(tree[d].files) <= Len(FileTree[d].files)
IsThere(c) == \E k \in DOMAIN tree[FL!Parent(c)].files : tree[FL!Parent(c)].files[k] = FL!Last(c)
Restored ==
  /\ Len(viewStack) = Len(Directory)
  /\ \A n \in DOMAIN viewStack :
       LET l == FL!List(SubSeq(Directory, 1, n - 1)) IN
       viewStack[n] \in DOMAIN l /\ l[viewStack[n]].name = Directory[n]
FolderCalm ==
  /\ ~hasty => reads = FL!EmptyBag \/ reads = FL!SetToBag({Directory})
  /\ ~hasty /\ FL!Still =>
       /\ Directory \in DOMAIN FileTree
       /\ reads = FL!EmptyBag => listed = FL!List(Directory)
       /\ chosen # <<>> => IsThere(chosen)
FolderPlaces ==
  /\ ~hasty /\ ~dotted /\ FL!Still => Restored /\ (cursor = 1 \/ cursor \in DOMAIN FL!List(Directory))
  /\ outside => hasty \/ dotted \/ ~FL!Still
FolderInv == FolderTypes /\ FolderCalm /\ FolderPlaces

\* The window opens on the root, its list on its way.
LEMMA FolderStart == FL!Init => FolderInv
<1> SUFFICES ASSUME FL!Init PROVE FolderInv
  OBVIOUS
<1>1. /\ tree = FileTree /\ Directory = <<>> /\ listed = <<>> /\ cursor = 1 /\ viewStack = <<>>
      /\ reads = FL!SetToBag({Directory}) /\ chosen = <<>>
      /\ outside = FALSE /\ hasty = FALSE /\ dotted = FALSE
  BY DEF FL!Init, FL!Root
<1>2. FL!IsABag(reads)
  BY <1>1 DEF FL!IsABag, FL!SetToBag
<1>3. FileTree \in [DOMAIN FileTree -> [files : Seq(Plain), dirs : Seq(Plain)]]
  BY WindowsAssumption DEF Plain
<1>4. \A d \in DOMAIN FileTree : Len(FileTree[d].files) \in Nat
  BY TreeShape
<1>5. FolderTypes
  <2>1. Directory \in Seq(FL!Names) /\ viewStack \in Seq(Nat \ {0}) /\ chosen \in Seq(FL!Names) /\ listed \in Seq(File0)
    BY <1>1
  <2>2. \A d \in DOMAIN FileTree : Len(tree[d].files) <= Len(FileTree[d].files)
    BY <1>1, <1>4
  <2>3. tree \in [DOMAIN FileTree -> [files : Seq(Plain), dirs : Seq(Plain)]]
    BY <1>1, <1>3
  <2>4. cursor \in Nat \ {0}
    BY <1>1
  <2>5. hasty \in BOOLEAN /\ dotted \in BOOLEAN /\ outside \in BOOLEAN
    BY <1>1, Zenon
  <2> QED
    BY <1>2, <2>1, <2>2, <2>3, <2>4, <2>5 DEF FolderTypes
<1>6. FolderCalm
  BY <1>1, TreeShape, ListBags DEF FolderCalm
<1>7. FolderPlaces
  BY <1>1 DEF FolderPlaces, Restored
<1> QED
  BY <1>5, <1>6, <1>7 DEF FolderInv

\* A list has an entry for the way up, for each file and for each directory.
LEMMA Listed ==
  ASSUME FolderTypes, NEW d \in DOMAIN FileTree
  PROVE  /\ FL!List(d) \in Seq(File0)
         /\ \A k \in DOMAIN FL!List(d) :
              LET f == FL!List(d)[k] IN
              \/ f = FL!Up
              \/ ~f.dir /\ \E l \in DOMAIN tree[d].files : tree[d].files[l] = f.name
              \/ f.dir /\ f.name # ".." /\ \E l \in DOMAIN tree[d].dirs : tree[d].dirs[l] = f.name
<1>1. tree[d].files \in Seq(Plain) /\ tree[d].dirs \in Seq(Plain)
  BY DEF FolderTypes
<1> QED
  BY <1>1, ListShape

\* What stands still with the directory and the tree.
LEMMA FolderStands ==
  ASSUME UNCHANGED <<tree, Directory, viewStack>>
  PROVE  /\ FL!List(Directory)' = FL!List(Directory) /\ FL!Still' = FL!Still
         /\ Restored' = Restored
BY DEF FL!List, FL!EntriesOf, FL!Root, FL!Up, FL!Still, Restored

\* A key that finds no list on its way leaves a window calm.
LEMMA KeyFacts ==
  ASSUME FolderInv, FL!Pressed
  PROVE  /\ hasty' \in BOOLEAN /\ ~outside /\ chosen = <<>>
         /\ ~hasty' => ~hasty /\ reads = FL!EmptyBag
  BY DEF FolderInv, FolderTypes, FL!Pressed

\* A list that comes is that of the directory, if the keys waited for it.
LEMMA PopulateKept == ASSUME FolderInv, NEW d, FL!Populate(d) PROVE FolderInv'
<1>1. /\ FL!BagIn(d, reads) /\ reads' = FL!(-)(reads, FL!SetToBag({d}))
      /\ listed' = IF d \in DOMAIN tree THEN FL!List(d) ELSE listed
      /\ UNCHANGED <<tree, Directory, cursor, viewStack, chosen, outside, hasty, dotted>>
  BY DEF FL!Populate
<1>2. DOMAIN tree = DOMAIN FileTree
  BY DEF FolderInv, FolderTypes
<1>3. FolderTypes'
  <2>1. FL!IsABag(reads')
    BY <1>1, ListBagTypes DEF FolderInv, FolderTypes
  <2>2. listed' \in Seq(File0)
    BY <1>1, <1>2, Listed DEF FolderInv, FolderTypes
  <2>3. FL!IsABag(reads)'
    BY <2>1 DEF FL!IsABag
  <2> QED
    BY <1>1, <2>2, <2>3 DEF FolderInv, FolderTypes
<1>4. ~hasty => d = Directory /\ reads' = FL!EmptyBag
  BY <1>1, ListBags DEF FolderInv, FolderCalm
<1>5. FolderCalm'
  <2>1. IsThere(chosen)' = IsThere(chosen)
    BY <1>1 DEF IsThere, FL!Parent, FL!Root, FL!Front, FL!Last
  <2>2. FL!EmptyBag' = FL!EmptyBag
    BY DEF FL!EmptyBag, FL!SetToBag
  <2> QED
    BY <1>1, <1>2, <1>4, <2>1, <2>2, FolderStands DEF FolderInv, FolderCalm
<1>6. FolderPlaces'
  BY <1>1, FolderStands DEF FolderInv, FolderPlaces
<1> QED
  BY <1>3, <1>5, <1>6 DEF FolderInv

\* Keys that move the cursor in the list or read it again.
LEMMA CursorKept ==
  ASSUME FolderInv, FL!Pressed, UNCHANGED <<tree, Directory, listed, viewStack, chosen, outside, dotted>>,
         cursor' \in (1..cursor) \cup DOMAIN listed,
         \/ reads' = reads
         \/ reads' = FL!(+)(reads, FL!SetToBag({Directory}))
  PROVE  FolderInv'
<1>1. FolderTypes'
  <2>0. FL!IsABag(reads)
    BY DEF FolderInv, FolderTypes
  <2>1. FL!IsABag(reads')
    <3>1. CASE reads' = reads
      BY <2>0, <3>1
    <3>2. CASE reads' = FL!(+)(reads, FL!SetToBag({Directory}))
      BY <2>0, <3>2, ListBagTypes
    <3> QED
      BY <3>1, <3>2
  <2>2. FL!IsABag(reads)'
    BY <2>1 DEF FL!IsABag
  <2>3. cursor' \in Nat \ {0}
    BY DEF FolderInv, FolderTypes
  <2> QED
    BY <2>2, <2>3, KeyFacts DEF FolderInv, FolderTypes
<1>2. ~hasty' => reads' \in {FL!EmptyBag, FL!SetToBag({Directory})}
  BY KeyFacts, ListBags
<1>3. ~hasty' /\ FL!Still => listed = FL!List(Directory) /\ Directory \in DOMAIN FileTree
  BY KeyFacts DEF FolderInv, FolderCalm
<1>4. FL!EmptyBag' = FL!EmptyBag /\ FL!SetToBag({Directory})' = FL!SetToBag({Directory})
  BY DEF FL!EmptyBag, FL!SetToBag
<1>5. FolderCalm'
  BY <1>2, <1>3, <1>4, FolderStands, KeyFacts DEF FolderCalm
<1>6. FolderPlaces'
  <2>1. ~hasty' /\ ~dotted' /\ FL!Still => cursor' = 1 \/ cursor' \in DOMAIN listed
    <3> SUFFICES ASSUME ~hasty', ~dotted', FL!Still PROVE cursor' = 1 \/ cursor' \in DOMAIN listed
      OBVIOUS
    <3>1. cursor = 1 \/ cursor \in DOMAIN listed
      BY <1>3, KeyFacts DEF FolderInv, FolderPlaces
    <3>2. cursor \in Nat /\ DOMAIN listed = 1..Len(listed) /\ Len(listed) \in Nat
      BY DEF FolderInv, FolderTypes
    <3> QED
      BY <3>1, <3>2
  <2>2. ~hasty' /\ ~dotted' /\ FL!Still => cursor' = 1 \/ cursor' \in DOMAIN FL!List(Directory)
    BY <1>3, <2>1
  <2> QED
    BY <2>2, FolderStands, KeyFacts DEF FolderInv, FolderPlaces
<1> QED
  BY <1>1, <1>5, <1>6 DEF FolderInv

\* The first of some places is one of them.
LEMMA FirstOf == ASSUME NEW S, S \subseteq Nat, S # {} PROVE FL!Min(S) \in S
BY LeastOf DEF FL!Min

\* The keys that move the cursor stay within a list that is there.
LEMMA CursorKeys ==
  ASSUME FolderInv, FL!Move \/ FL!Refresh \/ \E n \in FL!Names : FL!Jump(n) PROVE FolderInv'
<1>0. cursor \in Nat \ {0} /\ DOMAIN listed = 1..Len(listed) /\ Len(listed) \in Nat
  BY DEF FolderInv, FolderTypes
<1>1. CASE FL!Move
  <2>1. FL!Pressed /\ UNCHANGED <<tree, Directory, listed, viewStack, reads, chosen, outside, dotted>>
    BY <1>1 DEF FL!Move
  <2>2. cursor' \in (1..cursor) \cup DOMAIN listed
    <3>1. CASE cursor' = IF cursor > 1 THEN cursor - 1 ELSE cursor
      BY <1>0, <3>1
    <3>2. CASE cursor' = IF cursor < Len(listed) THEN cursor + 1 ELSE cursor
      BY <1>0, <3>2
    <3>3. CASE cursor' = 1
      BY <1>0, <3>3
    <3> QED
      BY <1>1, <3>1, <3>2, <3>3 DEF FL!Move
  <2> QED
    BY <2>1, <2>2, CursorKept
<1>2. CASE FL!Refresh
  <2>1. cursor' \in (1..cursor) \cup DOMAIN listed
    BY <1>0, <1>2 DEF FL!Refresh
  <2> QED
    BY <1>2, <2>1, CursorKept DEF FL!Refresh, FL!Read
<1>3. ASSUME NEW n, FL!Jump(n) PROVE FolderInv'
  <2> DEFINE next == {k \in DOMAIN listed : listed[k].name = n /\ k > cursor}
  <2>1. FL!Pressed /\ UNCHANGED <<tree, Directory, listed, viewStack, reads, chosen, outside, dotted>>
        /\ cursor' = IF next = {} THEN cursor ELSE FL!Min(next)
    BY <1>3 DEF FL!Jump
  <2>2. next \subseteq Nat /\ next \subseteq DOMAIN listed
    BY <1>0
  <2>3. cursor' \in (1..cursor) \cup DOMAIN listed
    <3>1. cursor \in 1..cursor
      BY <1>0
    <3> QED
      BY <2>1, <2>2, <3>1, FirstOf
  <2> QED
    BY <2>1, <2>3, CursorKept
<1> QED
  BY <1>1, <1>2, <1>3

\* A path and the one below it.
LEMMA Below ==
  ASSUME NEW S, NEW d \in Seq(S), NEW x \in S
  PROVE  /\ Append(d, x) \in Seq(S) /\ Append(d, x) # <<>> /\ Len(Append(d, x)) = Len(d) + 1
         /\ FL!Parent(Append(d, x)) = d /\ FL!Last(Append(d, x)) = x
         /\ DOMAIN Append(d, x) = DOMAIN d \cup {Len(d) + 1}
         /\ \A n \in DOMAIN d : Append(d, x)[n] = d[n] /\ SubSeq(Append(d, x), 1, n - 1) = SubSeq(d, 1, n - 1)
         /\ SubSeq(Append(d, x), 1, Len(d)) = d /\ Append(d, x)[Len(d) + 1] = x
<1> DEFINE e == Append(d, x)
<1>1. /\ e \in Seq(S) /\ e # <<>> /\ Len(e) = Len(d) + 1 /\ Len(d) \in Nat
      /\ DOMAIN d = 1..Len(d) /\ DOMAIN e = 1..(Len(d) + 1)
      /\ e[Len(d) + 1] = x
  OBVIOUS
<1>2. \A n \in 1..Len(d) : e[n] = d[n]
  OBVIOUS
<1> HIDE DEF e
<1>3. ASSUME NEW n \in 1..(Len(d) + 1) PROVE SubSeq(e, 1, n - 1) = SubSeq(d, 1, n - 1)
  <2>1. n - 1 \in Nat /\ \A k \in 1..(n - 1) : k \in 1..Len(d)
    BY <1>1
  <2>2. \A k \in 1..(n - 1) : SubSeq(e, 1, n - 1)[k] = e[k] /\ SubSeq(d, 1, n - 1)[k] = d[k]
    BY <1>1, <2>1
  <2>3. Len(SubSeq(e, 1, n - 1)) = n - 1 /\ Len(SubSeq(d, 1, n - 1)) = n - 1
        /\ SubSeq(e, 1, n - 1) \in Seq(S) /\ SubSeq(d, 1, n - 1) \in Seq(S)
    BY <1>1, <2>1
  <2> QED
    BY <1>2, <2>1, <2>2, <2>3, SeqEqual
<1>4. SubSeq(d, 1, Len(d)) = d
  BY <1>1
<1>5. SubSeq(e, 1, Len(d)) = d
  <2>1. Len(d) + 1 - 1 = Len(d) /\ Len(d) + 1 \in 1..(Len(d) + 1)
    BY <1>1
  <2> QED
    BY <1>3, <1>4, <2>1
<1>6. FL!Parent(e) = d
  <2>1. Len(e) - 1 = Len(d)
    BY <1>1
  <2> QED
    BY <1>1, <1>5, <2>1 DEF FL!Parent, FL!Root, FL!Front
<1>7. FL!Last(e) = x
  BY <1>1 DEF FL!Last
<1>8. DOMAIN e = DOMAIN d \cup {Len(d) + 1}
  BY <1>1
<1>9. \A n \in DOMAIN d : e[n] = d[n] /\ SubSeq(e, 1, n - 1) = SubSeq(d, 1, n - 1)
  BY <1>1, <1>2, <1>3
<1> QED
  BY <1>1, <1>5, <1>6, <1>7, <1>8, <1>9 DEF e

\* A path and the one above it.
LEMMA Above ==
  ASSUME NEW S, NEW d \in Seq(S), d # <<>>
  PROVE  /\ FL!Front(d) \in Seq(S) /\ Len(FL!Front(d)) = Len(d) - 1 /\ FL!Last(d) \in S /\ Len(d) \in DOMAIN d
         /\ FL!Last(d) = d[Len(d)] /\ FL!Front(d) = SubSeq(d, 1, Len(d) - 1)
         /\ DOMAIN FL!Front(d) = 1..(Len(d) - 1) /\ DOMAIN FL!Front(d) \subseteq DOMAIN d
         /\ \A n \in DOMAIN FL!Front(d) :
              FL!Front(d)[n] = d[n] /\ SubSeq(FL!Front(d), 1, n - 1) = SubSeq(d, 1, n - 1)
<1>1. Len(d) \in Nat /\ Len(d) >= 1 /\ DOMAIN d = 1..Len(d) /\ Len(d) \in 1..Len(d)
  BY EmptySeq
<1> DEFINE e == SubSeq(d, 1, Len(d) - 1)
<1>2. e \in Seq(S) /\ Len(e) = Len(d) - 1 /\ DOMAIN e = 1..(Len(d) - 1) /\ \A n \in 1..(Len(d) - 1) : e[n] = d[n]
  BY <1>1
<1> HIDE DEF e
<1>3. ASSUME NEW n \in 1..(Len(d) - 1) PROVE SubSeq(e, 1, n - 1) = SubSeq(d, 1, n - 1)
  <2>1. n - 1 \in Nat /\ \A k \in 1..(n - 1) : k \in 1..(Len(d) - 1) /\ k \in 1..Len(d)
    BY <1>1
  <2>2. \A k \in 1..(n - 1) : SubSeq(e, 1, n - 1)[k] = e[k] /\ SubSeq(d, 1, n - 1)[k] = d[k]
    BY <1>1, <1>2, <2>1
  <2>3. Len(SubSeq(e, 1, n - 1)) = n - 1 /\ Len(SubSeq(d, 1, n - 1)) = n - 1
        /\ SubSeq(e, 1, n - 1) \in Seq(S) /\ SubSeq(d, 1, n - 1) \in Seq(S)
    BY <1>1, <1>2, <2>1
  <2> QED
    BY <1>2, <2>1, <2>2, <2>3, SeqEqual
<1>4. FL!Front(d) = e /\ FL!Last(d) = d[Len(d)]
  BY DEF FL!Front, FL!Last, e
<1>5. d[Len(d)] \in S
  BY <1>1, ElementOfSeq
<1> QED
  BY <1>1, <1>2, <1>3, <1>4, <1>5 DEF e

\* One more list on its way.
LEMMA ReadTypes ==
  ASSUME FolderInv, NEW d
  PROVE  /\ FL!Read(d) => FL!IsABag(reads)' /\ reads' = FL!(+)(reads, FL!SetToBag({d}))
         /\ reads' = reads => FL!IsABag(reads)'
<1>1. FL!IsABag(reads)
  BY DEF FolderInv, FolderTypes
<1>2. FL!IsABag(FL!(+)(reads, FL!SetToBag({d})))
  BY <1>1, ListBagTypes
<1> QED
  BY <1>1, <1>2 DEF FL!Read, FL!IsABag

\* Of what is listed, when the keys have waited.
LEMMA ListedHere ==
  ASSUME FolderInv, ~hasty, reads = FL!EmptyBag, FL!Still, NEW k \in DOMAIN listed
  PROVE  /\ Directory \in DOMAIN FileTree /\ listed = FL!List(Directory)
         /\ LET f == listed[k] IN
            \/ f = FL!Up
            \/ ~f.dir /\ \E l \in DOMAIN tree[Directory].files : tree[Directory].files[l] = f.name
            \/ f.dir /\ f.name # ".." /\ Append(Directory, f.name) \in DOMAIN FileTree
<1>1. Directory \in DOMAIN FileTree /\ listed = FL!List(Directory)
  BY DEF FolderInv, FolderCalm
<1> DEFINE f == listed[k]
<1>2. \/ f = FL!Up
      \/ ~f.dir /\ \E l \in DOMAIN tree[Directory].files : tree[Directory].files[l] = f.name
      \/ f.dir /\ f.name # ".." /\ \E l \in DOMAIN tree[Directory].dirs : tree[Directory].dirs[l] = f.name
  BY <1>1, Listed DEF FolderInv
<1>3. tree = FileTree
  BY DEF FL!Still
<1>4. \A l \in DOMAIN FileTree[Directory].dirs : Append(Directory, FileTree[Directory].dirs[l]) \in DOMAIN FileTree
  BY <1>1, TreeShape
<1> QED
  BY <1>1, <1>2, <1>3, <1>4

\* Enter outside the list is the panic.
LEMMA EnterPast ==
  ASSUME FolderInv, FL!Pressed, listed # <<>>, cursor > Len(listed), outside' = TRUE,
         UNCHANGED <<tree, Directory, listed, cursor, viewStack, reads, chosen, dotted>>
  PROVE  FolderInv'
<1>1. Len(listed) \in Nat /\ Len(listed) >= 1 /\ DOMAIN listed = 1..Len(listed) /\ cursor \in Nat
  BY EmptySeq DEF FolderInv, FolderTypes
<1>2. cursor # 1 /\ cursor \notin DOMAIN listed
  BY <1>1
<1>3. FolderTypes'
  <2>1. FL!IsABag(reads)'
    BY ReadTypes
  <2> QED
    BY <2>1, KeyFacts DEF FolderInv, FolderTypes
<1>4. hasty' \/ dotted' \/ ~FL!Still
  <2> SUFFICES ASSUME ~hasty', ~dotted', FL!Still PROVE FALSE
    OBVIOUS
  <2>1. ~hasty /\ ~dotted /\ reads = FL!EmptyBag
    BY KeyFacts
  <2>2. listed = FL!List(Directory) /\ (cursor = 1 \/ cursor \in DOMAIN FL!List(Directory))
    BY <2>1 DEF FolderInv, FolderCalm, FolderPlaces
  <2> QED
    BY <1>2, <2>2
<1>5. FolderCalm'
  <2>1. FL!EmptyBag' = FL!EmptyBag /\ FL!SetToBag({Directory})' = FL!SetToBag({Directory})
    BY DEF FL!EmptyBag, FL!SetToBag
  <2> QED
    BY <2>1, FolderStands, KeyFacts DEF FolderInv, FolderCalm
<1>6. FolderPlaces'
  BY <1>4, FolderStands, KeyFacts DEF FolderInv, FolderPlaces
<1> QED
  BY <1>3, <1>5, <1>6 DEF FolderInv

\* Enter on a file chooses it, and it is there.
LEMMA EnterFile ==
  ASSUME FolderInv, FL!Pressed, cursor \in DOMAIN listed, ~listed[cursor].dir,
         chosen' = Append(Directory, listed[cursor].name),
         UNCHANGED <<tree, Directory, listed, cursor, viewStack, reads, outside, dotted>>
  PROVE  FolderInv'
<1> DEFINE x == listed[cursor].name
<1>1. Directory \in Seq(FL!Names) /\ listed[cursor] \in File0 /\ x \in FL!Names
  <2>1. listed \in Seq(File0)
    BY DEF FolderInv, FolderTypes
  <2>2. listed[cursor] \in File0
    BY <2>1
  <2> QED
    BY <2>2 DEF FolderInv, FolderTypes, File0
<1>2. Append(Directory, x) \in Seq(FL!Names) /\ FL!Parent(Append(Directory, x)) = Directory
      /\ FL!Last(Append(Directory, x)) = x
  BY <1>1, Below
<1>3. FolderTypes'
  <2>1. FL!IsABag(reads)'
    BY ReadTypes
  <2> QED
    BY <1>2, <2>1, KeyFacts DEF FolderInv, FolderTypes
<1>4. ~hasty' /\ FL!Still => IsThere(chosen)'
  <2> SUFFICES ASSUME ~hasty', FL!Still PROVE IsThere(chosen)'
    OBVIOUS
  <2>1. listed[cursor] # FL!Up
    BY DEF FL!Up
  <2>2. \E l \in DOMAIN tree[Directory].files : tree[Directory].files[l] = x
    BY <2>1, KeyFacts, ListedHere
  <2>3. FL!Parent(chosen)' = Directory /\ FL!Last(chosen)' = x
    BY <1>2 DEF FL!Parent, FL!Root, FL!Front, FL!Last
  <2> QED
    BY <2>2, <2>3 DEF IsThere
<1>5. FolderCalm'
  <2>1. FL!EmptyBag' = FL!EmptyBag /\ FL!SetToBag({Directory})' = FL!SetToBag({Directory})
    BY DEF FL!EmptyBag, FL!SetToBag
  <2> QED
    BY <1>4, <2>1, FolderStands, KeyFacts DEF FolderInv, FolderCalm
<1>6. FolderPlaces'
  BY FolderStands, KeyFacts DEF FolderInv, FolderPlaces
<1> QED
  BY <1>3, <1>5, <1>6 DEF FolderInv

\* Enter on a directory puts the cursor on the stack, at the name one goes to.
LEMMA EnterFolder ==
  ASSUME FolderInv, FL!Pressed, cursor \in DOMAIN listed, listed[cursor].dir,
         Directory' = FL!Join(Directory, listed[cursor].name),
         viewStack' = Append(viewStack, cursor), cursor' = 1, FL!Read(Directory'),
         dotted' = (dotted \/ listed[cursor] = FL!Up),
         UNCHANGED <<tree, listed, chosen, outside>>
  PROVE  FolderInv'
<1> DEFINE f == listed[cursor]
<1>1. /\ Directory \in Seq(FL!Names) /\ f \in File0 /\ f.name \in FL!Names
      /\ viewStack \in Seq(Nat \ {0}) /\ cursor \in Nat \ {0}
  <2>1. listed \in Seq(File0)
    BY DEF FolderInv, FolderTypes
  <2>2. listed[cursor] \in File0
    BY <2>1
  <2> QED
    BY <2>2 DEF FolderInv, FolderTypes, File0
<1>2. Directory' \in Seq(FL!Names)
  <2>1. CASE f.name = ".."
    <3>1. Directory' = FL!Parent(Directory)
      BY <2>1 DEF FL!Join
    <3>2. FL!Parent(Directory) \in Seq(FL!Names)
      BY <1>1, Above DEF FL!Parent, FL!Root
    <3> QED
      BY <3>1, <3>2
  <2>2. CASE f.name # ".."
    <3>1. Directory' = Append(Directory, f.name)
      BY <2>2 DEF FL!Join
    <3> QED
      BY <1>1, <3>1, Below
  <2> QED
    BY <2>1, <2>2
<1>3. FolderTypes'
  <2>1. FL!IsABag(reads)'
    BY ReadTypes
  <2>2. viewStack' \in Seq(Nat \ {0})
    BY <1>1, Below
  <2>3. dotted' \in BOOLEAN
    OBVIOUS
  <2>4. cursor' \in Nat \ {0}
    OBVIOUS
  <2> QED
    BY <1>2, <2>1, <2>2, <2>3, <2>4, KeyFacts DEF FolderInv, FolderTypes
<1>4. ~hasty' => reads' = FL!SetToBag({Directory'})
  BY ReadTypes, KeyFacts, ListBags
<1>5. ~hasty' /\ FL!Still => Directory' \in DOMAIN FileTree
  <2> SUFFICES ASSUME ~hasty', FL!Still PROVE Directory' \in DOMAIN FileTree
    OBVIOUS
  <2>1. Directory \in DOMAIN FileTree
        /\ \/ f = FL!Up
           \/ f.name # ".." /\ Append(Directory, f.name) \in DOMAIN FileTree
    BY KeyFacts, ListedHere
  <2>2. FL!Parent(Directory) \in DOMAIN FileTree
    BY <2>1, TreeShape
  <2>3. FL!Up.name = ".."
    BY DEF FL!Up
  <2> QED
    BY <2>1, <2>2, <2>3 DEF FL!Join
<1>6. FL!Still' = FL!Still /\ FL!EmptyBag' = FL!EmptyBag
      /\ FL!SetToBag({Directory})' = FL!SetToBag({Directory'})
  BY DEF FL!Still, FL!EmptyBag, FL!SetToBag
<1>7. FolderCalm'
  BY <1>4, <1>5, <1>6, ListBags, KeyFacts DEF FolderCalm
<1>8. ~hasty' /\ ~dotted' /\ FL!Still => Restored'
  <2> SUFFICES ASSUME ~hasty', ~dotted', FL!Still PROVE Restored'
    OBVIOUS
  <2>1. ~hasty /\ ~dotted /\ reads = FL!EmptyBag /\ f # FL!Up
    BY KeyFacts
  <2>2. Restored /\ listed = FL!List(Directory)
    BY <2>1 DEF FolderInv, FolderPlaces, FolderCalm
  <2>3. Directory' = Append(Directory, f.name)
    BY <2>1, ListedHere DEF FL!Join
  <2>5. /\ Len(viewStack') = Len(viewStack) + 1 /\ Len(Directory') = Len(Directory) + 1
        /\ DOMAIN viewStack' = DOMAIN viewStack \cup {Len(viewStack) + 1}
        /\ \A n \in DOMAIN viewStack : viewStack'[n] = viewStack[n]
        /\ viewStack'[Len(viewStack) + 1] = cursor
    BY <1>1, <2>3, Below
  <2>6. /\ \A n \in DOMAIN Directory : Directory'[n] = Directory[n]
                                       /\ SubSeq(Directory', 1, n - 1) = SubSeq(Directory, 1, n - 1)
        /\ SubSeq(Directory', 1, Len(Directory)) = Directory /\ Directory'[Len(Directory) + 1] = f.name
    BY <1>1, <2>3, Below
  <2>7. /\ Len(viewStack) = Len(Directory) /\ Len(Directory) \in Nat
        /\ DOMAIN viewStack = 1..Len(viewStack) /\ DOMAIN Directory = 1..Len(Directory)
    BY <1>1, <2>2 DEF Restored
  <2>8. ASSUME NEW n \in DOMAIN viewStack'
        PROVE  LET l == FL!List(SubSeq(Directory', 1, n - 1)) IN
               viewStack'[n] \in DOMAIN l /\ l[viewStack'[n]].name = Directory'[n]
    <3>1. CASE n \in DOMAIN viewStack
      <4>1. /\ SubSeq(Directory', 1, n - 1) = SubSeq(Directory, 1, n - 1)
            /\ Directory'[n] = Directory[n] /\ viewStack'[n] = viewStack[n]
        BY <3>1, <2>5, <2>6, <2>7
      <4>2. LET l == FL!List(SubSeq(Directory, 1, n - 1)) IN
            viewStack[n] \in DOMAIN l /\ l[viewStack[n]].name = Directory[n]
        BY <3>1, <2>2 DEF Restored
      <4> QED
        BY <4>1, <4>2
    <3>2. CASE n = Len(viewStack) + 1
      <4>1. n - 1 = Len(Directory) /\ n = Len(Directory) + 1
        BY <3>2, <2>7
      <4>2. SubSeq(Directory', 1, n - 1) = Directory /\ Directory'[n] = f.name /\ viewStack'[n] = cursor
        BY <4>1, <3>2, <2>5, <2>6
      <4> QED
        BY <4>2, <2>2
    <3> QED
      BY <3>1, <3>2, <2>5
  <2>9. ASSUME NEW n \in DOMAIN viewStack'
        PROVE  LET l == FL!List(SubSeq(Directory, 1, n - 1))' IN
               viewStack'[n] \in DOMAIN l /\ l[viewStack'[n]].name = Directory'[n]
    BY <2>8, ZenonT(60) DEF FL!List, FL!EntriesOf, FL!Root, FL!Up
  <2> QED
    BY <2>5, <2>7, <2>9 DEF Restored
<1>9. FolderPlaces'
  BY <1>6, <1>8, KeyFacts DEF FolderPlaces
<1> QED
  BY <1>3, <1>7, <1>9 DEF FolderInv

\* Enter is on one of the three.
LEMMA EnterKept == ASSUME FolderInv, FL!Enter PROVE FolderInv'
<1>1. FL!Pressed /\ listed # <<>> /\ UNCHANGED <<tree, listed>>
  BY DEF FL!Enter
<1>2. DOMAIN listed = 1..Len(listed) /\ cursor \in Nat \ {0} /\ Len(listed) \in Nat
  BY DEF FolderInv, FolderTypes
<1>3. CASE cursor > Len(listed)
  BY <1>1, <1>3, EnterPast DEF FL!Enter
<1>4. CASE ~(cursor > Len(listed)) /\ listed[cursor].dir
  <2>1. cursor \in DOMAIN listed
    BY <1>2, <1>4
  <2>2. /\ Directory' = FL!Join(Directory, listed[cursor].name)
        /\ viewStack' = Append(viewStack, cursor) /\ cursor' = 1 /\ FL!Read(Directory')
        /\ dotted' = (dotted \/ listed[cursor] = FL!Up)
        /\ UNCHANGED <<tree, listed, chosen, outside>>
    BY <1>4 DEF FL!Enter
  <2> QED
    BY <1>1, <1>4, <2>1, <2>2, EnterFolder
<1>5. CASE ~(cursor > Len(listed)) /\ ~listed[cursor].dir
  <2>1. cursor \in DOMAIN listed
    BY <1>2, <1>5
  <2>2. /\ chosen' = Append(Directory, listed[cursor].name)
        /\ UNCHANGED <<tree, Directory, listed, cursor, viewStack, reads, outside, dotted>>
    BY <1>5 DEF FL!Enter
  <2> QED
    BY <1>1, <1>5, <2>1, <2>2, EnterFile
<1> QED
  BY <1>3, <1>4, <1>5

\* Backspace takes the cursor off the stack, which is within the list of the directory above.
LEMMA BackKept == ASSUME FolderInv, FL!Back PROVE FolderInv'
<1>0. /\ FL!Pressed /\ viewStack # <<>>
      /\ cursor' = FL!Last(viewStack) /\ viewStack' = FL!Front(viewStack)
      /\ Directory' = FL!Parent(Directory) /\ FL!Read(Directory')
      /\ UNCHANGED <<tree, listed, chosen, outside, dotted>>
  BY DEF FL!Back
<1>1. Directory \in Seq(FL!Names) /\ viewStack \in Seq(Nat \ {0})
  BY DEF FolderInv, FolderTypes
<1>2. Directory' \in Seq(FL!Names)
  BY <1>0, <1>1, Above DEF FL!Parent, FL!Root
<1>3. FolderTypes'
  <2>1. FL!IsABag(reads)'
    BY <1>0, ReadTypes
  <2>2. viewStack' \in Seq(Nat \ {0}) /\ cursor' \in Nat \ {0}
    BY <1>0, <1>1, Above
  <2> QED
    BY <1>0, <1>2, <2>1, <2>2, KeyFacts DEF FolderInv, FolderTypes
<1>4. ~hasty' => reads' = FL!SetToBag({Directory'})
  BY <1>0, ReadTypes, KeyFacts, ListBags
<1>5. ~hasty' /\ FL!Still => Directory' \in DOMAIN FileTree
  BY <1>0, KeyFacts, TreeShape DEF FolderInv, FolderCalm
<1>6. FL!Still' = FL!Still /\ FL!EmptyBag' = FL!EmptyBag
      /\ FL!SetToBag({Directory})' = FL!SetToBag({Directory'})
  BY <1>0 DEF FL!Still, FL!EmptyBag, FL!SetToBag
<1>7. FolderCalm'
  BY <1>0, <1>4, <1>5, <1>6, ListBags, KeyFacts DEF FolderCalm
<1>8. ~hasty' /\ ~dotted' /\ FL!Still => Restored' /\ cursor' \in DOMAIN FL!List(Directory)'
  <2> SUFFICES ASSUME ~hasty', ~dotted', FL!Still PROVE Restored' /\ cursor' \in DOMAIN FL!List(Directory)'
    OBVIOUS
  <2>1. Restored
    BY <1>0, KeyFacts DEF FolderInv, FolderPlaces
  <2>2. Len(viewStack) = Len(Directory) /\ Directory # <<>>
    BY <1>0, <1>1, <2>1, EmptySeq DEF Restored
  <2>3. Directory' = FL!Front(Directory)
    BY <1>0, <2>2 DEF FL!Parent, FL!Root
  <2>4. /\ Len(viewStack') = Len(viewStack) - 1 /\ DOMAIN viewStack' \subseteq DOMAIN viewStack
        /\ Len(viewStack) \in DOMAIN viewStack /\ cursor' = viewStack[Len(viewStack)]
        /\ DOMAIN viewStack' = 1..(Len(viewStack) - 1)
        /\ \A n \in DOMAIN viewStack' : viewStack'[n] = viewStack[n]
    <3> DEFINE front == FL!Front(viewStack)
    <3>1. /\ Len(front) = Len(viewStack) - 1 /\ DOMAIN front \subseteq DOMAIN viewStack
          /\ Len(viewStack) \in DOMAIN viewStack /\ FL!Last(viewStack) = viewStack[Len(viewStack)]
          /\ DOMAIN front = 1..(Len(viewStack) - 1)
          /\ \A n \in DOMAIN front : front[n] = viewStack[n]
      BY <1>0, <1>1, Above, ZenonT(30)
    <3>2. viewStack' = front /\ cursor' = FL!Last(viewStack)
      BY <1>0
    <3> HIDE DEF front
    <3> QED
      BY <3>1, <3>2
  <2>5. /\ Len(Directory') = Len(Directory) - 1 /\ Directory' = SubSeq(Directory, 1, Len(Directory) - 1)
        /\ DOMAIN Directory' = 1..(Len(Directory) - 1)
        /\ \A n \in DOMAIN Directory' :
             Directory'[n] = Directory[n] /\ SubSeq(Directory', 1, n - 1) = SubSeq(Directory, 1, n - 1)
    BY <1>1, <2>2, <2>3, Above
  <2>6. ASSUME NEW e PROVE FL!List(e)' = FL!List(e')
    BY <1>0 DEF FL!List, FL!EntriesOf, FL!Root, FL!Up
  <2>7. FL!List(Directory)' = FL!List(Directory')
    BY <1>0 DEF FL!List, FL!EntriesOf, FL!Root, FL!Up
  <2>8. cursor' \in DOMAIN FL!List(Directory')
    <3>1. LET l == FL!List(SubSeq(Directory, 1, Len(viewStack) - 1)) IN
          viewStack[Len(viewStack)] \in DOMAIN l
      BY <2>1, <2>4 DEF Restored
    <3> QED
      BY <3>1, <2>2, <2>4, <2>5
  <2>9. ASSUME NEW n \in DOMAIN viewStack'
        PROVE  LET l == FL!List(SubSeq(Directory', 1, n - 1)) IN
               viewStack'[n] \in DOMAIN l /\ l[viewStack'[n]].name = Directory'[n]
    <3>1. n \in DOMAIN viewStack /\ n \in DOMAIN Directory'
      BY <2>2, <2>4, <2>5
    <3>2. /\ SubSeq(Directory', 1, n - 1) = SubSeq(Directory, 1, n - 1)
          /\ Directory'[n] = Directory[n] /\ viewStack'[n] = viewStack[n]
      BY <3>1, <2>4, <2>5
    <3>3. LET l == FL!List(SubSeq(Directory, 1, n - 1)) IN
          viewStack[n] \in DOMAIN l /\ l[viewStack[n]].name = Directory[n]
      BY <2>1, <3>1 DEF Restored
    <3> QED
      BY <3>2, <3>3
  <2>10. ASSUME NEW n \in DOMAIN viewStack'
         PROVE  LET l == FL!List(SubSeq(Directory, 1, n - 1))' IN
                viewStack'[n] \in DOMAIN l /\ l[viewStack'[n]].name = Directory'[n]
    BY <1>0, <2>9, ZenonT(60) DEF FL!List, FL!EntriesOf, FL!Root, FL!Up
  <2>11. Restored'
    BY <2>2, <2>4, <2>5, <2>10 DEF Restored
  <2> QED
    BY <2>7, <2>8, <2>11
<1>9. FolderPlaces'
  BY <1>0, <1>6, <1>8, KeyFacts DEF FolderPlaces
<1> QED
  BY <1>3, <1>7, <1>9 DEF FolderInv

\* After a removal nothing is claimed but the types.
LEMMA VanishKept == ASSUME FolderInv, NEW d \in DOMAIN FileTree, FL!Vanish(d) PROVE FolderInv'
<1>1. /\ tree[d].files # <<>> /\ tree' = [tree EXCEPT ![d].files = Tail(@)]
      /\ UNCHANGED <<Directory, listed, cursor, viewStack, reads, chosen, outside, hasty, dotted>>
  BY DEF FL!Vanish
<1>2. /\ tree \in [DOMAIN FileTree -> [files : Seq(Plain), dirs : Seq(Plain)]]
      /\ \A e \in DOMAIN FileTree : Len(tree[e].files) <= Len(FileTree[e].files)
  BY DEF FolderInv, FolderTypes
<1>3. tree[d].files \in Seq(Plain) /\ FileTree[d].files \in Seq(Plain)
  BY <1>2, TreeShape
<1>4. Tail(tree[d].files) \in Seq(Plain) /\ Len(Tail(tree[d].files)) = Len(tree[d].files) - 1
      /\ Len(tree[d].files) \in Nat /\ Len(FileTree[d].files) \in Nat
  BY <1>1, <1>3
<1>5. tree' \in [DOMAIN FileTree -> [files : Seq(Plain), dirs : Seq(Plain)]]
      /\ tree'[d].files = Tail(tree[d].files) /\ \A e \in DOMAIN FileTree \ {d} : tree'[e] = tree[e]
  BY <1>1, <1>2, <1>4
<1>6. Len(tree'[d].files) < Len(FileTree[d].files) /\ Len(tree'[d].files) <= Len(FileTree[d].files)
  <2>1. Len(tree'[d].files) = Len(tree[d].files) - 1
    BY <1>4, <1>5
  <2>2. Len(tree[d].files) <= Len(FileTree[d].files)
    BY <1>2
  <2> QED
    BY <1>4, <2>1, <2>2
<1>10. ASSUME NEW e \in DOMAIN FileTree PROVE Len(tree'[e].files) <= Len(FileTree[e].files)
  <2>1. CASE e = d
    BY <1>6, <2>1
  <2>2. CASE e # d
    BY <1>2, <1>5, <2>2
  <2> QED
    BY <2>1, <2>2
<1>7. ~FL!Still'
  <2>1. tree' # FileTree
    BY <1>4, <1>6
  <2> QED
    BY <2>1 DEF FL!Still
<1>8. FL!IsABag(reads)' /\ FL!EmptyBag' = FL!EmptyBag /\ FL!SetToBag({Directory})' = FL!SetToBag({Directory})
  <2>1. FL!IsABag(reads)'
    BY <1>1, ReadTypes
  <2> QED
    BY <1>1, <2>1 DEF FL!EmptyBag, FL!SetToBag
<1>9. FolderTypes'
  BY <1>1, <1>5, <1>8, <1>10 DEF FolderInv, FolderTypes
<1> QED
  BY <1>1, <1>7, <1>8, <1>9 DEF FolderInv, FolderCalm, FolderPlaces

\* Every action keeps the invariant of the list.
LEMMA FolderStep == ASSUME FolderInv, FL!Next PROVE FolderInv'
BY CursorKeys, EnterKept, BackKept, PopulateKept, VanishKept DEF FL!Next

\* The invariant of the list implies what the run checks.
LEMMA FolderTells ==
  FolderInv => FL!TypeOK /\ FL!ListIsOfDirectory /\ FL!BackRestores /\ FL!PanicNeedsCause
<1> SUFFICES ASSUME FolderInv PROVE FL!TypeOK /\ FL!ListIsOfDirectory /\ FL!BackRestores /\ FL!PanicNeedsCause
  OBVIOUS
<1>1. FL!TypeOK
  <2>1. viewStack \in Seq(Nat \ {0})
    BY DEF FolderInv, FolderTypes
  <2>2. viewStack \in Seq(Nat)
    BY <2>1
  <2> QED
    BY <2>2 DEF FolderInv, FolderTypes, FL!TypeOK
<1>2. FL!ListIsOfDirectory
  BY DEF FolderInv, FolderCalm, FL!ListIsOfDirectory, IsThere
<1>3. FL!BackRestores
  BY DEF FolderInv, FolderPlaces, Restored, FL!BackRestores
<1> QED
  BY <1>1, <1>2, <1>3 DEF FolderInv, FolderPlaces, FL!PanicNeedsCause

-----------------------------------------------------------------------------
\* The invariant of the wizard.
ChildRecord ==
  [par : DOMAIN ParamKind \union {WZ!Nothing},
   draft : {WZ!Nothing} \union UNION {ParamValues[p] : p \in DOMAIN ParamKind},
   was : {WZ!Nothing} \union UNION {ParamValues[p] : p \in DOMAIN ParamKind},
   asking : BOOLEAN, id : Nat]
ConfigRecord == [line : Nat \ {0}, child : ChildRecord, focused : BOOLEAN, id : Nat]
\* The window of a parameter has a parameter, and values of it.
HasParam(x) ==
  x # WZ!Closed => /\ x.par \in DOMAIN ParamKind /\ x.par # WZ!Nothing
                   /\ x.draft \in ParamValues[x.par] /\ x.was \in ParamValues[x.par]
\* What a message may hold.
IsLetter(m) ==
  \/ m.type = "close" /\ m.wnd \in {"cfgui", "updater"}
  \/ /\ m.type = "set"
     /\ \/ m.wnd = "bool" /\ m.v \in {"on", "off"}
        \/ m.wnd = "date" /\ m.v = "now"
        \/ m.wnd = "form" /\ m.v \in {"yes", "no"}
        \/ m.wnd = "filepick" /\ \A p \in DOMAIN ParamKind : ParamKind[p] = "filepick" => m.v \in ParamValues[p]
Drawn(x, c) == x.child # WZ!Closed => x.child.par = WZ!Drawn(c, x.line)
InWindow(x, c) == x.line \in 1..(WZ!LastLine(c) + LinesBeyond) /\ HasParam(x.child) /\ Drawn(x, c)

WizTypes ==
  /\ DOMAIN value = DOMAIN ParamKind /\ \A p \in DOMAIN ParamKind : value[p] \in ParamValues[p]
  /\ cursor \in DOMAIN MenuItems /\ MenuItems[cursor] # "separator"
  /\ selected \in {WZ!NoItem, WZ!Cancelled} \union DOMAIN MenuItems
  /\ focused \in BOOLEAN /\ hasty \in BOOLEAN /\ stray \in BOOLEAN
  /\ opened \in 0..WindowBound
  /\ cfg \in [WZ!Configs -> ConfigRecord] /\ \A c \in WZ!Configs : InWindow(cfg[c], c)
WizMail == WZ!IsABag(mail) /\ \A m \in DOMAIN mail : IsLetter(m)
WizFocus ==
  /\ ~focused => cursor \in WZ!Configs
  /\ \A c \in WZ!Configs :
       /\ cfg[c].focused <=> (~focused /\ c = cursor)
       /\ cfg[c].child # WZ!Closed => cfg[c].focused

\* Of keys that have waited: the one message on its way is of the window that is open; a name, or a text, that
\* differs from what it was is about to be closed.
IsOf(m, x) == m.id = IF m.wnd = "cfgui" THEN x.id ELSE x.child.id
Differs(x, v) ==
  /\ x.child # WZ!Closed /\ ParamKind[x.child.par] \in {"text", "new"}
  /\ v[x.child.par] # x.child.was
Parting(x) == WZ!SetToBag({WZ!Close("updater", x.child.id)})
WizCalm ==
  ~hasty =>
    /\ mail = WZ!EmptyBag \/ \E m : mail = WZ!SetToBag({m}) /\ ~focused /\ IsOf(m, cfg[cursor])
    /\ ~focused /\ Differs(cfg[cursor], value) => mail = Parting(cfg[cursor])
WizTold == (stray => hasty) /\ (hasty \/ spoiled \subseteq {"date", "filepick"})
WizInv == WizTypes /\ WizMail /\ WizFocus /\ WizCalm /\ WizTold

\* Messages on their way, one more or one less.
LEMMA MailBags ==
  /\ \A m : WZ!SetToBag({m}) # WZ!EmptyBag /\ DOMAIN WZ!SetToBag({m}) = {m}
  /\ DOMAIN WZ!EmptyBag = {} /\ WZ!IsABag(WZ!EmptyBag)
  /\ \A m : WZ!(+)(WZ!EmptyBag, WZ!SetToBag({m})) = WZ!SetToBag({m})
  /\ \A m : WZ!(-)(WZ!SetToBag({m}), WZ!SetToBag({m})) = WZ!EmptyBag
  /\ \A b, m : WZ!BagIn(m, b) => m \in DOMAIN b
<1>1. \A m : DOMAIN WZ!SetToBag({m}) = {m} /\ DOMAIN WZ!EmptyBag = {} /\ WZ!SetToBag({m})[m] = 1
  BY DEF WZ!SetToBag, WZ!EmptyBag
<1>2. \A m : WZ!(+)(WZ!EmptyBag, WZ!SetToBag({m})) = WZ!SetToBag({m})
  BY DEF WZ!SetToBag, WZ!EmptyBag, WZ!(+)
<1>3. \A m : WZ!(-)(WZ!SetToBag({m}), WZ!SetToBag({m})) = WZ!EmptyBag
  BY DEF WZ!SetToBag, WZ!EmptyBag, WZ!(-)
<1>4. \A m : WZ!SetToBag({m}) # WZ!EmptyBag
  BY <1>1
<1>5. \A b, m : WZ!BagIn(m, b) => m \in DOMAIN b
  BY DEF WZ!BagIn, WZ!BagToSet
<1>6. WZ!IsABag(WZ!EmptyBag)
  BY DEF WZ!IsABag, WZ!EmptyBag, WZ!SetToBag
<1> QED
  BY <1>1, <1>2, <1>3, <1>4, <1>5, <1>6

\* They are bags.
LEMMA MailTypes ==
  ASSUME NEW b, WZ!IsABag(b), \A x \in DOMAIN b : IsLetter(x), NEW m
  PROVE  /\ IsLetter(m) => /\ WZ!IsABag(WZ!(+)(b, WZ!SetToBag({m})))
                           /\ \A x \in DOMAIN WZ!(+)(b, WZ!SetToBag({m})) : IsLetter(x)
         /\ WZ!IsABag(WZ!(-)(b, WZ!SetToBag({m})))
         /\ \A x \in DOMAIN WZ!(-)(b, WZ!SetToBag({m})) : IsLetter(x)
<1>1. \A x \in DOMAIN b : b[x] \in Nat /\ b[x] > 0
  BY DEF WZ!IsABag
<1>2. WZ!IsABag(WZ!(+)(b, WZ!SetToBag({m}))) /\ DOMAIN WZ!(+)(b, WZ!SetToBag({m})) = DOMAIN b \cup {m}
  BY <1>1 DEF WZ!IsABag, WZ!SetToBag, WZ!(+)
<1>3. WZ!IsABag(WZ!(-)(b, WZ!SetToBag({m}))) /\ DOMAIN WZ!(-)(b, WZ!SetToBag({m})) \subseteq DOMAIN b
  BY <1>1 DEF WZ!IsABag, WZ!SetToBag, WZ!(-)
<1> QED
  BY <1>2, <1>3

\* The constants.
LEMMA WindowFacts ==
  /\ \A c \in WZ!Configs :
       /\ c \in DOMAIN MenuItems /\ WZ!LastLine(c) \in Nat \ {0}
       /\ \A k \in 1..(WZ!LastLine(c) + LinesBeyond) :
            WZ!Locate(c, k) = WZ!Drawn(c, k) /\ WZ!Drawn(c, k) \in DOMAIN ParamKind \union {WZ!Nothing}
  /\ LinesBeyond \in Nat /\ WindowBound \in Nat
  /\ MenuItems # <<>> /\ DOMAIN MenuItems = 1..Len(MenuItems) /\ Len(MenuItems) \in Nat \ {0}
  /\ MenuItems[1] # "separator" /\ MenuItems[Len(MenuItems)] # "separator"
  /\ \A p, q \in DOMAIN ParamKind :
       ParamKind[p] = "filepick" /\ ParamKind[q] = "filepick" => ParamValues[p] = ParamValues[q]
  /\ \A p \in DOMAIN ParamKind :
       /\ ParamKind[p] = "bool" => {"on", "off"} \subseteq ParamValues[p]
       /\ ParamKind[p] = "date" => {"zero", "now"} \subseteq ParamValues[p]
  /\ \A s \in ParamStarts :
       DOMAIN s = DOMAIN ParamKind /\ \A p \in DOMAIN ParamKind : s[p] \in ParamValues[p]
<1>1. MenuItems # <<>> /\ DOMAIN MenuItems = 1..Len(MenuItems) /\ Len(MenuItems) \in Nat \ {0}
  <2>1. MenuItems \in Seq({"config", "run", "separator", "exit"}) /\ MenuItems # <<>>
    BY WindowsAssumption
  <2> QED
    BY <2>1, EmptySeq
<1>2. LinesBeyond \in Nat /\ WindowBound \in Nat
      /\ MenuItems[1] # "separator" /\ MenuItems[Len(MenuItems)] # "separator"
  BY WindowsAssumption
<1>3. \A p, q \in DOMAIN ParamKind :
        ParamKind[p] = "filepick" /\ ParamKind[q] = "filepick" => ParamValues[p] = ParamValues[q]
  BY WindowsAssumption
<1>4. \A p \in DOMAIN ParamKind :
       /\ ParamKind[p] = "bool" => {"on", "off"} \subseteq ParamValues[p]
       /\ ParamKind[p] = "date" => {"zero", "now"} \subseteq ParamValues[p]
  BY WindowsAssumption
<1>5. \A s \in ParamStarts :
       DOMAIN s = DOMAIN ParamKind /\ \A p \in DOMAIN ParamKind : s[p] \in ParamValues[p]
  BY WindowsAssumption
<1>6. \A c \in WZ!Configs : c \in DOMAIN MenuItems
  BY DEF WZ!Configs
<1> QED
  BY <1>1, <1>2, <1>3, <1>4, <1>5, <1>6, LinesAssumption

\* A window as it is first shown.
LEMMA NewWindow ==
  ASSUME NEW k \in Nat \ {0}
  PROVE  /\ WZ!NewConfig(k) \in ConfigRecord /\ WZ!NewConfig(k).child = WZ!Closed
         /\ WZ!NewConfig(k).line = k /\ ~WZ!NewConfig(k).focused
         /\ \A c \in WZ!Configs : k \in 1..(WZ!LastLine(c) + LinesBeyond) => InWindow(WZ!NewConfig(k), c)
<1>1. WZ!Closed \in ChildRecord
  BY DEF WZ!Closed, ChildRecord
<1>2. /\ WZ!NewConfig(k) \in ConfigRecord /\ WZ!NewConfig(k).child = WZ!Closed
      /\ WZ!NewConfig(k).line = k /\ WZ!NewConfig(k).focused = FALSE
  BY <1>1 DEF WZ!NewConfig, ConfigRecord
<1>3. \A c \in WZ!Configs : k \in 1..(WZ!LastLine(c) + LinesBeyond) => InWindow(WZ!NewConfig(k), c)
  BY <1>2 DEF InWindow, HasParam, Drawn
<1> QED
  BY <1>2, <1>3

\* The wizard starts on its menu, with no window open and nothing under way.
LEMMA WizStart == ASSUME WZ!Init PROVE WizInv
<1>1. /\ value \in ParamStarts /\ cursor = 1 /\ focused = TRUE /\ selected = WZ!NoItem
      /\ cfg = [c \in WZ!Configs |-> WZ!NewConfig(1)]
      /\ mail = WZ!EmptyBag /\ opened = 0 /\ hasty = FALSE /\ stray = FALSE /\ spoiled = {}
  BY DEF WZ!Init
<1>2. /\ DOMAIN value = DOMAIN ParamKind /\ \A p \in DOMAIN ParamKind : value[p] \in ParamValues[p]
  BY <1>1, WindowFacts
<1>10. /\ DOMAIN MenuItems = 1..Len(MenuItems) /\ Len(MenuItems) \in Nat \ {0} /\ MenuItems[1] # "separator"
       /\ LinesBeyond \in Nat /\ WindowBound \in Nat
  BY WindowFacts
<1>3. cursor \in DOMAIN MenuItems /\ MenuItems[cursor] # "separator"
  BY <1>1, <1>10
<1>4. focused \in BOOLEAN /\ hasty \in BOOLEAN /\ stray \in BOOLEAN
  BY <1>1, Zenon
<1>5. \A c \in WZ!Configs : 1 \in 1..(WZ!LastLine(c) + LinesBeyond)
  <2> TAKE c \in WZ!Configs
  <2>1. WZ!LastLine(c) \in Nat \ {0}
    BY WindowFacts
  <2> QED
    BY <1>10, <2>1
<1>6. cfg \in [WZ!Configs -> ConfigRecord] /\ \A c \in WZ!Configs : InWindow(cfg[c], c)
  BY <1>1, <1>5, NewWindow
<1>7. WizTypes
  <2>1. opened \in 0..WindowBound
    BY <1>1, <1>10
  <2> QED
    BY <1>1, <1>2, <1>3, <1>4, <1>6, <2>1 DEF WizTypes
<1>8. \A c \in WZ!Configs : ~cfg[c].focused /\ cfg[c].child = WZ!Closed
  BY <1>1, NewWindow
<1>9. WizMail
  BY <1>1, MailBags DEF WizMail
<1> QED
  BY <1>1, <1>7, <1>8, <1>9 DEF WizInv, WizFocus, WizCalm, WizTold

\* A key that finds no message on its way.
LEMMA QuickKey ==
  ASSUME WizInv, WZ!Pressed
  PROVE  /\ hasty' \in BOOLEAN /\ stray' = stray /\ selected = WZ!NoItem
         /\ ~hasty' => ~hasty /\ mail = WZ!EmptyBag
BY DEF WizInv, WizTypes, WZ!Pressed

\* A key in a configuration window: what the window is then, and the message that it may send.
LEMMA WindowKept ==
  ASSUME WizInv, WZ!Pressed, NEW c \in WZ!Configs, cfg[c].focused,
         NEW x \in ConfigRecord, x.focused, InWindow(x, c), cfg' = [cfg EXCEPT ![c] = x],
         DOMAIN value' = DOMAIN ParamKind, \A p \in DOMAIN ParamKind : value'[p] \in ParamValues[p],
         opened' \in 0..WindowBound,
         \/ mail' = mail
         \/ \E m : mail' = WZ!(+)(mail, WZ!SetToBag({m})) /\ IsLetter(m) /\ IsOf(m, x),
         Differs(x, value') => hasty' \/ mail' = WZ!(+)(mail, Parting(x)),
         hasty' \/ spoiled' \subseteq {"date", "filepick"},
         UNCHANGED <<cursor, focused, selected>>
  PROVE  WizInv'
<1>1. /\ ~focused /\ c = cursor /\ cfg \in [WZ!Configs -> ConfigRecord]
      /\ \A d \in WZ!Configs : (cfg[d].focused <=> d = cursor) /\ InWindow(cfg[d], d)
                               /\ (cfg[d].child # WZ!Closed => cfg[d].focused)
  BY DEF WizInv, WizTypes, WizFocus
<1>2. cfg' \in [WZ!Configs -> ConfigRecord] /\ cfg'[c] = x /\ \A d \in WZ!Configs \ {c} : cfg'[d] = cfg[d]
  BY <1>1
<1>3. \A d \in WZ!Configs : InWindow(cfg'[d], d)
  BY <1>1, <1>2
<1>4. WizTypes'
  BY <1>2, <1>3, QuickKey DEF WizInv, WizTypes, InWindow, HasParam, Drawn, WZ!Configs, WZ!NoItem, WZ!Cancelled,
     WZ!Closed, WZ!Drawn, WZ!LastLine, ConfigRecord, ChildRecord
<1>5. WizMail'
  <2>1. WZ!IsABag(mail) /\ \A y \in DOMAIN mail : IsLetter(y)
    BY DEF WizInv, WizMail
  <2>2. WZ!IsABag(mail') /\ \A y \in DOMAIN mail' : IsLetter(y)
    <3>1. CASE mail' = mail
      BY <2>1, <3>1
    <3>2. ASSUME NEW m, mail' = WZ!(+)(mail, WZ!SetToBag({m})), IsLetter(m)
          PROVE  WZ!IsABag(mail') /\ \A y \in DOMAIN mail' : IsLetter(y)
      BY <2>1, <3>2, MailTypes
    <3> QED
      BY <3>1, <3>2
  <2>3. WZ!IsABag(mail)' /\ \A y \in DOMAIN mail' : IsLetter(y)'
    BY <2>2 DEF WZ!IsABag, IsLetter
  <2> QED
    BY <2>3 DEF WizMail
<1>6. WizFocus'
  BY <1>1, <1>2 DEF WizFocus, WZ!Configs, WZ!Closed
<1>7. WizCalm'
  <2> SUFFICES ASSUME ~hasty' PROVE
        /\ mail' = WZ!EmptyBag' \/ \E m : mail' = WZ!SetToBag({m})' /\ ~focused' /\ IsOf(m, cfg[cursor])'
        /\ ~focused' /\ Differs(cfg[cursor], value)' => mail' = Parting(cfg[cursor])'
    BY DEF WizCalm
  <2>1. mail = WZ!EmptyBag /\ \A m : WZ!(+)(mail, WZ!SetToBag({m})) = WZ!SetToBag({m})
    BY QuickKey, MailBags
  <2>2. cfg[cursor]' = x /\ ~focused'
    BY <1>1, <1>2
  <2>3. mail' = WZ!EmptyBag \/ \E m : mail' = WZ!SetToBag({m}) /\ ~focused' /\ IsOf(m, x)
    BY <2>1, <2>2
  <2>4. Differs(x, value') => mail' = Parting(x)
    BY <2>1 DEF Parting
  <2>5. mail' = WZ!EmptyBag' \/ \E m : mail' = WZ!SetToBag({m})' /\ ~focused' /\ IsOf(m, cfg[cursor])'
    BY <2>2, <2>3 DEF WZ!EmptyBag, WZ!SetToBag, IsOf
  <2>6. Differs(cfg[cursor], value)' => mail' = Parting(cfg[cursor])'
    BY <2>2, <2>4 DEF Differs, Parting, WZ!Closed, WZ!SetToBag, WZ!Close
  <2> QED
    BY <2>5, <2>6
<1>8. WizTold'
  BY QuickKey DEF WizInv, WizTold, WZ!Pressed
<1> QED
  BY <1>4, <1>5, <1>6, <1>7, <1>8 DEF WizInv

\* The window in focus is the one at the cursor of the menu.
LEMMA FocusedWindow ==
  ASSUME WizInv, WZ!Pressed, NEW c \in WZ!Configs, cfg[c].focused
  PROVE  /\ cfg \in [WZ!Configs -> ConfigRecord] /\ cfg[c] \in ConfigRecord /\ cfg[c].child \in ChildRecord
         /\ InWindow(cfg[c], c) /\ c = cursor /\ ~focused
         /\ cfg[c].line \in 1..(WZ!LastLine(c) + LinesBeyond)
         /\ DOMAIN value = DOMAIN ParamKind /\ \A p \in DOMAIN ParamKind : value[p] \in ParamValues[p]
         /\ opened \in 0..WindowBound
         /\ ~hasty' => ~Differs(cfg[c], value)
         /\ hasty' \/ spoiled \subseteq {"date", "filepick"}
<1>1. /\ cfg \in [WZ!Configs -> ConfigRecord] /\ cfg[c] \in ConfigRecord /\ InWindow(cfg[c], c)
      /\ DOMAIN value = DOMAIN ParamKind /\ \A p \in DOMAIN ParamKind : value[p] \in ParamValues[p]
      /\ opened \in 0..WindowBound
  BY DEF WizInv, WizTypes
<1>2. c = cursor /\ ~focused
  BY DEF WizInv, WizFocus
<1>3. ~hasty' => ~Differs(cfg[c], value)
  BY <1>2, QuickKey, MailBags DEF WizInv, WizCalm, Parting
<1>4. hasty' \/ spoiled \subseteq {"date", "filepick"}
  BY QuickKey DEF WizInv, WizTold
<1>5. cfg[c].child \in ChildRecord /\ cfg[c].line \in 1..(WZ!LastLine(c) + LinesBeyond)
  BY <1>1 DEF ConfigRecord, InWindow
<1> QED
  BY <1>1, <1>2, <1>3, <1>4, <1>5

\* The keys of the configuration window, its parameter's window closed.
LEMMA ConfigMoveKept == ASSUME WizInv, NEW c \in WZ!Configs, WZ!ConfigMove(c) PROVE WizInv'
<1>1. /\ WZ!Pressed /\ cfg[c].focused /\ cfg[c].child = WZ!Closed
      /\ UNCHANGED <<value, cursor, focused, selected, mail, opened, spoiled>>
  BY DEF WZ!ConfigMove
<1>2. /\ WZ!LastLine(c) \in Nat \ {0} /\ LinesBeyond \in Nat
      /\ cfg[c].line \in 1..(WZ!LastLine(c) + LinesBeyond)
  BY <1>1, FocusedWindow, WindowFacts
<1>3. PICK k \in 1..(WZ!LastLine(c) + LinesBeyond) : cfg' = [cfg EXCEPT ![c].line = k]
  <2>1. CASE cfg' = [cfg EXCEPT ![c].line = IF cfg[c].line > 1 THEN cfg[c].line - 1 ELSE WZ!LastLine(c)]
    <3>1. (IF cfg[c].line > 1 THEN cfg[c].line - 1 ELSE WZ!LastLine(c)) \in 1..(WZ!LastLine(c) + LinesBeyond)
      BY <1>2
    <3> QED
      BY <2>1, <3>1
  <2>2. CASE cfg' = [cfg EXCEPT ![c].line = IF cfg[c].line < WZ!LastLine(c) THEN cfg[c].line + 1 ELSE 1]
    <3>1. (IF cfg[c].line < WZ!LastLine(c) THEN cfg[c].line + 1 ELSE 1) \in 1..(WZ!LastLine(c) + LinesBeyond)
      BY <1>2
    <3> QED
      BY <2>2, <3>1
  <2>3. CASE cfg' = [cfg EXCEPT ![c].line = WZ!LastLine(c)]
    <3>1. WZ!LastLine(c) \in 1..(WZ!LastLine(c) + LinesBeyond)
      BY <1>2
    <3> QED
      BY <2>3, <3>1
  <2>4. CASE \E digit \in 1..(WZ!LastLine(c) + LinesBeyond) : cfg' = [cfg EXCEPT ![c].line = digit]
    BY <2>4
  <2> QED
    BY <2>1, <2>2, <2>3, <2>4 DEF WZ!ConfigMove
<1> DEFINE x == [cfg[c] EXCEPT !.line = k]
<1>4. cfg[c] \in ConfigRecord /\ cfg \in [WZ!Configs -> ConfigRecord] /\ k \in Nat \ {0}
  BY <1>1, <1>2, FocusedWindow
<1>5. /\ x \in ConfigRecord /\ x.focused = cfg[c].focused /\ x.line = k /\ x.child = WZ!Closed
      /\ cfg' = [cfg EXCEPT ![c] = x]
  BY <1>1, <1>3, <1>4 DEF ConfigRecord
<1>6. x.focused /\ InWindow(x, c) /\ ~Differs(x, value')
  BY <1>1, <1>5 DEF InWindow, HasParam, Drawn, Differs
<1> HIDE DEF x
<1> QED
  BY <1>1, <1>5, <1>6, WindowKept, FocusedWindow

LEMMA ConfigSelectKept == ASSUME WizInv, NEW c \in WZ!Configs, WZ!ConfigSelect(c) PROVE WizInv'
<1> DEFINE p == WZ!Locate(c, cfg[c].line)
           id == opened + 1
           new == [par |-> p, draft |-> value[p], was |-> value[p], asking |-> FALSE, id |-> id]
           x == [cfg[c] EXCEPT !.child = new]
<1>1. /\ WZ!Pressed /\ cfg[c].focused /\ cfg[c].child = WZ!Closed
      /\ p # WZ!Nothing /\ opened < WindowBound /\ opened' = id
      /\ cfg' = [cfg EXCEPT ![c].child = new]
      /\ UNCHANGED <<value, cursor, focused, selected, spoiled>>
  BY DEF WZ!ConfigSelect
<1>2. p = WZ!Drawn(c, cfg[c].line) /\ p \in DOMAIN ParamKind /\ value[p] \in ParamValues[p]
      /\ opened \in 0..WindowBound /\ WindowBound \in Nat
  <2>1. cfg[c].line \in 1..(WZ!LastLine(c) + LinesBeyond) /\ opened \in 0..WindowBound
        /\ \A q \in DOMAIN ParamKind : value[q] \in ParamValues[q]
    BY <1>1, FocusedWindow
  <2>2. p = WZ!Drawn(c, cfg[c].line) /\ p \in DOMAIN ParamKind \cup {WZ!Nothing} /\ WindowBound \in Nat
    BY <2>1, WindowFacts
  <2> QED
    BY <1>1, <2>1, <2>2
<1>3. id \in Nat /\ id \in 0..WindowBound
  <2>1. opened < WindowBound
    BY <1>1
  <2>2. opened \in 0..WindowBound /\ WindowBound \in Nat
    BY <1>2
  <2>3. opened + 1 \in Nat /\ opened + 1 \in 0..WindowBound
    BY <2>1, <2>2
  <2> QED
    BY <2>3
<1>4. /\ \/ mail' = mail
         \/ \E v : mail' = WZ!(+)(mail, WZ!SetToBag({WZ!SetValue("bool", v, id)})) /\ v \in {"on", "off"}
         \/ mail' = WZ!(+)(mail, WZ!SetToBag({WZ!SetValue("date", "now", id)}))
  <2>1. CASE ParamKind[p] = "bool"
    <3>1. mail' = WZ!(+)(mail, WZ!SetToBag({WZ!SetValue("bool", IF value[p] = "on" THEN "off" ELSE "on", id)}))
      BY <2>1 DEF WZ!ConfigSelect, WZ!Send
    <3> QED
      BY <3>1
  <2>2. CASE ParamKind[p] = "date" /\ value[p] = "zero"
    BY <2>2 DEF WZ!ConfigSelect, WZ!Send
  <2>3. CASE ~(ParamKind[p] = "bool") /\ ~(ParamKind[p] = "date" /\ value[p] = "zero")
    BY <2>3 DEF WZ!ConfigSelect, WZ!Stay
  <2> QED
    BY <2>1, <2>2, <2>3
<1> HIDE DEF p, id
<1>5. new \in ChildRecord
  BY <1>2, <1>3 DEF ChildRecord
<1>6. /\ x \in ConfigRecord /\ x.focused = cfg[c].focused /\ x.line = cfg[c].line /\ x.child = new
      /\ cfg' = [cfg EXCEPT ![c] = x]
  <2>1. cfg[c] \in ConfigRecord /\ cfg \in [WZ!Configs -> ConfigRecord]
    BY <1>1, FocusedWindow
  <2> HIDE DEF new
  <2> QED
    BY <1>1, <1>5, <2>1 DEF ConfigRecord
<1>7. new.par = p /\ new.draft = value[p] /\ new.was = value[p] /\ new.id = id
  OBVIOUS
<1>8. cfg[c].line \in 1..(WZ!LastLine(c) + LinesBeyond)
  BY <1>1, FocusedWindow
<1> HIDE DEF new, x
<1>9. InWindow(x, c) /\ x.focused
  BY <1>1, <1>2, <1>6, <1>7, <1>8 DEF InWindow, HasParam, Drawn
<1>10. ~Differs(x, value')
  BY <1>1, <1>6, <1>7 DEF Differs
<1>11. \/ mail' = mail
       \/ \E m : mail' = WZ!(+)(mail, WZ!SetToBag({m})) /\ IsLetter(m) /\ IsOf(m, x)
  <2>1. \A v : v \in {"on", "off"} =>
          IsLetter(WZ!SetValue("bool", v, id)) /\ IsOf(WZ!SetValue("bool", v, id), x)
    BY <1>6, <1>7 DEF IsLetter, IsOf, WZ!SetValue
  <2>2. IsLetter(WZ!SetValue("date", "now", id)) /\ IsOf(WZ!SetValue("date", "now", id), x)
    BY <1>6, <1>7 DEF IsLetter, IsOf, WZ!SetValue
  <2> QED
    BY <1>4, <2>1, <2>2
<1>12. opened' \in 0..WindowBound
  BY <1>1, <1>3
<1> QED
  BY <1>1, <1>6, <1>9, <1>10, <1>11, <1>12, WindowKept, FocusedWindow

\* A key that leaves its window as it is and asks for something.
LEMMA ConfigQuitKept == ASSUME WizInv, NEW c \in WZ!Configs, WZ!ConfigQuit(c) PROVE WizInv'
<1>1. /\ WZ!Pressed /\ cfg[c].focused /\ cfg[c].child = WZ!Closed
      /\ mail' = WZ!(+)(mail, WZ!SetToBag({WZ!Close("cfgui", cfg[c].id)}))
      /\ UNCHANGED <<value, cursor, focused, selected, cfg, opened, spoiled>>
  BY DEF WZ!ConfigQuit, WZ!Send
<1>2. IsLetter(WZ!Close("cfgui", cfg[c].id)) /\ IsOf(WZ!Close("cfgui", cfg[c].id), cfg[c])
  BY DEF IsLetter, IsOf, WZ!Close
<1>3. cfg' = [cfg EXCEPT ![c] = cfg[c]] /\ ~Differs(cfg[c], value')
  BY <1>1, FocusedWindow DEF Differs
<1> QED
  BY <1>1, <1>2, <1>3, WindowKept, FocusedWindow

\* The window of a parameter: what it holds, and how it leaves.
LEMMA OpenWindow ==
  ASSUME WizInv, NEW c \in WZ!Configs, NEW kinds, WZ!Key(c, kinds)
  PROVE  /\ WZ!Pressed /\ cfg[c].focused /\ cfg[c].child # WZ!Closed /\ cfg[c].child.par \in DOMAIN ParamKind
         /\ ParamKind[cfg[c].child.par] \in kinds
         /\ cfg[c].child.par # WZ!Nothing
         /\ cfg[c].child.draft \in ParamValues[cfg[c].child.par]
         /\ cfg[c].child.was \in ParamValues[cfg[c].child.par]
         /\ \A v \in ParamValues[cfg[c].child.par] :
              WZ!Assign(c, v) =>
                /\ DOMAIN value' = DOMAIN ParamKind /\ \A p \in DOMAIN ParamKind : value'[p] \in ParamValues[p]
                /\ value'[cfg[c].child.par] = v
         /\ WZ!Leave(c) => /\ mail' = WZ!(+)(mail, Parting(cfg[c]))
                           /\ \E m : /\ mail' = WZ!(+)(mail, WZ!SetToBag({m}))
                                     /\ IsLetter(m) /\ IsOf(m, cfg[c])
<1>1. WZ!Pressed /\ cfg[c].focused /\ cfg[c].child # WZ!Closed /\ ParamKind[cfg[c].child.par] \in kinds
  BY DEF WZ!Key
<1>2. HasParam(cfg[c].child)
  BY <1>1, FocusedWindow DEF InWindow
<1>3. /\ cfg[c].child.par \in DOMAIN ParamKind /\ cfg[c].child.par # WZ!Nothing
      /\ cfg[c].child.draft \in ParamValues[cfg[c].child.par]
      /\ cfg[c].child.was \in ParamValues[cfg[c].child.par]
  BY <1>1, <1>2 DEF HasParam
<1>4. ASSUME NEW v \in ParamValues[cfg[c].child.par], WZ!Assign(c, v)
      PROVE  /\ DOMAIN value' = DOMAIN ParamKind /\ \A p \in DOMAIN ParamKind : value'[p] \in ParamValues[p]
             /\ value'[cfg[c].child.par] = v
  <2>1. value' = [value EXCEPT ![cfg[c].child.par] = v]
    BY <1>4 DEF WZ!Assign
  <2>2. DOMAIN value = DOMAIN ParamKind /\ \A p \in DOMAIN ParamKind : value[p] \in ParamValues[p]
    BY <1>1, FocusedWindow
  <2> DEFINE q == cfg[c].child.par
  <2>3. q \in DOMAIN ParamKind /\ v \in ParamValues[q] /\ value' = [value EXCEPT ![q] = v]
    BY <1>3, <2>1
  <2> HIDE DEF q
  <2>4. /\ DOMAIN value' = DOMAIN ParamKind /\ value'[q] = v
        /\ \A p \in DOMAIN ParamKind \ {q} : value'[p] = value[p]
    BY <2>2, <2>3
  <2>5. \A p \in DOMAIN ParamKind : value'[p] \in ParamValues[p]
    BY <2>2, <2>3, <2>4
  <2> QED
    BY <2>4, <2>5 DEF q
<1>5. ASSUME WZ!Leave(c)
      PROVE  /\ mail' = WZ!(+)(mail, Parting(cfg[c]))
             /\ \E m : mail' = WZ!(+)(mail, WZ!SetToBag({m})) /\ IsLetter(m) /\ IsOf(m, cfg[c])
  <2>1. mail' = WZ!(+)(mail, WZ!SetToBag({WZ!Close("updater", cfg[c].child.id)}))
    BY <1>5 DEF WZ!Leave, WZ!Send
  <2>2. IsLetter(WZ!Close("updater", cfg[c].child.id)) /\ IsOf(WZ!Close("updater", cfg[c].child.id), cfg[c])
    BY DEF IsLetter, IsOf, WZ!Close
  <2> QED
    BY <2>1, <2>2 DEF Parting
<1> QED
  BY <1>1, <1>3, <1>4, <1>5

\* A window of which one field is set differs from what it was only as before.
LEMMA ChildSet ==
  ASSUME WizInv, NEW c \in WZ!Configs, NEW kinds, WZ!Key(c, kinds), NEW ch \in ChildRecord,
         ch.par = cfg[c].child.par, ch.was = cfg[c].child.was, ch.id = cfg[c].child.id,
         ch.draft \in ParamValues[ch.par], cfg' = [cfg EXCEPT ![c].child = ch]
  PROVE  \E x \in ConfigRecord :
           /\ x.focused /\ InWindow(x, c) /\ cfg' = [cfg EXCEPT ![c] = x] /\ x.child = ch
           /\ \A v : Differs(x, v) <=> Differs(cfg[c], v)
<1> DEFINE x == [cfg[c] EXCEPT !.child = ch]
<1>1. /\ cfg[c] \in ConfigRecord /\ cfg \in [WZ!Configs -> ConfigRecord] /\ cfg[c].focused
      /\ cfg[c].child # WZ!Closed /\ ch.par \in DOMAIN ParamKind /\ ch.par # WZ!Nothing
      /\ ch.was \in ParamValues[ch.par] /\ InWindow(cfg[c], c)
  BY OpenWindow, FocusedWindow
<1>2. /\ x \in ConfigRecord /\ x.focused = cfg[c].focused /\ x.line = cfg[c].line /\ x.child = ch
      /\ cfg' = [cfg EXCEPT ![c] = x]
  BY <1>1 DEF ConfigRecord
<1> HIDE DEF x
<1>3. ch # WZ!Closed
  <2>1. WZ!Closed.par = WZ!Nothing
    BY DEF WZ!Closed
  <2> QED
    BY <1>1, <2>1
<1>4. InWindow(x, c)
  BY <1>1, <1>2 DEF InWindow, HasParam, Drawn
<1>5. \A v : Differs(x, v) <=> Differs(cfg[c], v)
  BY <1>1, <1>2, <1>3 DEF Differs
<1> QED
  BY <1>1, <1>2, <1>4, <1>5

\* Esc in the window of a parameter, or at the question it asks.
LEMMA CancelKept == ASSUME WizInv, NEW c \in WZ!Configs, WZ!Cancel(c) PROVE WizInv'
<1> DEFINE ch == cfg[c].child
           kinds == {"date", "text", "new", "filepick", "pick"}
<1>1. WZ!Key(c, kinds) /\ UNCHANGED <<cursor, focused, selected, opened>>
  BY DEF WZ!Cancel
<1>2. WZ!Pressed /\ cfg[c].focused /\ ch.par \in DOMAIN ParamKind /\ ch \in ChildRecord
      /\ ch.draft \in ParamValues[ch.par] /\ ch.was \in ParamValues[ch.par] /\ ParamKind[ch.par] \in kinds
      /\ cfg[c] \in ConfigRecord /\ InWindow(cfg[c], c) /\ ch # WZ!Closed
      /\ opened \in 0..WindowBound
  BY <1>1, OpenWindow, FocusedWindow
<1>3. CASE ch.asking
  <2>1. cfg' = [cfg EXCEPT ![c].child.asking = FALSE] /\ UNCHANGED <<value, mail, spoiled>>
    BY <1>3 DEF WZ!Cancel
  <2>2. [ch EXCEPT !.asking = FALSE] \in ChildRecord
    BY <1>2 DEF ChildRecord
  <2>3. cfg' = [cfg EXCEPT ![c].child = [ch EXCEPT !.asking = FALSE]]
    BY <2>1
  <2> DEFINE ch2 == [ch EXCEPT !.asking = FALSE]
  <2>4. /\ ch2 \in ChildRecord /\ ch2.par = ch.par /\ ch2.was = ch.was /\ ch2.id = ch.id /\ ch2.draft = ch.draft
        /\ cfg' = [cfg EXCEPT ![c].child = ch2]
    BY <1>2, <2>2, <2>3 DEF ChildRecord
  <2> HIDE DEF ch2
  <2>6. /\ ch2.par = cfg[c].child.par /\ ch2.was = cfg[c].child.was /\ ch2.id = cfg[c].child.id
        /\ ch2.draft \in ParamValues[ch2.par]
    BY <1>2, <2>4
  <2> HIDE DEF kinds
  <2>5. PICK x \in ConfigRecord :
          /\ x.focused /\ InWindow(x, c) /\ cfg' = [cfg EXCEPT ![c] = x]
          /\ \A v : Differs(x, v) <=> Differs(cfg[c], v)
    BY <1>1, <2>4, <2>6, ChildSet, Zenon
  <2> QED
    BY <1>1, <1>2, <2>1, <2>5, WindowKept, FocusedWindow
<1>4. CASE ~ch.asking
  <2>1. /\ IF ParamKind[ch.par] = "pick" THEN WZ!Assign(c, ch.was) ELSE UNCHANGED value
        /\ spoiled' = spoiled \union IF value'[ch.par] # ch.was THEN {ParamKind[ch.par]} ELSE {}
        /\ WZ!Leave(c) /\ UNCHANGED cfg
    BY <1>4 DEF WZ!Cancel
  <2>2. DOMAIN value' = DOMAIN ParamKind /\ \A p \in DOMAIN ParamKind : value'[p] \in ParamValues[p]
    BY <1>1, <1>2, <2>1, OpenWindow, FocusedWindow
  <2>3. /\ mail' = WZ!(+)(mail, Parting(cfg[c]))
        /\ \E m : mail' = WZ!(+)(mail, WZ!SetToBag({m})) /\ IsLetter(m) /\ IsOf(m, cfg[c])
    BY <1>1, <2>1, OpenWindow
  <2>4. hasty' \/ spoiled' \subseteq {"date", "filepick"}
    <3>1. hasty' \/ (spoiled \subseteq {"date", "filepick"} /\ ~Differs(cfg[c], value))
      BY <1>2, FocusedWindow
    <3>2. ParamKind[ch.par] = "pick" => value'[ch.par] = ch.was
      BY <1>1, <1>2, <2>1, OpenWindow
    <3>3. ParamKind[ch.par] \in {"text", "new"} => hasty' \/ value'[ch.par] = ch.was
      BY <1>2, <2>1, <3>1 DEF Differs
    <3> QED
      BY <1>2, <2>1, <3>1, <3>2, <3>3
  <2>5. cfg' = [cfg EXCEPT ![c] = cfg[c]]
    BY <1>2, <2>1, FocusedWindow
  <2> QED
    BY <1>1, <1>2, <2>2, <2>3, <2>4, <2>5, WindowKept
<1> QED
  BY <1>3, <1>4

\* A key that leaves the window as it is, and closes it if the value is another then.
LEMMA KeyKept ==
  ASSUME WizInv, NEW c \in WZ!Configs, NEW kinds, WZ!Key(c, kinds),
         UNCHANGED <<cfg, cursor, focused, selected, opened, spoiled>>,
         DOMAIN value' = DOMAIN ParamKind, \A p \in DOMAIN ParamKind : value'[p] \in ParamValues[p],
         \/ mail' = mail
         \/ \E m : mail' = WZ!(+)(mail, WZ!SetToBag({m})) /\ IsLetter(m) /\ IsOf(m, cfg[c]),
         \/ value' = value
         \/ mail' = WZ!(+)(mail, Parting(cfg[c]))
         \/ ParamKind[cfg[c].child.par] \notin {"text", "new"}
  PROVE  WizInv'
<1>1. /\ WZ!Pressed /\ cfg[c].focused /\ cfg[c] \in ConfigRecord /\ InWindow(cfg[c], c)
      /\ cfg \in [WZ!Configs -> ConfigRecord] /\ opened \in 0..WindowBound
      /\ ~hasty' => ~Differs(cfg[c], value)
      /\ hasty' \/ spoiled \subseteq {"date", "filepick"}
  BY OpenWindow, FocusedWindow
<1>2. cfg' = [cfg EXCEPT ![c] = cfg[c]]
  BY <1>1
<1>3. Differs(cfg[c], value') => hasty' \/ mail' = WZ!(+)(mail, Parting(cfg[c]))
  BY <1>1 DEF Differs
<1> QED
  BY <1>1, <1>2, <1>3, WindowKept

\* A key that changes nothing but what is typed.
LEMMA TypingKept ==
  ASSUME WizInv, NEW c \in WZ!Configs, NEW kinds, WZ!Key(c, kinds), NEW ch \in ChildRecord,
         ch.par = cfg[c].child.par, ch.was = cfg[c].child.was, ch.id = cfg[c].child.id,
         ch.draft \in ParamValues[ch.par], cfg' = [cfg EXCEPT ![c].child = ch],
         UNCHANGED <<value, mail, cursor, focused, selected, opened, spoiled>>
  PROVE  WizInv'
<1>1. PICK x \in ConfigRecord :
        /\ x.focused /\ InWindow(x, c) /\ cfg' = [cfg EXCEPT ![c] = x]
        /\ \A v : Differs(x, v) <=> Differs(cfg[c], v)
  BY ChildSet
<1>2. /\ WZ!Pressed /\ cfg[c].focused /\ opened \in 0..WindowBound
      /\ DOMAIN value = DOMAIN ParamKind /\ \A p \in DOMAIN ParamKind : value[p] \in ParamValues[p]
      /\ ~hasty' => ~Differs(cfg[c], value)
      /\ hasty' \/ spoiled \subseteq {"date", "filepick"}
  BY OpenWindow, FocusedWindow
<1>3. Differs(x, value') => hasty'
  BY <1>1, <1>2
<1> QED
  BY <1>1, <1>2, <1>3, WindowKept

\* Enter in the window of a parameter.
LEMMA SubmitKept == ASSUME WizInv, NEW c \in WZ!Configs, WZ!Submit(c) PROVE WizInv'
<1> DEFINE ch == cfg[c].child
           kinds == {"date", "text", "new", "pick"}
<1>1. WZ!Key(c, kinds) /\ UNCHANGED <<cursor, focused, selected, opened, spoiled>>
  BY DEF WZ!Submit
<1>2. /\ ch \in ChildRecord /\ ch.draft \in ParamValues[ch.par] /\ ParamKind[ch.par] \in kinds
      /\ DOMAIN value = DOMAIN ParamKind /\ \A p \in DOMAIN ParamKind : value[p] \in ParamValues[p]
  BY <1>1, OpenWindow, FocusedWindow
<1>3. CASE ParamKind[ch.par] = "pick"
  <2>1. WZ!Leave(c) /\ UNCHANGED <<value, cfg>>
    BY <1>3 DEF WZ!Submit
  <2>2. \E m : mail' = WZ!(+)(mail, WZ!SetToBag({m})) /\ IsLetter(m) /\ IsOf(m, cfg[c])
    BY <1>1, <2>1, OpenWindow
  <2> QED
    BY <1>1, <1>2, <2>1, <2>2, KeyKept
<1>4. CASE ParamKind[ch.par] # "pick" /\ (ParamKind[ch.par] = "date" \/ IsValid(ch.draft))
  <2>1. WZ!Assign(c, ch.draft) /\ WZ!Leave(c) /\ UNCHANGED cfg
    BY <1>4 DEF WZ!Submit
  <2>2. /\ mail' = WZ!(+)(mail, Parting(cfg[c]))
        /\ \E m : mail' = WZ!(+)(mail, WZ!SetToBag({m})) /\ IsLetter(m) /\ IsOf(m, cfg[c])
    BY <1>1, <2>1, OpenWindow
  <2>3. DOMAIN value' = DOMAIN ParamKind /\ \A p \in DOMAIN ParamKind : value'[p] \in ParamValues[p]
    BY <1>1, <1>2, <2>1, OpenWindow
  <2> QED
    BY <1>1, <2>1, <2>2, <2>3, KeyKept
<1>5. CASE ParamKind[ch.par] = "new" /\ ~IsValid(ch.draft)
  <2>1. cfg' = [cfg EXCEPT ![c].child.asking = TRUE] /\ UNCHANGED <<value, mail>>
    BY <1>5 DEF WZ!Submit
  <2> DEFINE ch2 == [ch EXCEPT !.asking = TRUE]
  <2>2. /\ ch2 \in ChildRecord /\ ch2.par = ch.par /\ ch2.was = ch.was /\ ch2.id = ch.id /\ ch2.draft = ch.draft
        /\ cfg' = [cfg EXCEPT ![c].child = ch2]
    BY <1>2, <2>1 DEF ChildRecord
  <2> HIDE DEF ch2, kinds
  <2>3. ch2.draft \in ParamValues[ch2.par]
    BY <1>2, <2>2
  <2> QED
    BY <1>1, <2>1, <2>2, <2>3, TypingKept
<1>6. CASE ParamKind[ch.par] # "pick" /\ ~(ParamKind[ch.par] = "date" \/ IsValid(ch.draft))
           /\ ParamKind[ch.par] # "new"
  <2>1. UNCHANGED <<value, cfg, mail>>
    BY <1>6 DEF WZ!Submit
  <2> QED
    BY <1>1, <1>2, <2>1, KeyKept
<1> QED
  BY <1>3, <1>4, <1>5, <1>6

LEMMA ConfirmKept == ASSUME WizInv, NEW c \in WZ!Configs, WZ!Confirm(c) PROVE WizInv'
<1>1. WZ!Key(c, {"new"}) /\ UNCHANGED <<value, cursor, focused, selected, cfg, opened, spoiled>>
  BY DEF WZ!Confirm
<1>2. PICK yes \in {"yes", "no"} :
        mail' = WZ!(+)(mail, WZ!SetToBag({WZ!SetValue("form", yes, cfg[c].child.id)}))
  BY DEF WZ!Confirm, WZ!Send
<1>3. IsLetter(WZ!SetValue("form", yes, cfg[c].child.id)) /\ IsOf(WZ!SetValue("form", yes, cfg[c].child.id), cfg[c])
  BY DEF IsLetter, IsOf, WZ!SetValue
<1>4. DOMAIN value = DOMAIN ParamKind /\ \A p \in DOMAIN ParamKind : value[p] \in ParamValues[p]
  BY <1>1, OpenWindow, FocusedWindow
<1> QED
  BY <1>1, <1>2, <1>3, <1>4, KeyKept

LEMMA ClearKept == ASSUME WizInv, NEW c \in WZ!Configs, WZ!Clear(c) PROVE WizInv'
<1>1. /\ WZ!Key(c, {"date"}) /\ WZ!Assign(c, "zero") /\ WZ!Leave(c)
      /\ UNCHANGED <<cursor, focused, selected, cfg, opened, spoiled>>
  BY DEF WZ!Clear
<1>2. "zero" \in ParamValues[cfg[c].child.par]
  <2>1. cfg[c].child.par \in DOMAIN ParamKind /\ ParamKind[cfg[c].child.par] \in {"date"}
    BY <1>1, OpenWindow
  <2>2. \A p \in DOMAIN ParamKind : ParamKind[p] = "date" => {"zero", "now"} \subseteq ParamValues[p]
    BY WindowFacts
  <2> QED
    BY <2>1, <2>2
<1>3. DOMAIN value' = DOMAIN ParamKind /\ \A p \in DOMAIN ParamKind : value'[p] \in ParamValues[p]
  BY <1>1, <1>2, OpenWindow
<1>4. /\ mail' = WZ!(+)(mail, Parting(cfg[c]))
      /\ \E m : mail' = WZ!(+)(mail, WZ!SetToBag({m})) /\ IsLetter(m) /\ IsOf(m, cfg[c])
  BY <1>1, OpenWindow
<1> QED
  BY <1>1, <1>3, <1>4, KeyKept

LEMMA EditKept == ASSUME WizInv, NEW c \in WZ!Configs, WZ!Edit(c) PROVE WizInv'
<1> DEFINE ch == cfg[c].child
           kinds == {"date", "text", "new", "pick"}
<1>1. WZ!Key(c, kinds) /\ UNCHANGED <<cursor, focused, selected, mail, opened, spoiled>>
  BY DEF WZ!Edit
<1>2. PICK v \in ParamValues[ch.par] :
        IF ParamKind[ch.par] = "pick" THEN WZ!Assign(c, v) /\ UNCHANGED cfg
        ELSE cfg' = [cfg EXCEPT ![c].child.draft = v] /\ UNCHANGED value
  BY DEF WZ!Edit
<1>3. CASE ParamKind[ch.par] = "pick"
  <2>1. WZ!Assign(c, v) /\ UNCHANGED cfg
    BY <1>2, <1>3
  <2>2. DOMAIN value' = DOMAIN ParamKind /\ \A p \in DOMAIN ParamKind : value'[p] \in ParamValues[p]
    BY <1>1, <2>1, OpenWindow
  <2> QED
    BY <1>1, <1>3, <2>1, <2>2, KeyKept
<1>4. CASE ParamKind[ch.par] # "pick"
  <2>1. cfg' = [cfg EXCEPT ![c].child.draft = v] /\ UNCHANGED value
    BY <1>2, <1>4
  <2>2. ch \in ChildRecord /\ ch.par \in DOMAIN ParamKind
    BY <1>1, OpenWindow, FocusedWindow
  <2> DEFINE ch2 == [ch EXCEPT !.draft = v]
  <2>3. v \in {WZ!Nothing} \union UNION {ParamValues[p] : p \in DOMAIN ParamKind}
    BY <2>2
  <2>4. /\ ch2 \in ChildRecord /\ ch2.par = ch.par /\ ch2.was = ch.was /\ ch2.id = ch.id /\ ch2.draft = v
        /\ cfg' = [cfg EXCEPT ![c].child = ch2]
    BY <2>1, <2>2, <2>3 DEF ChildRecord
  <2> HIDE DEF ch2, kinds
  <2>5. ch2.draft \in ParamValues[ch2.par]
    BY <2>4
  <2> QED
    BY <1>1, <2>1, <2>4, <2>5, TypingKept
<1> QED
  BY <1>3, <1>4

LEMMA PickFileKept == ASSUME WizInv, NEW c \in WZ!Configs, WZ!PickFile(c) PROVE WizInv'
<1>1. WZ!Key(c, {"filepick"}) /\ UNCHANGED <<value, cursor, focused, selected, cfg, opened, spoiled>>
  BY DEF WZ!PickFile
<1>2. PICK v \in ParamValues[cfg[c].child.par] :
        mail' = WZ!(+)(mail, WZ!SetToBag({WZ!SetValue("filepick", v, cfg[c].child.id)}))
  BY DEF WZ!PickFile, WZ!Send
<1>3. \A p \in DOMAIN ParamKind : ParamKind[p] = "filepick" => v \in ParamValues[p]
  <2>1. cfg[c].child.par \in DOMAIN ParamKind /\ ParamKind[cfg[c].child.par] \in {"filepick"}
    BY <1>1, OpenWindow
  <2>2. \A p, q \in DOMAIN ParamKind :
          ParamKind[p] = "filepick" /\ ParamKind[q] = "filepick" => ParamValues[p] = ParamValues[q]
    BY WindowFacts
  <2> QED
    BY <2>1, <2>2
<1>4. IsLetter(WZ!SetValue("filepick", v, cfg[c].child.id)) /\ IsOf(WZ!SetValue("filepick", v, cfg[c].child.id), cfg[c])
  BY <1>3 DEF IsLetter, IsOf, WZ!SetValue
<1>5. DOMAIN value = DOMAIN ParamKind /\ \A p \in DOMAIN ParamKind : value[p] \in ParamValues[p]
  BY <1>1, OpenWindow, FocusedWindow
<1> QED
  BY <1>1, <1>2, <1>4, <1>5, KeyKept

LEMMA ConfiguringKept == ASSUME WizInv, NEW c \in WZ!Configs, WZ!Configuring(c) PROVE WizInv'
BY ConfigMoveKept, ConfigSelectKept, ConfigQuitKept, CancelKept, SubmitKept, ConfirmKept, ClearKept, EditKept,
   PickFileKept DEF WZ!Configuring

-----------------------------------------------------------------------------
\* The menu.

\* A set of places has a first and a last.
LEMMA EndsOf ==
  ASSUME NEW n \in Nat, NEW S, S \subseteq 1..n, S # {}
  PROVE  WZ!Min(S) \in S /\ WZ!Max(S) \in S
<1>1. S \subseteq Nat
  OBVIOUS
<1>2. \E x \in S : \A y \in S : x <= y
  BY <1>1, LeastOf
<1>3. \E x \in S : \A y \in S : x >= y
  <2> DEFINE T == {n - z : z \in S}
  <2>1. T \subseteq Nat /\ T # {}
    <3>1. \A z \in S : z \in 1..n /\ n - z \in Nat
      OBVIOUS
    <3> QED
      BY <3>1
  <2>2. PICK t \in T : \A u \in T : t <= u
    BY <2>1, LeastOf
  <2>3. PICK x \in S : t = n - x
    BY <2>2
  <2>4. \A y \in S : n - x <= n - y
    BY <2>2, <2>3
  <2>5. ASSUME NEW y \in S PROVE x >= y
    <3>1. n \in Nat /\ x \in Nat /\ y \in Nat /\ n - x <= n - y
      BY <1>1, <2>4
    <3> QED
      BY <3>1
  <2> QED
    BY <2>5
<1> QED
  BY <1>2, <1>3 DEF WZ!Min, WZ!Max

\* A key of the menu that opens no window.
LEMMA MenuKept ==
  ASSUME WizInv, focused, WZ!Pressed, cursor' \in DOMAIN MenuItems, MenuItems[cursor'] # "separator",
         selected' \in {WZ!NoItem, WZ!Cancelled} \union DOMAIN MenuItems,
         UNCHANGED <<value, focused, cfg, mail, opened, spoiled>>
  PROVE  WizInv'
<1>1. WizTypes'
  BY QuickKey DEF WizInv, WizTypes, InWindow, HasParam, Drawn, WZ!Configs, WZ!NoItem, WZ!Cancelled,
     WZ!Closed, WZ!Drawn, WZ!LastLine, ConfigRecord, ChildRecord
<1>2. WizMail'
  BY DEF WizInv, WizMail, WZ!IsABag, IsLetter
<1>3. WizFocus'
  BY DEF WizInv, WizFocus, WZ!Configs, WZ!Closed
<1>4. WizCalm'
  BY QuickKey DEF WizCalm, WZ!EmptyBag, WZ!SetToBag
<1>5. WizTold'
  BY QuickKey DEF WizInv, WizTold
<1> QED
  BY <1>1, <1>2, <1>3, <1>4, <1>5 DEF WizInv

LEMMA MenuMoveKept == ASSUME WizInv, WZ!MenuMove PROVE WizInv'
<1>1. focused /\ WZ!Pressed /\ UNCHANGED <<value, focused, selected, cfg, mail, opened, spoiled>>
  BY DEF WZ!MenuMove
<1>2. /\ cursor \in DOMAIN MenuItems /\ DOMAIN MenuItems = 1..Len(MenuItems) /\ Len(MenuItems) \in Nat \ {0}
      /\ MenuItems[1] # "separator" /\ MenuItems[Len(MenuItems)] # "separator"
      /\ selected \in {WZ!NoItem, WZ!Cancelled} \union DOMAIN MenuItems
  BY WindowFacts DEF WizInv, WizTypes
<1> DEFINE above == {i \in 1..(cursor - 1) : MenuItems[i] # "separator"}
           below == {i \in (cursor + 1)..Len(MenuItems) : MenuItems[i] # "separator"}
<1>3. CASE cursor' = IF cursor = 1 THEN Len(MenuItems) ELSE WZ!Max(above)
  <2>1. CASE cursor = 1
    BY <1>1, <1>2, <1>3, <2>1, MenuKept
  <2>2. CASE cursor # 1
    <3>1. above \subseteq 1..Len(MenuItems) /\ 1 \in above
      BY <1>2, <2>2
    <3>2. WZ!Max(above) \in above
      BY <1>2, <3>1, EndsOf
    <3>3. cursor' \in DOMAIN MenuItems /\ MenuItems[cursor'] # "separator"
      BY <1>2, <1>3, <2>2, <3>1, <3>2
    <3> QED
      BY <1>1, <1>2, <3>3, MenuKept
  <2> QED
    BY <2>1, <2>2
<1>4. CASE cursor' = IF cursor = Len(MenuItems) THEN 1 ELSE WZ!Min(below)
  <2>1. CASE cursor = Len(MenuItems)
    BY <1>1, <1>2, <1>4, <2>1, MenuKept
  <2>2. CASE cursor # Len(MenuItems)
    <3>1. below \subseteq 1..Len(MenuItems) /\ Len(MenuItems) \in below
      BY <1>2, <2>2
    <3>2. WZ!Min(below) \in below
      BY <1>2, <3>1, EndsOf
    <3>3. cursor' \in DOMAIN MenuItems /\ MenuItems[cursor'] # "separator"
      BY <1>2, <1>4, <2>2, <3>1, <3>2
    <3> QED
      BY <1>1, <1>2, <3>3, MenuKept
  <2> QED
    BY <2>1, <2>2
<1> QED
  BY <1>3, <1>4 DEF WZ!MenuMove

LEMMA MenuQuitKept == ASSUME WizInv, WZ!MenuQuit PROVE WizInv'
<1>1. cursor \in DOMAIN MenuItems /\ MenuItems[cursor] # "separator"
  BY DEF WizInv, WizTypes
<1>2. /\ focused /\ WZ!Pressed /\ selected' = WZ!Cancelled
      /\ UNCHANGED <<value, cursor, focused, cfg, mail, opened, spoiled>>
  BY DEF WZ!MenuQuit
<1> QED
  BY <1>1, <1>2, MenuKept

LEMMA MenuSelectKept == ASSUME WizInv, WZ!MenuSelect PROVE WizInv'
<1>1. focused /\ WZ!Pressed /\ UNCHANGED <<value, cursor, mail, spoiled>>
  BY DEF WZ!MenuSelect
<1>2. cursor \in DOMAIN MenuItems /\ MenuItems[cursor] # "separator" /\ opened \in 0..WindowBound
      /\ cfg \in [WZ!Configs -> ConfigRecord]
  BY DEF WizInv, WizTypes
<1>3. CASE MenuItems[cursor] # "config"
  <2>1. selected' = cursor /\ UNCHANGED <<opened, focused, cfg>>
    BY <1>3 DEF WZ!MenuSelect
  <2> QED
    BY <1>1, <1>2, <2>1, MenuKept
<1>4. CASE MenuItems[cursor] = "config"
  <2>1. /\ opened < WindowBound /\ opened' = opened + 1 /\ focused' = FALSE /\ UNCHANGED selected
        /\ cfg' = [cfg EXCEPT ![cursor].focused = TRUE, ![cursor].id = opened + 1]
    BY <1>4 DEF WZ!MenuSelect
  <2>2. cursor \in WZ!Configs
    BY <1>2, <1>4 DEF WZ!Configs
  <2>3. opened' \in 0..WindowBound /\ opened' \in Nat
    <3>1. WindowBound \in Nat
      BY WindowFacts
    <3> QED
      BY <1>2, <2>1, <3>1
  <2> DEFINE x == [cfg[cursor] EXCEPT !.focused = TRUE, !.id = opened']
  <2>4. cfg' = [cfg EXCEPT ![cursor] = x]
    BY <2>1
  <2>5. cfg[cursor] \in ConfigRecord /\ InWindow(cfg[cursor], cursor)
    BY <2>2 DEF WizInv, WizTypes
  <2>6. x \in ConfigRecord /\ x.focused = TRUE /\ x.line = cfg[cursor].line /\ x.child = cfg[cursor].child
    BY <2>3, <2>5 DEF ConfigRecord
  <2>7. \A c \in WZ!Configs : ~cfg[c].focused /\ cfg[c].child = WZ!Closed
    BY <1>1 DEF WizInv, WizFocus
  <2> HIDE DEF x
  <2>8. cfg' \in [WZ!Configs -> ConfigRecord] /\ cfg'[cursor] = x
        /\ \A c \in WZ!Configs \ {cursor} : cfg'[c] = cfg[c]
    BY <1>2, <2>2, <2>4, <2>6
  <2>9. InWindow(x, cursor)
    BY <2>5, <2>6 DEF InWindow, Drawn
  <2>10. \A c \in WZ!Configs : InWindow(cfg'[c], c)
    BY <2>8, <2>9 DEF WizInv, WizTypes
  <2>11. WizTypes'
    BY <1>1, <2>1, <2>3, <2>8, <2>10, QuickKey DEF WizInv, WizTypes, InWindow, HasParam, Drawn, WZ!Configs,
       WZ!NoItem, WZ!Cancelled, WZ!Closed, WZ!Drawn, WZ!LastLine, ConfigRecord, ChildRecord
  <2>12. WizMail'
    BY <1>1 DEF WizInv, WizMail, WZ!IsABag, IsLetter
  <2>13. WizFocus'
    BY <1>1, <2>1, <2>2, <2>6, <2>7, <2>8 DEF WizFocus, WZ!Configs, WZ!Closed
  <2>14. WizCalm'
    <3>1. ~Differs(cfg[cursor], value)'
      BY <1>1, <2>2, <2>6, <2>7, <2>8 DEF Differs, WZ!Closed
    <3> QED
      BY <1>1, <3>1, QuickKey DEF WizCalm, WZ!EmptyBag, WZ!SetToBag
  <2>15. WizTold'
    BY <1>1, QuickKey DEF WizInv, WizTold
  <2> QED
    BY <2>11, <2>12, <2>13, <2>14, <2>15 DEF WizInv
<1> QED
  BY <1>3, <1>4

LEMMA AgainKept == ASSUME WizInv, WZ!Again PROVE WizInv'
<1>1. /\ cursor' = 1 /\ focused' = TRUE /\ selected' = WZ!NoItem
      /\ cfg' = [c \in WZ!Configs |-> WZ!NewConfig(1)] /\ mail' = WZ!EmptyBag
      /\ UNCHANGED <<value, opened, hasty, stray, spoiled>>
  BY DEF WZ!Again, WZ!NewMenu
<1>2. /\ DOMAIN MenuItems = 1..Len(MenuItems) /\ Len(MenuItems) \in Nat \ {0} /\ MenuItems[1] # "separator"
      /\ LinesBeyond \in Nat
  BY WindowFacts
<1>3. cursor' \in DOMAIN MenuItems /\ MenuItems[cursor'] # "separator"
  BY <1>1, <1>2
<1>4. \A c \in WZ!Configs : 1 \in 1..(WZ!LastLine(c) + LinesBeyond)
  <2> TAKE c \in WZ!Configs
  <2>1. WZ!LastLine(c) \in Nat \ {0}
    BY WindowFacts
  <2> QED
    BY <1>2, <2>1
<1>5. cfg' \in [WZ!Configs -> ConfigRecord]
      /\ \A c \in WZ!Configs : InWindow(cfg'[c], c) /\ ~cfg'[c].focused /\ cfg'[c].child = WZ!Closed
  BY <1>1, <1>4, NewWindow
<1>6. focused' \in BOOLEAN
  BY <1>1, Zenon
<1>7. WizTypes'
  BY <1>1, <1>3, <1>5, <1>6 DEF WizInv, WizTypes, InWindow, HasParam, Drawn, WZ!Configs, WZ!NoItem,
     WZ!Cancelled, WZ!Closed, WZ!Drawn, WZ!LastLine, ConfigRecord, ChildRecord
<1>8. WizMail'
  <2>1. WZ!IsABag(mail') /\ DOMAIN mail' = {}
    BY <1>1, MailBags
  <2> QED
    BY <2>1 DEF WizMail, WZ!IsABag
<1>9. WizFocus'
  BY <1>1, <1>5 DEF WizFocus, WZ!Configs, WZ!Closed
<1>10. WizCalm'
  BY <1>1 DEF WizCalm, WZ!EmptyBag, WZ!SetToBag
<1>11. WizTold'
  BY <1>1 DEF WizInv, WizTold
<1> QED
  BY <1>7, <1>8, <1>9, <1>10, <1>11 DEF WizInv

-----------------------------------------------------------------------------
\* The messages.

\* What is known of a message on its way.
LEMMA LetterFacts ==
  ASSUME WizInv, NEW m, WZ!BagIn(m, mail)
  PROVE  /\ IsLetter(m) /\ WZ!IsABag(mail) /\ \A y \in DOMAIN mail : IsLetter(y)
         /\ ~hasty => mail = WZ!SetToBag({m}) /\ ~focused /\ IsOf(m, cfg[cursor])
<1>1. m \in DOMAIN mail
  BY MailBags
<1>2. IsLetter(m) /\ WZ!IsABag(mail) /\ \A y \in DOMAIN mail : IsLetter(y)
  BY <1>1 DEF WizInv, WizMail
<1>3. ASSUME ~hasty PROVE mail = WZ!SetToBag({m}) /\ ~focused /\ IsOf(m, cfg[cursor])
  <2>1. mail # WZ!EmptyBag
    BY <1>1, MailBags
  <2>2. PICK n : mail = WZ!SetToBag({n}) /\ ~focused /\ IsOf(n, cfg[cursor])
    BY <1>3, <2>1 DEF WizInv, WizCalm
  <2>3. DOMAIN mail = {n}
    BY <2>2, MailBags
  <2> QED
    BY <1>1, <2>2, <2>3
<1> QED
  BY <1>2, <1>3

\* A message taken by the window that is open: what the window is then, and whether it asks to be closed.
LEMMA LetterKept ==
  ASSUME WizInv, NEW m, WZ!BagIn(m, mail), ~focused, NEW x \in ConfigRecord, InWindow(x, cursor),
         focused' \in BOOLEAN, x.focused <=> ~focused', focused' => x.child = WZ!Closed,
         cfg' = [cfg EXCEPT ![cursor] = x],
         DOMAIN value' = DOMAIN ParamKind, \A p \in DOMAIN ParamKind : value'[p] \in ParamValues[p],
         \/ mail' = WZ!(-)(mail, WZ!SetToBag({m}))
         \/ mail' = WZ!(+)(WZ!(-)(mail, WZ!SetToBag({m})), Parting(x)) /\ ~focused',
         Differs(x, value') => hasty \/ mail' = WZ!(+)(WZ!(-)(mail, WZ!SetToBag({m})), Parting(x)),
         stray' \in BOOLEAN, stray' => hasty,
         UNCHANGED <<cursor, selected, opened, hasty, spoiled>>
  PROVE  WizInv'
<1>1. /\ cursor \in WZ!Configs /\ cfg \in [WZ!Configs -> ConfigRecord]
      /\ \A d \in WZ!Configs : (cfg[d].focused <=> d = cursor) /\ InWindow(cfg[d], d)
                               /\ (cfg[d].child # WZ!Closed => cfg[d].focused)
  BY DEF WizInv, WizTypes, WizFocus
<1>2. cfg' \in [WZ!Configs -> ConfigRecord] /\ cfg'[cursor] = x
      /\ \A d \in WZ!Configs \ {cursor} : cfg'[d] = cfg[d]
  BY <1>1
<1>3. \A d \in WZ!Configs : InWindow(cfg'[d], d)
  BY <1>1, <1>2
<1>4. WizTypes'
  BY <1>2, <1>3 DEF WizInv, WizTypes, InWindow, HasParam, Drawn, WZ!Configs, WZ!NoItem, WZ!Cancelled,
     WZ!Closed, WZ!Drawn, WZ!LastLine, ConfigRecord, ChildRecord
<1> DEFINE left == WZ!(-)(mail, WZ!SetToBag({m}))
           goodbye == WZ!Close("updater", x.child.id)
<1>5. WZ!IsABag(left) /\ \A y \in DOMAIN left : IsLetter(y)
  BY LetterFacts, MailTypes
<1>6. IsLetter(goodbye) /\ IsOf(goodbye, x) /\ Parting(x) = WZ!SetToBag({goodbye})
  BY DEF IsLetter, IsOf, WZ!Close, Parting
<1> HIDE DEF left, goodbye
<1>7. WZ!IsABag(mail') /\ \A y \in DOMAIN mail' : IsLetter(y)
  <2>1. WZ!IsABag(WZ!(+)(left, Parting(x))) /\ \A y \in DOMAIN WZ!(+)(left, Parting(x)) : IsLetter(y)
    BY <1>5, <1>6, MailTypes
  <2>2. mail' = left \/ mail' = WZ!(+)(left, Parting(x))
    BY DEF left
  <2> QED
    BY <1>5, <2>1, <2>2
<1>8. WizMail'
  <2>1. WZ!IsABag(mail)' /\ \A y \in DOMAIN mail' : IsLetter(y)'
    BY <1>7 DEF WZ!IsABag, IsLetter
  <2> QED
    BY <2>1 DEF WizMail
<1>9. WizFocus'
  BY <1>1, <1>2 DEF WizFocus, WZ!Configs, WZ!Closed
<1>10. WizCalm'
  <2> SUFFICES ASSUME ~hasty PROVE
        /\ mail' = WZ!EmptyBag' \/ \E n : mail' = WZ!SetToBag({n})' /\ ~focused' /\ IsOf(n, cfg[cursor])'
        /\ ~focused' /\ Differs(cfg[cursor], value)' => mail' = Parting(cfg[cursor])'
    BY DEF WizCalm
  <2>1. left = WZ!EmptyBag /\ WZ!(+)(left, Parting(x)) = WZ!SetToBag({goodbye})
    BY <1>6, LetterFacts, MailBags DEF left
  <2>2. cfg[cursor]' = x
    BY <1>2
  <2>3. mail' = WZ!EmptyBag \/ \E n : mail' = WZ!SetToBag({n}) /\ ~focused' /\ IsOf(n, x)
    BY <1>6, <2>1 DEF left
  <2>4. Differs(x, value') => mail' = Parting(x)
    BY <1>6, <2>1 DEF left
  <2>5. mail' = WZ!EmptyBag' \/ \E n : mail' = WZ!SetToBag({n})' /\ ~focused' /\ IsOf(n, cfg[cursor])'
    BY <2>2, <2>3 DEF WZ!EmptyBag, WZ!SetToBag, IsOf
  <2>6. Differs(cfg[cursor], value)' => mail' = Parting(cfg[cursor])'
    BY <2>2, <2>4 DEF Differs, Parting, WZ!Closed, WZ!SetToBag, WZ!Close
  <2> QED
    BY <2>5, <2>6
<1>11. WizTold'
  BY DEF WizInv, WizTold
<1> QED
  BY <1>4, <1>8, <1>9, <1>10, <1>11 DEF WizInv

\* What the open window holds.
LEMMA AtWindow ==
  ASSUME WizInv, ~focused
  PROVE  /\ cursor \in WZ!Configs /\ cfg \in [WZ!Configs -> ConfigRecord] /\ cfg[cursor] \in ConfigRecord
         /\ cfg[cursor].child \in ChildRecord /\ cfg[cursor].line \in Nat \ {0}
         /\ cfg[cursor].line \in 1..(WZ!LastLine(cursor) + LinesBeyond)
         /\ cfg[cursor].focused /\ InWindow(cfg[cursor], cursor) /\ HasParam(cfg[cursor].child)
         /\ DOMAIN value = DOMAIN ParamKind /\ \A p \in DOMAIN ParamKind : value[p] \in ParamValues[p]
         /\ focused = FALSE /\ stray \in BOOLEAN /\ (stray => hasty)
<1>1. cursor \in WZ!Configs /\ cfg[cursor].focused
  BY DEF WizInv, WizFocus
<1>2. /\ cfg \in [WZ!Configs -> ConfigRecord] /\ cfg[cursor] \in ConfigRecord
      /\ InWindow(cfg[cursor], cursor)
      /\ DOMAIN value = DOMAIN ParamKind /\ \A p \in DOMAIN ParamKind : value[p] \in ParamValues[p]
  BY <1>1 DEF WizInv, WizTypes
<1>3. cfg[cursor].child \in ChildRecord /\ cfg[cursor].line \in Nat \ {0}
      /\ cfg[cursor].line \in 1..(WZ!LastLine(cursor) + LinesBeyond)
      /\ HasParam(cfg[cursor].child)
  BY <1>2 DEF ConfigRecord, InWindow
<1>4. focused = FALSE /\ stray \in BOOLEAN /\ (stray => hasty)
  BY DEF WizInv, WizTypes, WizTold
<1> QED
  BY <1>1, <1>2, <1>3, <1>4

\* A message that sets something leaves no name, or text, that differs.
LEMMA SetFindsSame ==
  ASSUME WizInv, NEW m, WZ!BagIn(m, mail), m.type # "close"
  PROVE  ~hasty => ~Differs(cfg[cursor], value)
<1> SUFFICES ASSUME ~hasty, Differs(cfg[cursor], value) PROVE FALSE
  OBVIOUS
<1>1. mail = WZ!SetToBag({m}) /\ ~focused
  BY LetterFacts
<1>2. mail = Parting(cfg[cursor])
  BY <1>1 DEF WizInv, WizCalm
<1>3. DOMAIN mail = {m} /\ DOMAIN mail = {WZ!Close("updater", cfg[cursor].child.id)}
  BY <1>1, <1>2, MailBags DEF Parting
<1>4. m = WZ!Close("updater", cfg[cursor].child.id)
  BY <1>3
<1> QED
  BY <1>4 DEF WZ!Close

\* A message for the window of a parameter sets what it holds, or closes it.
LEMMA AppliedKept ==
  ASSUME WizInv, NEW m, WZ!BagIn(m, mail), ~focused, cfg[cursor].child # WZ!Closed, m.type # "close",
         WZ!Apply(cursor, m), UNCHANGED <<focused, cursor, selected, opened, hasty, spoiled>>
  PROVE  WizInv'
<1> DEFINE ch == cfg[cursor].child
           taken == WZ!(-)(mail, WZ!SetToBag({m}))
           saidBye == WZ!(+)(taken, Parting(cfg[cursor]))
           mine == (IF m.wnd = "form" THEN "new" ELSE m.wnd) = ParamKind[ch.par]
<1>1. /\ cursor \in WZ!Configs /\ cfg \in [WZ!Configs -> ConfigRecord] /\ cfg[cursor] \in ConfigRecord
      /\ ch \in ChildRecord /\ ch.par \in DOMAIN ParamKind /\ ch.par # WZ!Nothing
      /\ ch.draft \in ParamValues[ch.par] /\ ch.was \in ParamValues[ch.par]
      /\ cfg[cursor].focused /\ InWindow(cfg[cursor], cursor)
      /\ DOMAIN value = DOMAIN ParamKind /\ \A p \in DOMAIN ParamKind : value[p] \in ParamValues[p]
      /\ focused' = FALSE /\ stray \in BOOLEAN /\ (stray => hasty)
  BY AtWindow DEF HasParam
<1>2. /\ m.type = "set"
      /\ \/ m.wnd = "bool" /\ m.v \in {"on", "off"}
         \/ m.wnd = "date" /\ m.v = "now"
         \/ m.wnd = "form" /\ m.v \in {"yes", "no"}
         \/ m.wnd = "filepick" /\ \A p \in DOMAIN ParamKind : ParamKind[p] = "filepick" => m.v \in ParamValues[p]
  BY LetterFacts DEF IsLetter
<1>3. stray' \in BOOLEAN /\ (stray' => hasty)
  <2>1. stray' = (stray \/ (mine /\ m.id # ch.id))
    BY DEF WZ!Apply
  <2>2. ~hasty => m.id = ch.id
    BY <1>2, LetterFacts DEF IsOf
  <2> QED
    BY <1>1, <2>1, <2>2
<1>4. ~hasty => ~Differs(cfg[cursor], value)
  BY SetFindsSame
<1>5. focused' \in BOOLEAN /\ (cfg[cursor].focused <=> ~focused') /\ ~focused'
  BY <1>1
<1>6. cfg[cursor] \in ConfigRecord /\ (cfg' = cfg => cfg' = [cfg EXCEPT ![cursor] = cfg[cursor]])
  BY <1>1
<1>7. ASSUME NEW v, v \in ParamValues[ch.par], WZ!Assign(cursor, v)
      PROVE  DOMAIN value' = DOMAIN ParamKind /\ \A p \in DOMAIN ParamKind : value'[p] \in ParamValues[p]
  <2>1. value' = [value EXCEPT ![ch.par] = v]
    BY <1>7 DEF WZ!Assign
  <2> HIDE DEF ch
  <2> QED
    BY <1>1, <1>7, <2>1
<1>8. CASE ~mine
  <2>1. mail' = taken /\ UNCHANGED <<value, cfg>>
    BY <1>8 DEF WZ!Apply
  <2>2. Differs(cfg[cursor], value') => hasty
    BY <1>4, <2>1
  <2> QED
    BY <1>1, <1>3, <1>5, <1>6, <2>1, <2>2, LetterKept
<1>9. CASE mine /\ m.wnd = "bool"
  <2>1. WZ!Assign(cursor, m.v) /\ mail' = saidBye /\ UNCHANGED cfg
    BY <1>9 DEF WZ!Apply, Parting
  <2>2. ParamKind[ch.par] = "bool" /\ m.v \in ParamValues[ch.par]
    BY <1>1, <1>2, <1>9, WindowFacts
  <2>3. ~Differs(cfg[cursor], value')
    BY <2>2 DEF Differs
  <2>4. DOMAIN value' = DOMAIN ParamKind /\ \A p \in DOMAIN ParamKind : value'[p] \in ParamValues[p]
    BY <1>7, <2>1, <2>2
  <2> QED
    BY <1>1, <1>3, <1>5, <1>6, <2>1, <2>3, <2>4, LetterKept
<1>10. CASE mine /\ m.wnd = "date"
  <2>1. WZ!Assign(cursor, m.v) /\ mail' = taken /\ cfg' = [cfg EXCEPT ![cursor].child.draft = m.v]
    BY <1>10 DEF WZ!Apply
  <2>2. ParamKind[ch.par] = "date" /\ m.v \in ParamValues[ch.par]
    BY <1>1, <1>2, <1>10, WindowFacts
  <2> DEFINE ch2 == [ch EXCEPT !.draft = m.v]
  <2>3. m.v \in {WZ!Nothing} \union UNION {ParamValues[p] : p \in DOMAIN ParamKind}
    BY <1>1, <2>2
  <2>4. /\ ch2 \in ChildRecord /\ ch2.par = ch.par /\ ch2.was = ch.was /\ ch2.draft = m.v
        /\ cfg' = [cfg EXCEPT ![cursor].child = ch2]
    BY <1>1, <2>1, <2>3 DEF ChildRecord
  <2> HIDE DEF ch2
  <2> DEFINE x == [cfg[cursor] EXCEPT !.child = ch2]
  <2>5. /\ x \in ConfigRecord /\ x.focused = cfg[cursor].focused /\ x.line = cfg[cursor].line /\ x.child = ch2
        /\ cfg' = [cfg EXCEPT ![cursor] = x]
    BY <1>1, <2>4 DEF ConfigRecord
  <2> HIDE DEF x
  <2>6. InWindow(x, cursor)
    BY <1>1, <2>2, <2>4, <2>5 DEF InWindow, HasParam, Drawn
  <2>7. ~Differs(x, value')
    BY <2>2, <2>4, <2>5 DEF Differs
  <2>8. DOMAIN value' = DOMAIN ParamKind /\ \A p \in DOMAIN ParamKind : value'[p] \in ParamValues[p]
    BY <1>7, <2>1, <2>2
  <2>9. x.focused <=> ~focused'
    BY <1>5, <2>5
  <2> QED
    BY <1>1, <1>3, <1>5, <2>1, <2>5, <2>6, <2>7, <2>8, <2>9, LetterKept
<1>11. CASE mine /\ m.wnd = "filepick"
  <2>1. WZ!Assign(cursor, m.v) /\ mail' \in {taken, saidBye} /\ UNCHANGED cfg
    BY <1>11 DEF WZ!Apply, Parting
  <2>2. ParamKind[ch.par] = "filepick" /\ m.v \in ParamValues[ch.par]
    BY <1>1, <1>2, <1>11
  <2>3. ~Differs(cfg[cursor], value')
    BY <2>2 DEF Differs
  <2>4. DOMAIN value' = DOMAIN ParamKind /\ \A p \in DOMAIN ParamKind : value'[p] \in ParamValues[p]
    BY <1>7, <2>1, <2>2
  <2> QED
    BY <1>1, <1>3, <1>5, <1>6, <2>1, <2>3, <2>4, LetterKept
<1>12. CASE mine /\ m.wnd = "form"
  <2>1. /\ cfg' = [cfg EXCEPT ![cursor].child.asking = FALSE]
        /\ IF m.v = "yes" THEN WZ!Assign(cursor, ch.draft) /\ mail' = saidBye ELSE UNCHANGED value /\ mail' = taken
    BY <1>12 DEF WZ!Apply, Parting
  <2> DEFINE ch2 == [ch EXCEPT !.asking = FALSE]
  <2>4. /\ ch2 \in ChildRecord /\ ch2.par = ch.par /\ ch2.was = ch.was /\ ch2.draft = ch.draft /\ ch2.id = ch.id
        /\ cfg' = [cfg EXCEPT ![cursor].child = ch2]
    BY <1>1, <2>1 DEF ChildRecord
  <2> HIDE DEF ch2
  <2> DEFINE x == [cfg[cursor] EXCEPT !.child = ch2]
  <2>5. /\ x \in ConfigRecord /\ x.focused = cfg[cursor].focused /\ x.line = cfg[cursor].line /\ x.child = ch2
        /\ cfg' = [cfg EXCEPT ![cursor] = x]
    BY <1>1, <2>4 DEF ConfigRecord
  <2> HIDE DEF x
  <2>6. InWindow(x, cursor)
    BY <1>1, <2>4, <2>5 DEF InWindow, HasParam, Drawn
  <2>7. Parting(x) = Parting(cfg[cursor])
    BY <2>4, <2>5 DEF Parting
  <2>8. Differs(x, value) => hasty
    BY <1>4, <2>4, <2>5 DEF Differs
  <2>9. Differs(x, value') => hasty \/ mail' = saidBye
    BY <2>1, <2>8
  <2>10. DOMAIN value' = DOMAIN ParamKind /\ \A p \in DOMAIN ParamKind : value'[p] \in ParamValues[p]
    <3>1. CASE m.v = "yes"
      BY <1>1, <1>7, <2>1, <3>1
    <3>2. CASE m.v # "yes"
      BY <1>1, <2>1, <3>2
    <3> QED
      BY <3>1, <3>2
  <2>11. x.focused <=> ~focused'
    BY <1>5, <2>5
  <2>12. mail' = taken \/ mail' = WZ!(+)(taken, Parting(x))
    BY <2>1, <2>7
  <2> QED
    BY <1>1, <1>3, <1>5, <2>5, <2>6, <2>7, <2>9, <2>10, <2>11, <2>12, LetterKept
<1> QED
  BY <1>2, <1>8, <1>9, <1>10, <1>11, <1>12

\* A message finds the window it was for, or another, or none.
LEMMA ArriveKept == ASSUME WizInv, NEW m, WZ!Arrive(m) PROVE WizInv'
<1>1. WZ!BagIn(m, mail) /\ UNCHANGED <<cursor, selected, opened, hasty, spoiled>>
  BY DEF WZ!Arrive
<1> DEFINE taken == WZ!(-)(mail, WZ!SetToBag({m}))
<1>2. CASE focused
  <2>1. mail' = taken /\ UNCHANGED <<value, cfg, focused, stray>>
    BY <1>2 DEF WZ!Arrive
  <2>2. hasty
    BY <1>1, <1>2, LetterFacts
  <2>3. WizTypes'
    BY <1>1, <2>1 DEF WizInv, WizTypes, InWindow, HasParam, Drawn, WZ!Configs, WZ!NoItem, WZ!Cancelled,
       WZ!Closed, WZ!Drawn, WZ!LastLine, ConfigRecord, ChildRecord
  <2>4. WizMail'
    <3>1. WZ!IsABag(taken) /\ \A y \in DOMAIN taken : IsLetter(y)
      BY <1>1, LetterFacts, MailTypes
    <3>2. WZ!IsABag(mail)' /\ \A y \in DOMAIN mail' : IsLetter(y)'
      BY <2>1, <3>1 DEF WZ!IsABag, IsLetter
    <3> QED
      BY <3>2 DEF WizMail
  <2>5. WizFocus'
    BY <1>1, <2>1 DEF WizInv, WizFocus, WZ!Configs, WZ!Closed
  <2>6. WizCalm' /\ WizTold'
    BY <1>1, <2>1, <2>2 DEF WizCalm, WizTold, WizInv
  <2> QED
    BY <2>3, <2>4, <2>5, <2>6 DEF WizInv
<1>3. CASE ~focused /\ m.type = "close" /\ m.wnd = "cfgui"
  <2>1. /\ mail' = taken /\ UNCHANGED value /\ focused' = TRUE
        /\ cfg' = [cfg EXCEPT ![cursor] = WZ!NewConfig(cfg[cursor].line)]
        /\ stray' = (stray \/ m.id # cfg[cursor].id)
    BY <1>3 DEF WZ!Arrive
  <2> DEFINE x == WZ!NewConfig(cfg[cursor].line)
  <2>2. /\ x \in ConfigRecord /\ x.child = WZ!Closed /\ ~x.focused /\ InWindow(x, cursor)
    BY <1>3, AtWindow, NewWindow
  <2>3. stray' \in BOOLEAN /\ (stray' => hasty)
    <3>1. ~hasty => m.id = cfg[cursor].id
      BY <1>1, <1>3, LetterFacts DEF IsOf
    <3>2. stray \in BOOLEAN /\ (stray => hasty)
      BY <1>3, AtWindow
    <3> QED
      BY <2>1, <3>1, <3>2
  <2> HIDE DEF x
  <2>4. ~Differs(x, value')
    BY <2>2 DEF Differs
  <2>5. focused' \in BOOLEAN /\ (x.focused <=> ~focused')
    BY <2>1, <2>2, Zenon
  <2>6. cfg' = [cfg EXCEPT ![cursor] = x] /\ mail' = WZ!(-)(mail, WZ!SetToBag({m}))
    BY <2>1 DEF x
  <2>7. DOMAIN value' = DOMAIN ParamKind /\ \A p \in DOMAIN ParamKind : value'[p] \in ParamValues[p]
    BY <1>3, <2>1, AtWindow
  <2> QED
    BY <1>1, <1>3, <2>2, <2>3, <2>4, <2>5, <2>6, <2>7, LetterKept
<1>4. CASE ~focused /\ m.type = "close" /\ m.wnd # "cfgui"
  <2>1. /\ mail' = taken /\ UNCHANGED <<value, focused>>
        /\ cfg' = [cfg EXCEPT ![cursor].child = WZ!Closed]
        /\ stray' = (stray \/ (cfg[cursor].child # WZ!Closed /\ m.id # cfg[cursor].child.id))
    BY <1>4 DEF WZ!Arrive
  <2> DEFINE x == [cfg[cursor] EXCEPT !.child = WZ!Closed]
  <2>2. cfg[cursor] \in ConfigRecord /\ cfg[cursor].focused /\ WZ!Closed \in ChildRecord
        /\ cfg[cursor].line \in 1..(WZ!LastLine(cursor) + LinesBeyond)
    BY <1>4, AtWindow DEF WZ!Closed, ChildRecord
  <2>3. /\ x \in ConfigRecord /\ x.child = WZ!Closed /\ x.focused = cfg[cursor].focused
        /\ x.line = cfg[cursor].line
        /\ cfg' = [cfg EXCEPT ![cursor] = x]
    BY <2>1, <2>2 DEF ConfigRecord
  <2> HIDE DEF x
  <2>4. InWindow(x, cursor) /\ ~Differs(x, value')
    BY <2>2, <2>3 DEF InWindow, HasParam, Drawn, Differs
  <2>5. stray' \in BOOLEAN /\ (stray' => hasty)
    <3>1. ~hasty => m.id = cfg[cursor].child.id
      BY <1>1, <1>4, LetterFacts DEF IsOf
    <3>2. stray \in BOOLEAN /\ (stray => hasty)
      BY <1>4, AtWindow
    <3> QED
      BY <2>1, <3>1, <3>2
  <2>6. focused' \in BOOLEAN /\ (x.focused <=> ~focused')
    <3>1. focused = FALSE
      BY <1>4, AtWindow
    <3> QED
      BY <2>1, <2>2, <2>3, <3>1, Zenon
  <2>7. DOMAIN value' = DOMAIN ParamKind /\ \A p \in DOMAIN ParamKind : value'[p] \in ParamValues[p]
    BY <1>4, <2>1, AtWindow
  <2> QED
    BY <1>1, <1>4, <2>1, <2>3, <2>4, <2>5, <2>6, <2>7, LetterKept
<1>5. CASE ~focused /\ m.type # "close" /\ cfg[cursor].child = WZ!Closed
  <2>1. mail' = taken /\ UNCHANGED <<value, cfg, focused, stray>>
    BY <1>5 DEF WZ!Arrive
  <2>2. /\ cfg[cursor] \in ConfigRecord /\ cfg[cursor].focused /\ InWindow(cfg[cursor], cursor)
        /\ DOMAIN value = DOMAIN ParamKind /\ \A p \in DOMAIN ParamKind : value[p] \in ParamValues[p]
        /\ focused = FALSE /\ stray \in BOOLEAN /\ (stray => hasty)
        /\ cfg = [cfg EXCEPT ![cursor] = cfg[cursor]]
    BY <1>5, AtWindow
  <2>3. ~Differs(cfg[cursor], value')
    BY <1>5 DEF Differs
  <2> QED
    BY <1>1, <1>5, <2>1, <2>2, <2>3, LetterKept
<1>6. CASE ~focused /\ m.type # "close" /\ cfg[cursor].child # WZ!Closed
  <2>1. WZ!Apply(cursor, m) /\ UNCHANGED focused
    BY <1>6 DEF WZ!Arrive
  <2> QED
    BY <1>1, <1>6, <2>1, AppliedKept
<1> QED
  BY <1>2, <1>3, <1>4, <1>5, <1>6

\* Every action keeps the invariant of the wizard.
LEMMA WizStep == ASSUME WizInv, WZ!Next PROVE WizInv'
BY MenuMoveKept, MenuSelectKept, MenuQuitKept, AgainKept, ConfiguringKept, ArriveKept DEF WZ!Next

\* The invariant of the wizard implies what the run checks.
LEMMA WizTells == WizInv => WZ!TypeOK /\ WZ!FocusAgrees /\ WZ!StrayNeedsHaste /\ WZ!CancelKeeps
<1> SUFFICES ASSUME WizInv PROVE WZ!TypeOK /\ WZ!FocusAgrees /\ WZ!StrayNeedsHaste /\ WZ!CancelKeeps
  OBVIOUS
<1>1. WZ!TypeOK
  BY DEF WizInv, WizTypes, WizMail, InWindow, WZ!TypeOK, WZ!Params
<1>2. WZ!FocusAgrees
  BY DEF WizInv, WizTypes, WizFocus, InWindow, Drawn, WZ!FocusAgrees
<1> QED
  BY <1>1, <1>2 DEF WizInv, WizTold, WZ!StrayNeedsHaste, WZ!CancelKeeps

-----------------------------------------------------------------------------
(* The commands.                                                           *)

\* What a command does is a step of one of its parts, or none of the part.
LEMMA CommandsSteps == [CommandsNext]_all => [DC!Next]_(DC!vars) /\ [SE!Next]_(SE!vars)
<1>1. UNCHANGED dump => UNCHANGED DC!vars
  BY DEF dump, DC!vars
<1>2. UNCHANGED search => UNCHANGED SE!vars
  BY DEF search, SE!vars, SE!messages, SE!others
<1>3. Coordinating(Next) \/ Commanding(CM!Next) \/ Converting(SC!Next) \/ Calling(EC!Next)
        \/ Showing(WZ!Next, FL!Next, TE!Next) => UNCHANGED dump /\ UNCHANGED search
  BY DEF Coordinating, Commanding, Converting, Calling, Showing
<1>4. Dumping(DC!Next) => DC!Next /\ UNCHANGED search
  BY DEF Dumping
<1>5. Searching(SE!Next) => SE!Next /\ UNCHANGED dump
  BY DEF Searching
<1>6. UNCHANGED all => UNCHANGED dump /\ UNCHANGED search
  BY DEF all
<1> QED
  BY <1>1, <1>2, <1>3, <1>4, <1>5, <1>6 DEF CommandsNext

\* Whatever a command waits for is accounted for when it returns, for any callers and requests of the
\* coordinator of a dump, and for any pages of results, channels and capacity of a search: no error of
\* a conversion is lost (convert/transform/dump_coordinator.go), and a search that succeeds has recorded
\* every page and every channel on one, with no goroutine left to record more (stream/search.go).
THEOREM WaitsAreAccounted == CommandsSpec => []WaitsAccounted
<1>1. CommandsInit => DC!IInv /\ SearchInv
  BY DC!InitAccounted, SearchInitInv DEF CommandsInit
<1>2. DC!IInv /\ [CommandsNext]_all => DC!IInv'
  BY CommandsSteps, DC!StepAccounted
<1>3. SearchInv /\ [CommandsNext]_all => SearchInv'
  BY CommandsSteps, SearchStep
<1>4. DC!IInv => DC!TypeOK /\ DC!DumpAccounted
  BY DEF DC!IInv, DC!TypeOK, DC!Accounted, DC!DumpAccounted
<1>5. SearchInv => SE!TypeOK /\ SE!SearchWhole
  BY SearchIsWhole DEF SearchInv, SearchTypes
<1>6. DC!IInv /\ SearchInv => WaitsAccounted
  BY <1>4, <1>5 DEF WaitsAccounted
<1> QED
  BY <1>1, <1>2, <1>3, <1>6, PTL DEF CommandsSpec

\* A window nothing happens in keeps its invariant.
LEMMA WindowsStand ==
  /\ TimeInv /\ UNCHANGED <<time, cursor>> => TimeInv'
  /\ FolderInv /\ UNCHANGED <<list, cursor, hasty>> => FolderInv'
  /\ WizInv /\ UNCHANGED <<windows, cursor, hasty>> => WizInv'
<1>1. TimeInv /\ UNCHANGED <<time, cursor>> => TimeInv'
  BY DEF time, TimeInv, TE!TypeOK, TE!EntryIsTime, TE!OneField
<1>2. ASSUME FolderInv, UNCHANGED <<list, cursor, hasty>> PROVE FolderInv'
  <2>0. /\ UNCHANGED <<tree, Directory, viewStack, listed, reads, chosen, outside, dotted, cursor, hasty>>
        /\ FL!List(Directory)' = FL!List(Directory) /\ FL!Still' = FL!Still /\ Restored' = Restored
    BY <1>2, FolderStands DEF list
  <2>1. FolderTypes'
    BY <1>2, <2>0 DEF FolderInv, FolderTypes
  <2>2. FolderCalm'
    BY <1>2, <2>0 DEF FolderInv, FolderCalm, IsThere
  <2>3. FolderPlaces'
    BY <1>2, <2>0 DEF FolderInv, FolderPlaces
  <2> QED
    BY <2>1, <2>2, <2>3 DEF FolderInv
<1>3. ASSUME WizInv, UNCHANGED <<windows, cursor, hasty>> PROVE WizInv'
  <2>1. WizTypes' /\ WizMail' /\ WizFocus'
    BY <1>3 DEF windows, WizInv, WizTypes, WizMail, WizFocus
  <2>2. WizCalm'
    BY <1>3 DEF windows, WizInv, WizCalm
  <2>3. WizTold'
    BY <1>3 DEF windows, WizInv, WizTold
  <2> QED
    BY <2>1, <2>2, <2>3 DEF WizInv
<1> QED
  BY <1>1, <1>2, <1>3

\* The window a behaviour is about keeps its invariant.
WindowsInv ==
  /\ part = "wizard" => WizInv
  /\ part = "list" => FolderInv
  /\ part = "time" => TimeInv

\* A window begins with its invariant, and a step of the commands is one of the window or none of it.
LEMMA WindowsStart == CommandsInit => WindowsInv
BY WizStart, FolderStart, TimeStart DEF CommandsInit, WindowsInv

LEMMA WindowsStep == WindowsInv /\ [CommandsNext]_all => WindowsInv'
<1> SUFFICES ASSUME WindowsInv, [CommandsNext]_all PROVE WindowsInv'
  OBVIOUS
<1>1. CASE UNCHANGED <<part, gui>>
  BY <1>1, WindowsStand DEF gui, WindowsInv
<1>2. CASE Showing(WZ!Next, FL!Next, TE!Next)
  <2>1. part' = part
    BY <1>2 DEF Showing
  <2>2. CASE part = "wizard" /\ WZ!Next
    BY <2>1, <2>2, WizStep DEF WindowsInv
  <2>3. CASE part = "list" /\ FL!Next
    BY <2>1, <2>3, FolderStep DEF WindowsInv
  <2>4. CASE part = "time" /\ TE!Next
    BY <2>1, <2>4, TimeStep DEF WindowsInv
  <2> QED
    BY <1>2, <2>2, <2>3, <2>4 DEF Showing
<1>3. UNCHANGED all => UNCHANGED <<part, gui>>
  BY DEF all
<1>4. Coordinating(Next) \/ Commanding(CM!Next) \/ Dumping(DC!Next) \/ Converting(SC!Next) \/ Searching(SE!Next)
        \/ Calling(EC!Next) => UNCHANGED <<part, gui>>
  BY DEF Coordinating, Commanding, Dumping, Converting, Searching, Calling
<1> QED
  BY <1>1, <1>2, <1>3, <1>4 DEF CommandsNext

\* The windows a command is set up in agree with what they show, for any menu, parameters, directories and
\* times: one window has the focus, and the line of its cursor is that of the parameter it edits; what comes
\* late or is cancelled changes nothing unless keys outran the messages (ui/bubbles/menu, ui/cfgui,
\* ui/updaters); a list is of its directory, and going back finds the directory one was in
\* (ui/bubbles/filemgr); whatever is typed is a time, and every time can be typed (ui/bubbles/btime).
THEOREM WindowsDoAgree == CommandsSpec => []WindowsAgree
<1>1. WindowsInv => WindowsAgree
  BY WizTells, FolderTells, TypedOver DEF WindowsInv, WindowsAgree, TimeInv
<1> QED
  BY <1>1, WindowsStart, WindowsStep, PTL DEF CommandsSpec
=============================================================================
