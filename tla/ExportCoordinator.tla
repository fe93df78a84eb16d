--------------------------- MODULE ExportCoordinator ---------------------------
(***************************************************************************)
(* transform.ExportCoordinator (internal/convert/transform/                *)
(* export_coordinator.go): conversion requests of the conversation workers *)
(* are queued on a bounded Go channel and served by one worker, which is   *)
(* held back until the users are known (Start) or the coordinator is       *)
(* closed.  Errors of conversions travel back on a channel of capacity 1   *)
(* and are picked up by the next call of Transform, Start or Close.        *)
(* A request is a model value; what a conversion writes is abstracted to   *)
(* whether it succeeded.                                                   *)
(***************************************************************************)
EXTENDS Integers, Sequences

CONSTANTS
  Clients,       \* goroutines calling Transform
  Requests,      \* the requests (channel ID, thread ts) they have to place
  BufferSize,    \* capacity of requestC
  MayFail,       \* a conversion may fail
  LateCalls      \* Transform may be called after Close has returned

ASSUME CoordinatorAssumption ==
  BufferSize \in Nat \ {0} /\ MayFail \in BOOLEAN /\ LateCalls \in BOOLEAN

None == "none"

VARIABLES
  closedFlag,   \* t.closed
  requestC,     \* queue of requests
  errC,         \* pending conversion errors, each the request that failed
  shut,         \* Go channels closed: "request", "start", "err"
  users,        \* the converter has users
  worker,       \* control point of the worker goroutine
  cur,          \* request being converted
  starter,      \* control point of the StartWithUsers call
  closer,       \* control point of the Close call, or what it returned
  client, job,  \* control point and request of each Transform call
  panicked,
  fate          \* history: what became of each request

clientVars == <<client, job>>
vars == <<closedFlag, requestC, errC, shut, users, worker, cur, starter, closer,
          clientVars, panicked, fate>>

\* fate of a request: not placed; queued or being converted; converted; failed with the
\* error not seen by any caller yet; failed and reported; refused with an error;
\* dropped although Transform returned nil.
Fates == {"new", "accepted", "converted", "failed", "reported", "refused", "dropped"}

Init ==
  /\ closedFlag = FALSE
  /\ requestC = <<>> /\ errC = <<>> /\ shut = {}
  /\ users = FALSE
  /\ worker = "wait" /\ cur = None
  /\ starter = "idle" /\ closer = "idle"
  /\ client = [c \in Clients |-> "idle"] /\ job = [c \in Clients |-> None]
  /\ panicked = FALSE
  /\ fate = [r \in Requests |-> "new"]

\* The receive of the pending error by some caller.
TakeError(f) ==
  /\ errC # <<>>
  /\ errC' = Tail(errC)
  /\ fate' = [f EXCEPT ![Head(errC)] = "reported"]

-----------------------------------------------------------------------------
(* Transform                                                               *)

\* Close must not be called before the last Transform is over (its doc comment), so a
\* call starts either before Close or after it has returned.
Call(c, r) ==
  /\ client[c] = "idle" /\ fate[r] = "new" /\ \A d \in Clients : job[d] # r
  /\ closer = "idle" \/ (LateCalls /\ closer \in {"nil", "error"})
  /\ client' = [client EXCEPT ![c] = "test"]
  /\ job' = [job EXCEPT ![c] = r]
  /\ UNCHANGED <<closedFlag, requestC, errC, shut, users, worker, cur, starter, closer,
                 panicked, fate>>

ReturnFrom(c) ==
  /\ client' = [client EXCEPT ![c] = "idle"]
  /\ job' = [job EXCEPT ![c] = None]

\* The first select: a pending error is returned and the request is refused; from the
\* closed err channel a nil error is received and returned.
TestError(c) ==
  /\ client[c] = "test"
  /\ \/ TakeError([fate EXCEPT ![job[c]] = "refused"]) /\ ReturnFrom(c)
     \/ /\ errC = <<>> /\ "err" \in shut
        /\ ReturnFrom(c)
        /\ fate' = [fate EXCEPT ![job[c]] = "dropped"]
        /\ UNCHANGED errC
     \/ /\ errC = <<>> /\ "err" \notin shut
        /\ client' = [client EXCEPT ![c] = "flag"]
        /\ UNCHANGED <<job, fate, errC>>
  /\ UNCHANGED <<closedFlag, requestC, shut, users, worker, cur, starter, closer, panicked>>

TestClosed(c) ==
  /\ client[c] = "flag"
  /\ \/ /\ closedFlag
        /\ ReturnFrom(c)
        /\ fate' = [fate EXCEPT ![job[c]] = "refused"]
     \/ /\ ~closedFlag
        /\ client' = [client EXCEPT ![c] = "put"]
        /\ UNCHANGED <<job, fate>>
  /\ UNCHANGED <<closedFlag, requestC, errC, shut, users, worker, cur, starter, closer,
                 panicked>>

\* Mutation of Put: a select with a default case, which loses the request.
PutOrSkip(c) ==
  /\ client[c] = "put"
  /\ IF Len(requestC) < BufferSize THEN requestC' = Append(requestC, job[c])
                                   ELSE UNCHANGED requestC
  /\ fate' = [fate EXCEPT ![job[c]] = "accepted"]
  /\ ReturnFrom(c)
  /\ UNCHANGED <<closedFlag, errC, shut, users, worker, cur, starter, closer, panicked>>

\* Mutation of Put: the channel is made one larger than the option asks for.
PutOneMore(c) ==
  /\ client[c] = "put" /\ Len(requestC) <= BufferSize
  /\ requestC' = Append(requestC, job[c])
  /\ fate' = [fate EXCEPT ![job[c]] = "accepted"]
  /\ ReturnFrom(c)
  /\ UNCHANGED <<closedFlag, errC, shut, users, worker, cur, starter, closer, panicked>>

\* t.requestC <- request{...}
Put(c) ==
  /\ client[c] = "put"
  /\ \/ /\ "request" \in shut
        /\ panicked' = TRUE
        /\ UNCHANGED <<requestC, clientVars, fate>>
     \/ /\ "request" \notin shut /\ Len(requestC) < BufferSize
        /\ requestC' = Append(requestC, job[c])
        /\ fate' = [fate EXCEPT ![job[c]] = "accepted"]
        /\ ReturnFrom(c)
        /\ UNCHANGED panicked
  /\ UNCHANGED <<closedFlag, errC, shut, users, worker, cur, starter, closer>>

-----------------------------------------------------------------------------
(* StartWithUsers: refused without users, when closed, when the context is *)
(* done or when an error is pending; otherwise hands the token over.       *)

StartWithUsers ==
  /\ starter = "idle" /\ closer = "idle"
  /\ \/ starter' = "failed" /\ UNCHANGED users
     \/ users' = TRUE /\ starter' = IF closedFlag THEN "failed" ELSE "select"
  /\ UNCHANGED <<closedFlag, requestC, errC, shut, worker, cur, closer, clientVars,
                 panicked, fate>>

StartSelect ==
  /\ starter = "select"
  /\ \/ starter' = "failed" /\ UNCHANGED <<errC, fate>>
     \/ starter' = "failed" /\ TakeError(fate)
     \/ errC = <<>> /\ "err" \notin shut /\ starter' = "put" /\ UNCHANGED <<errC, fate>>
  /\ UNCHANGED <<closedFlag, requestC, shut, users, worker, cur, closer, clientVars, panicked>>

\* t.start <- struct{}{} meets <-t.start
StartPut ==
  /\ starter = "put" /\ worker = "wait"
  /\ starter' = "done" /\ worker' = "recv"
  /\ UNCHANGED <<closedFlag, requestC, errC, shut, users, cur, closer, clientVars,
                 panicked, fate>>

-----------------------------------------------------------------------------
(* worker                                                                  *)

\* Mutation of StartClosed: the worker does not wait for the token.
StartUnheld ==
  /\ worker = "wait"
  /\ worker' = "recv"
  /\ UNCHANGED <<closedFlag, requestC, errC, shut, users, cur, starter, closer, clientVars,
                 panicked, fate>>

\* <-t.start on the channel closed by Close
StartClosed ==
  /\ worker = "wait" /\ "start" \in shut
  /\ worker' = "recv"
  /\ UNCHANGED <<closedFlag, requestC, errC, shut, users, cur, starter, closer, clientVars,
                 panicked, fate>>

Receive ==
  /\ worker = "recv"
  /\ \/ /\ requestC # <<>>
        /\ cur' = Head(requestC) /\ requestC' = Tail(requestC)
        /\ worker' = "convert"
        /\ UNCHANGED shut
     \/ /\ requestC = <<>> /\ "request" \in shut
        /\ worker' = "done" /\ shut' = shut \cup {"err"}
        /\ UNCHANGED <<cur, requestC>>
  /\ UNCHANGED <<closedFlag, errC, users, starter, closer, clientVars, panicked, fate>>

Convert ==
  /\ worker = "convert"
  /\ \/ /\ fate' = [fate EXCEPT ![cur] = "converted"]
        /\ worker' = "recv" /\ cur' = None
     \/ /\ MayFail
        /\ fate' = [fate EXCEPT ![cur] = "failed"]
        /\ worker' = "report" /\ UNCHANGED cur
  /\ UNCHANGED <<closedFlag, requestC, errC, shut, users, starter, closer, clientVars, panicked>>

\* t.err <- err, on a channel of capacity 1
Report ==
  /\ worker = "report" /\ errC = <<>>
  /\ errC' = <<cur>>
  /\ worker' = "recv" /\ cur' = None
  /\ UNCHANGED <<closedFlag, requestC, shut, users, starter, closer, clientVars, panicked, fate>>

-----------------------------------------------------------------------------
(* Close                                                                   *)

\* Mutation of Close: start is left open.
CloseWithoutStart ==
  /\ closer = "idle" /\ \A c \in Clients : client[c] = "idle"
  /\ starter \in {"idle", "done", "failed"}
  /\ closedFlag' = TRUE
  /\ shut' = shut \cup {"request"}
  /\ closer' = "wait"
  /\ UNCHANGED <<requestC, errC, users, worker, cur, starter, clientVars, panicked, fate>>

\* The first call: the flag is swapped, both channels are closed.  A later call returns nil.
Close ==
  /\ closer = "idle" /\ \A c \in Clients : client[c] = "idle"
  /\ starter \in {"idle", "done", "failed"}
  /\ closedFlag' = TRUE
  /\ shut' = shut \cup {"request", "start"}
  /\ closer' = "wait"
  /\ UNCHANGED <<requestC, errC, users, worker, cur, starter, clientVars, panicked, fate>>

\* Mutation of CloseReturn: Close does not wait for the worker.
CloseReturnAtOnce ==
  /\ closer = "wait"
  /\ \/ TakeError(fate) /\ closer' = "error"
     \/ errC = <<>> /\ closer' = "nil" /\ UNCHANGED <<errC, fate>>
  /\ UNCHANGED <<closedFlag, requestC, shut, users, worker, cur, starter, clientVars, panicked>>

\* return <-t.err
CloseReturn ==
  /\ closer = "wait"
  /\ \/ TakeError(fate) /\ closer' = "error"
     \/ errC = <<>> /\ "err" \in shut /\ closer' = "nil" /\ UNCHANGED <<errC, fate>>
  /\ UNCHANGED <<closedFlag, requestC, shut, users, worker, cur, starter, clientVars, panicked>>

-----------------------------------------------------------------------------

Transform(c) == (\E r \in Requests : Call(c, r)) \/ TestError(c) \/ TestClosed(c) \/ Put(c)
Start == StartWithUsers \/ StartSelect \/ StartPut
Worker == StartClosed \/ Receive \/ Convert \/ Report

Next ==
  \/ \E c \in Clients : Transform(c)
  \/ Start
  \/ Worker
  \/ Close \/ CloseReturn

Spec == Init /\ [][Next]_vars

\* The worker goroutine and the calls in progress are scheduled; StartWithUsers is
\* called once the users are fetched.  Callers need not call Transform or Close.
Fairness ==
  /\ WF_vars(Worker)
  /\ WF_vars(Start)
  /\ WF_vars(CloseReturn)
  /\ \A c \in Clients : WF_vars(TestError(c)) /\ WF_vars(TestClosed(c)) /\ WF_vars(Put(c))

FairSpec == Spec /\ Fairness

-----------------------------------------------------------------------------
(* Properties                                                              *)

\* Every variable has its type; the request queue and the error slot keep their capacity.
TypeOK ==
  /\ closedFlag \in BOOLEAN /\ users \in BOOLEAN /\ panicked \in BOOLEAN
  /\ requestC \in Seq(Requests) /\ Len(requestC) <= BufferSize
  /\ errC \in Seq(Requests) /\ Len(errC) <= 1
  /\ shut \subseteq {"request", "start", "err"}
  /\ worker \in {"wait", "recv", "convert", "report", "done"}
  /\ cur \in Requests \cup {None}
  /\ starter \in {"idle", "select", "put", "done", "failed"}
  /\ closer \in {"idle", "wait", "nil", "error"}
  /\ client \in [Clients -> {"idle", "test", "flag", "put"}]
  /\ job \in [Clients -> Requests \cup {None}]
  /\ fate \in [Requests -> Fates]

\* A request Transform has accepted is in the queue or in the worker's hands until it is
\* converted or failed: none is lost and none is converted twice.
InQueue(r) == \E i \in DOMAIN requestC : requestC[i] = r
InHand(r) == worker = "convert" /\ cur = r
NoRequestLost ==
  \A r \in Requests : fate[r] = "accepted" => InQueue(r) \/ InHand(r)

\* A failed conversion whose error nobody has seen is still on its way to a caller.
NoErrorLost ==
  \A r \in Requests : fate[r] = "failed" =>
     (worker = "report" /\ cur = r) \/ errC = <<r>>

\* When Close returns nil, every accepted request has been converted, or its error was
\* returned by an earlier Transform or Start.
NilMeansDone ==
  closer = "nil" => \A r \in Requests : fate[r] \notin {"accepted", "failed"}

\* Nothing is converted before the users are known, unless the coordinator was closed
\* without having been started.
UsersBeforeConversion ==
  closer = "idle" /\ ~users =>
    \A r \in Requests : fate[r] \notin {"converted", "failed", "reported"}

\* A Transform that finds the queue full returns once there is room, and with the
\* coordinator started there will be, unless the worker hangs for ever on a second error
\* while the first has not been picked up.
TransformReturns ==
  \A c \in Clients :
    [](starter = "done" /\ client[c] = "put"
         => <>(client[c] = "idle" \/ [](worker = "report" /\ errC # <<>>)))

\* Close returns whether or not the coordinator was ever started.
CloseReturns == closer = "wait" ~> closer \in {"nil", "error"}

\* Neither call hangs: not a Transform on a full queue, not a Close behind pending errors.
CallsReturn == TransformReturns /\ CloseReturns
=============================================================================
