--------------------------- MODULE DumpCoordinator ---------------------------
(***************************************************************************)
(* transform.Coordinator (internal/convert/transform/dump_coordinator.go), *)
(* which converts channels and threads for the dump command while the      *)
(* stream still fetches others.  Its two Go channels, of requests and of   *)
(* errors, have no buffer: the worker takes a request only from a caller   *)
(* that waits in Transform, and hands an error only to a caller that asks  *)
(* for one, on entering Transform or in Wait.  A conversion                *)
(* (transform/dump.go) is what it reads, in order: the channel, all its    *)
(* messages, and the replies of each thread started among them; or of a    *)
(* single thread its replies.  Then the file is written.                   *)
(***************************************************************************)
EXTENDS FiniteSets, TLAPS

CONSTANTS
  Callers,    \* goroutines calling Transform: the workers of the stream
  Requests,   \* what they have to place
  Failing,    \* requests whose conversion fails
  MayCancel   \* the context may be cancelled

VARIABLES
  worker,     \* "recv", "convert", "send" or "ended"; cur is its request
  cur,
  caller,     \* "idle", "enter" or "put" with its request
  job,
  waiter,     \* Wait: "idle", "wait", "nil" or "error"
  requestsOpen,
  cancelled,
  fate        \* history: of each request "new", "placed", "done", "failed", "told" or "refused"

vars == <<worker, cur, caller, job, waiter, requestsOpen, cancelled, fate>>

None == "none"

Init ==
  /\ worker = "recv" /\ cur = None
  /\ caller = [c \in Callers |-> "idle"] /\ job = [c \in Callers |-> None]
  /\ waiter = "idle" /\ requestsOpen = TRUE /\ cancelled = FALSE
  /\ fate = [r \in Requests |-> "new"]

-----------------------------------------------------------------------------
(* Transform: each request is placed once. *)

Call(c, r) ==
  /\ caller[c] = "idle" /\ fate[r] = "new" /\ \A d \in Callers : job[d] # r
  /\ waiter = "idle"
  /\ caller' = [caller EXCEPT ![c] = "enter"] /\ job' = [job EXCEPT ![c] = r]
  /\ UNCHANGED <<worker, cur, waiter, requestsOpen, cancelled, fate>>

Leave(c) == caller' = [caller EXCEPT ![c] = "idle"] /\ job' = [job EXCEPT ![c] = None]

\* An error of an earlier conversion is returned instead of placing the request; there is one
\* only while the worker waits to hand it over.
Enter(c) ==
  /\ caller[c] = "enter"
  /\ IF worker = "send"
     THEN /\ worker' = "recv" /\ cur' = None /\ Leave(c)
          /\ fate' = [fate EXCEPT ![cur] = "told", ![job[c]] = "refused"]
     ELSE /\ caller' = [caller EXCEPT ![c] = "put"]
          /\ UNCHANGED <<worker, cur, job, fate>>
  /\ UNCHANGED <<waiter, requestsOpen, cancelled>>

\* The request goes from the caller to the worker; or the context is done.
Put(c) ==
  /\ caller[c] = "put"
  /\ \/ /\ worker = "recv"
        /\ worker' = "convert" /\ cur' = job[c] /\ fate' = [fate EXCEPT ![job[c]] = "placed"]
     \/ /\ cancelled
        /\ fate' = [fate EXCEPT ![job[c]] = "refused"] /\ UNCHANGED <<worker, cur>>
  /\ Leave(c)
  /\ UNCHANGED <<waiter, requestsOpen, cancelled>>

-----------------------------------------------------------------------------
(* The worker. *)

\* Mutation of Convert: the error of a conversion is only logged.
ConvertAndLog ==
  /\ worker = "convert" /\ worker' = "recv" /\ cur' = None
  /\ fate' = [fate EXCEPT ![cur] = IF cur \in Failing THEN "failed" ELSE "done"]
  /\ UNCHANGED <<caller, job, waiter, requestsOpen, cancelled>>

\* A cancelled context fails what a conversion reads.
Convert ==
  /\ worker = "convert"
  /\ \/ /\ cur \notin Failing
        /\ worker' = "recv" /\ cur' = None /\ fate' = [fate EXCEPT ![cur] = "done"]
     \/ /\ cur \in Failing \/ cancelled
        /\ worker' = "send" /\ fate' = [fate EXCEPT ![cur] = "failed"] /\ UNCHANGED cur
  /\ UNCHANGED <<caller, job, waiter, requestsOpen, cancelled>>

\* The requests are closed: so are the errors then.
End ==
  /\ worker = "recv" /\ ~requestsOpen
  /\ worker' = "ended"
  /\ UNCHANGED <<cur, caller, job, waiter, requestsOpen, cancelled, fate>>

-----------------------------------------------------------------------------
(* Wait, which the command calls when the run has succeeded: no caller is left then, as none *)
(* has returned an error.                                                                    *)

Wait ==
  /\ waiter = "idle" /\ \A c \in Callers : caller[c] = "idle"
  /\ \A r \in Requests : fate[r] \notin {"new", "refused"}
  /\ waiter' = "wait" /\ requestsOpen' = FALSE
  /\ UNCHANGED <<worker, cur, caller, job, cancelled, fate>>

Told == \E r \in Requests : fate[r] = "told"
WaitReceive ==
  /\ waiter = "wait"
  /\ \/ /\ worker = "send"
        /\ worker' = "recv" /\ cur' = None /\ fate' = [fate EXCEPT ![cur] = "told"]
        /\ UNCHANGED waiter
     \/ /\ worker = "ended"
        /\ waiter' = IF Told THEN "error" ELSE "nil"
        /\ UNCHANGED <<worker, cur, fate>>
  /\ UNCHANGED <<caller, job, requestsOpen, cancelled>>

Cancel ==
  /\ MayCancel /\ ~cancelled /\ waiter \in {"idle", "wait"} /\ cancelled' = TRUE
  /\ UNCHANGED <<worker, cur, caller, job, waiter, requestsOpen, fate>>

Worker == Convert \/ End
Caller(c) == Enter(c) \/ Put(c)
Next ==
  \/ \E c \in Callers : Caller(c) \/ \E r \in Requests : Call(c, r)
  \/ Worker \/ Wait \/ WaitReceive \/ Cancel

Spec == Init /\ [][Next]_vars

\* The worker and every caller go on when they can; nobody need call Transform again.
Goes == Worker \/ WaitReceive \/ \E c \in Callers : Caller(c)
FairSpec == Spec /\ WF_vars(Worker) /\ WF_vars(WaitReceive) /\ \A c \in Callers : WF_vars(Caller(c))

-----------------------------------------------------------------------------
(* Properties. *)

TypeOK ==
  /\ worker \in {"recv", "convert", "send", "ended"} /\ cur \in Requests \union {None}
  /\ caller \in [Callers -> {"idle", "enter", "put"}] /\ job \in [Callers -> Requests \union {None}]
  /\ waiter \in {"idle", "wait", "nil", "error"} /\ requestsOpen \in BOOLEAN /\ cancelled \in BOOLEAN
  /\ fate \in [Requests -> {"new", "placed", "done", "failed", "told", "refused"}]

\* No error of a conversion is lost: while one has not been returned by a call, the worker holds
\* it; a dump that ends well has converted every channel and thread.
DumpAccounted ==
  /\ \A r \in Requests : fate[r] = "failed" => worker = "send" /\ cur = r
  /\ waiter = "nil" => \A r \in Requests : fate[r] = "done"

\* Wait returns once it is called.
WaitReturns == waiter = "wait" ~> waiter \in {"nil", "error"}

\* chunk.go:274-275: "Transform is the function that starts the transformation of the channel or
\* thread with the given id".
TransformStarts == \A r \in Requests : (\E c \in Callers : job[c] = r) ~> fate[r] \notin {"new"}
-----------------------------------------------------------------------------
(* Proof of DumpAccounted for any callers, requests and failures.          *)

\* Requests that are converted, or whose error is not handed over, are in the worker's hands; calls
\* carry new requests, each its own; Wait is called when no request is left outside.
Accounted ==
  /\ \A r \in Requests : /\ fate[r] = "placed" => worker = "convert" /\ cur = r
                         /\ fate[r] = "failed" => worker = "send" /\ cur = r
  /\ worker \in {"convert", "send"} => cur \in Requests
  /\ worker = "convert" => fate[cur] = "placed"
  /\ worker = "send" => fate[cur] = "failed"
  /\ \A c \in Callers : caller[c] # "idle" => job[c] \in Requests /\ fate[job[c]] = "new"
  /\ \A c, d \in Callers : c # d /\ caller[c] # "idle" /\ caller[d] # "idle" => job[c] # job[d]
  /\ waiter # "idle" =>
       /\ \A c \in Callers : caller[c] = "idle"
       /\ \A r \in Requests : fate[r] \notin {"new", "refused"}
  /\ waiter \in {"nil", "error"} => worker = "ended"
  /\ waiter = "nil" => \A r \in Requests : fate[r] # "told"

IInv == TypeOK /\ Accounted

LEMMA InitAccounted == Init => IInv
BY DEF Init, IInv, TypeOK, Accounted, None

LEMMA StepAccounted == ASSUME IInv, [Next]_vars PROVE IInv'
<1> USE DEF IInv, TypeOK, Accounted
<1>1. ASSUME NEW c \in Callers, NEW r \in Requests, Call(c, r) PROVE IInv'
  BY <1>1 DEF Call
<1>2. ASSUME NEW c \in Callers, Enter(c) PROVE IInv'
  <2>1. CASE worker = "send"
    BY <1>2, <2>1 DEF Enter, Leave
  <2>2. CASE worker # "send"
    BY <1>2, <2>2 DEF Enter
  <2> QED
    BY <2>1, <2>2
<1>3. ASSUME NEW c \in Callers, Put(c) PROVE IInv'
  BY <1>3 DEF Put, Leave
<1>4. CASE Convert
  BY <1>4 DEF Convert
<1>5. CASE End
  BY <1>5 DEF End
<1>6. CASE Wait
  BY <1>6 DEF Wait
<1>7. CASE WaitReceive
  BY <1>7 DEF WaitReceive, Told
<1>8. CASE Cancel
  BY <1>8 DEF Cancel
<1>9. CASE UNCHANGED vars
  BY <1>9 DEF vars
<1> QED
  BY <1>1, <1>2, <1>3, <1>4, <1>5, <1>6, <1>7, <1>8, <1>9 DEF Next, Worker, Caller

\* For any callers, requests and failing conversions: the worker holds the error of a failed conversion
\* until a call or Wait has it, and a dump whose Wait returns nil has converted everything placed.
THEOREM NoDumpLost == Spec => []DumpAccounted
<1>1. IInv => DumpAccounted
  BY DEF IInv, TypeOK, Accounted, DumpAccounted
<1>2. IInv /\ [Next]_vars => IInv'
  BY StepAccounted
<1> QED
  BY <1>1, <1>2, InitAccounted, PTL DEF Spec
=============================================================================
