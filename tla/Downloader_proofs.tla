--------------------------- MODULE Downloader_proofs ---------------------------
(***************************************************************************)
(* Proofs about the downloader for any callers, files, workers, buffer and *)
(* number of attempts: Stop leaves nothing behind, each file is handled    *)
(* once, and what is reported as saved is whole.                           *)
(***************************************************************************)
EXTENDS MCFiles, SequenceTheorems, FiniteSetTheorems, TLAPS

Key(f) == <<Url[f], Path[f]>>

\* The variables, as far as the arguments below need them.
WorkerState ==
  [pc : {"gone", "recv", "fetch", "copy"}, file : Files \union {NoFile}, tries : 0..Retries,
   tmp : Seq({<<Url[f], i>> : f \in Files, i \in 1..2}), pos : 0..2]
Types ==
  /\ holder \in Callers \union {Nobody, Owner}
  /\ started \in BOOLEAN /\ closed \in BOOLEAN /\ filtered \in BOOLEAN
  /\ sentinel \in BOOLEAN /\ cancelled \in BOOLEAN
  /\ owner \in {"idle", "running", "waiting"}
  /\ sessions \in Nat /\ done \in 0..1
  /\ caller \in [Callers -> [pc : {"idle", "sending"}, todo : Seq(Files \union Invalid)]]
  /\ \A c \in Callers : caller[c].pc = "sending" =>
       caller[c].todo # <<>> /\ Head(caller[c].todo) \notin Invalid
  /\ requests \in Seq(Files) /\ Len(requests) <= Buffer
  /\ hand = <<>> \/ \E f \in Files : hand = <<f>>
  /\ worker \in [Workers -> WorkerState]
  /\ accepted \subseteq Files
  /\ handled \in [Files -> Nat]
  /\ result \in [Files -> {"none", "failed", "saved"}]
  /\ DOMAIN files = Paths

\* Who holds the mutex, what is open, and in which order things end.
InFlight(w) == worker[w].pc \in {"fetch", "copy"}
Lifecycle ==
  /\ \A c \in Callers : holder = c <=> caller[c].pc = "sending"
  /\ holder = Owner <=> owner = "waiting"
  /\ started <=> owner = "running"
  /\ holder \in Callers => started
  /\ owner = "running" => ~closed /\ filtered
  /\ filtered => sentinel
  /\ ~filtered => requests = <<>> /\ hand = <<>> /\ owner # "running"
  /\ \A w \in Workers : worker[w].pc = "gone" => worker[w] = Gone /\ hand = <<>> /\ ~filtered
  /\ ~sentinel => \A w \in Workers : worker[w] = Gone
  /\ owner = "idle" => ~sentinel
  /\ done = 1 <=> owner = "waiting" /\ ~sentinel

\* A file is let through once, whatever else has its address and destination.
Once ==
  /\ \A w \in Workers : ~InFlight(w) => worker[w].file = NoFile
  /\ \A f \in Files : handled[f] <= 1 /\ (handled[f] > 0 => Key(f) \in seen /\ f \in accepted)
  /\ \A f \in Files : hand = <<f>> => Key(f) \in seen /\ f \in accepted
  /\ \A f, g \in Files : hand = <<f>> /\ Key(g) = Key(f) => handled[g] = 0
  /\ \A f, g \in Files : handled[f] > 0 /\ handled[g] > 0 /\ Key(f) = Key(g) => f = g
  /\ \A w \in Workers : InFlight(w) =>
       worker[w].file \in Files /\ handled[worker[w].file] = 1 /\ result[worker[w].file] = "none"
  /\ \A v, w \in Workers : InFlight(v) /\ InFlight(w) /\ worker[v].file = worker[w].file => v = w
  /\ \A f \in Files : result[f] # "none" => handled[f] = 1

\* What was accepted is in the queue, on its way, or done.
Answered(k) ==
  \E g \in accepted : Key(g) = k /\
    (result[g] # "none" \/ hand = <<g>> \/ \E w \in Workers : InFlight(w) /\ worker[w].file = g)
Kept ==
  /\ \A i \in DOMAIN requests : requests[i] \in accepted
  /\ \A k \in seen : Answered(k)
  /\ \A f \in accepted : Key(f) \in seen \/ \E i \in DOMAIN requests : requests[i] = f

\* How far the temporary and the output file of a worker are.
Half(f) == << <<Url[f], 1>> >>
Part(f, n) == IF n = 0 THEN <<>> ELSE IF n = 1 THEN Half(f) ELSE Whole(f)
Contested(f) == \E g \in accepted : Path[g] = Path[f] /\ Url[g] # Url[f]
Content ==
  /\ \A w \in Workers : worker[w].pc = "fetch" =>
       worker[w].pos = 0 /\ worker[w].tmp \in {<<>>, Half(worker[w].file)}
  /\ \A w \in Workers : worker[w].pc = "copy" =>
       /\ worker[w].tmp = Whole(worker[w].file)
       /\ files[Path[worker[w].file]] = Part(worker[w].file, worker[w].pos)
            \/ Contested(worker[w].file)
  /\ SavedIsWhole

IInv == Types /\ Lifecycle /\ Once /\ Kept /\ Content

LEMMA IdleState == Idle \in WorkerState /\ Gone \in WorkerState /\ Gone.pc = "gone" /\ Idle.pc = "recv"
                   /\ Gone.file = NoFile /\ Idle.file = NoFile
<1> DEFINE tmps == Seq({<<Url[f], i>> : f \in Files, i \in 1..2})
<1>1. <<>> \in tmps /\ 0 \in 0..Retries /\ 0 \in 0..2 /\ NoFile \in Files \union {NoFile}
  BY DownloaderAssumption
<1> HIDE DEF tmps
<1>2. Idle \in [pc : {"gone", "recv", "fetch", "copy"}, file : Files \union {NoFile}, tries : 0..Retries,
               tmp : tmps, pos : 0..2]
      /\ Idle.pc = "recv" /\ Idle.file = NoFile
  BY <1>1 DEF Idle
<1>3. Gone \in [pc : {"gone", "recv", "fetch", "copy"}, file : Files \union {NoFile}, tries : 0..Retries,
               tmp : tmps, pos : 0..2]
      /\ Gone.pc = "gone" /\ Gone.file = NoFile
  BY <1>2 DEF Gone
<1> QED
  BY <1>2, <1>3 DEF WorkerState, tmps

LEMMA InitIInv == Init => IInv
<1> SUFFICES ASSUME Init PROVE IInv
  OBVIOUS
<1>1. worker \in [Workers -> WorkerState] /\ \A w \in Workers : worker[w] = Gone
  BY IdleState DEF Init
<1>c. caller \in [Callers -> [pc : {"idle", "sending"}, todo : Seq(Files \union Invalid)]]
      /\ \A c \in Callers : caller[c].pc = "idle"
  BY DownloaderAssumption DEF Init
<1>2. Types
  <2>1. requests \in Seq(Files) /\ Len(requests) <= Buffer
    BY DownloaderAssumption DEF Init
  <2>2. handled \in [Files -> Nat] /\ result \in [Files -> {"none", "failed", "saved"}]
        /\ DOMAIN files = Paths
    BY DEF Init
  <2> QED
    <3>1. /\ holder = Nobody /\ started = FALSE /\ owner = "idle" /\ sessions = 0 /\ closed = FALSE
          /\ hand = <<>> /\ filtered = FALSE /\ sentinel = FALSE /\ done = 0 /\ cancelled = FALSE
          /\ accepted = {}
      BY DEF Init
    <3> QED
      <4>1. holder \in Callers \union {Nobody, Owner} /\ sessions \in Nat /\ done \in 0..1
        BY <3>1
      <4>2. \A c \in Callers : caller[c].pc = "sending" => FALSE
        BY <1>c
      <4>3. (hand = <<>> \/ \E f \in Files : hand = <<f>>) /\ accepted \subseteq Files
        BY <3>1
      <4>4. started \in BOOLEAN /\ closed \in BOOLEAN /\ filtered \in BOOLEAN
            /\ sentinel \in BOOLEAN /\ cancelled \in BOOLEAN /\ owner \in {"idle", "running", "waiting"}
        BY <3>1
      <4> QED
        BY <1>1, <1>c, <2>1, <2>2, <4>1, <4>2, <4>3, <4>4 DEF Types
<1>3. Lifecycle
  BY <1>1, <1>c, DownloaderAssumption DEF Init, Lifecycle, Nobody, Owner
<1>4. \A w \in Workers : ~InFlight(w) /\ worker[w].file = NoFile /\ worker[w].pc = "gone"
  BY <1>1, IdleState DEF InFlight
<1>5. Once /\ Kept /\ Content
  BY <1>4 DEF Init, Once, Kept, Content, SavedIsWhole
<1> QED
  BY <1>2, <1>3, <1>5 DEF IInv

-----------------------------------------------------------------------------
(* What a step leaves alone.                                               *)

LEMMA OnceStays == ASSUME Once, UNCHANGED <<worker, handled, seen, accepted, hand, result>> PROVE Once'
BY DEF Once, InFlight, Key

LEMMA KeptStays == ASSUME Kept, UNCHANGED <<worker, seen, accepted, hand, result, requests>> PROVE Kept'
BY DEF Kept, Answered, InFlight

LEMMA ContentStays == ASSUME Content, UNCHANGED <<worker, files, accepted, result>> PROVE Content'
BY DEF Content, Contested, SavedIsWhole

-----------------------------------------------------------------------------
(* The owner.                                                              *)

LEMMA StartKept == ASSUME IInv, Start PROVE IInv'
<1>1. /\ owner = "idle" /\ holder = Nobody /\ ~started /\ sessions' = sessions + 1
      /\ started' = TRUE /\ owner' = "running" /\ requests' = <<>> /\ closed' = FALSE
      /\ seen' = {} /\ hand' = <<>> /\ filtered' = TRUE /\ worker' = [w \in Workers |-> Idle]
      /\ sentinel' = TRUE /\ cancelled' = FALSE /\ accepted' = {}
      /\ handled' = [f \in Files |-> 0] /\ result' = [f \in Files |-> "none"]
      /\ UNCHANGED <<holder, caller, done, files>>
  BY DEF Start
<1>2. worker' \in [Workers -> WorkerState] /\ \A w \in Workers : worker'[w] = Idle
  BY <1>1, IdleState
<1>3. Types'
  <2>1. requests' \in Seq(Files) /\ Len(requests') <= Buffer
    BY <1>1, DownloaderAssumption
  <2>2. handled' \in [Files -> Nat] /\ result' \in [Files -> {"none", "failed", "saved"}]
        /\ sessions' \in Nat
    BY <1>1 DEF IInv, Types
  <2> QED
    BY <1>1, <1>2, <2>1, <2>2 DEF IInv, Types
<1>4. \A w \in Workers : worker'[w].file = NoFile /\ worker'[w].pc = "recv"
  BY <1>2, IdleState
<1>5. Lifecycle'
  BY <1>1, <1>2, <1>4, DownloaderAssumption DEF IInv, Types, Lifecycle
<1>6. Once' /\ Kept' /\ Content'
  BY <1>1, <1>4 DEF Once, Kept, Content, SavedIsWhole, InFlight
<1> QED
  BY <1>3, <1>5, <1>6 DEF IInv

LEMMA StopKept == ASSUME IInv, Stop \/ Stopped \/ Cancel PROVE IInv'
<1>1. UNCHANGED <<worker, handled, seen, accepted, hand, result, requests, files, filtered, sentinel, caller,
                  sessions>>
  BY DEF Stop, Stopped, Cancel, calls, queue, pool, history
<1>2. Types'
  <2>1. holder' \in Callers \union {Nobody, Owner} /\ started' \in BOOLEAN /\ closed' \in BOOLEAN
        /\ cancelled' \in BOOLEAN /\ owner' \in {"idle", "running", "waiting"} /\ done' \in 0..1
    <3>1. CASE Stop
      BY <3>1 DEF IInv, Types, Stop, pool
    <3>2. CASE Stopped
      BY <3>2 DEF IInv, Types, Stopped, queue
    <3>3. CASE Cancel
      BY <3>3 DEF IInv, Types, Cancel, calls, queue
    <3> QED
      BY <3>1, <3>2, <3>3
  <2> QED
    BY <1>1, <2>1 DEF IInv, Types
<1>3. Lifecycle'
  <2>1. CASE Stop
    BY <1>1, <2>1, DownloaderAssumption DEF IInv, Types, Lifecycle, Stop, pool, Nobody, Owner
  <2>2. CASE Stopped
    BY <1>1, <2>2, DownloaderAssumption DEF IInv, Types, Lifecycle, Stopped, queue, Nobody, Owner
  <2>3. CASE Cancel
    BY <1>1, <2>3 DEF IInv, Types, Lifecycle, Cancel, calls, queue
  <2> QED
    BY <2>1, <2>2, <2>3
<1> QED
  BY <1>1, <1>2, <1>3, OnceStays, KeptStays, ContentStays DEF IInv

-----------------------------------------------------------------------------
(* A caller.                                                               *)

LEMMA SkipKept == ASSUME IInv, NEW c \in Callers, Skip(c) PROVE IInv'
<1>1. /\ caller[c].pc = "idle" /\ caller[c].todo # <<>>
      /\ caller' = [caller EXCEPT ![c].todo = Tail(@)]
      /\ UNCHANGED <<holder, started, owner, sessions, queue, pool, history, files>>
  BY DEF Skip
<1>2. caller \in [Callers -> [pc : {"idle", "sending"}, todo : Seq(Files \union Invalid)]]
  BY DEF IInv, Types
<1>3. caller' \in [Callers -> [pc : {"idle", "sending"}, todo : Seq(Files \union Invalid)]]
      /\ \A d \in Callers : caller'[d].pc = caller[d].pc /\ (d # c => caller'[d] = caller[d])
  <2>1. caller[c].todo \in Seq(Files \union Invalid)
    BY <1>2
  <2>2. Tail(caller[c].todo) \in Seq(Files \union Invalid)
    BY <1>1, <2>1
  <2> QED
    BY <1>1, <1>2, <2>2
<1>4. Types'
  BY <1>1, <1>3 DEF IInv, Types, queue, pool, history
<1>5. Lifecycle'
  BY <1>1, <1>3 DEF IInv, Lifecycle, queue, pool, history
<1> QED
  BY <1>1, <1>4, <1>5, OnceStays, KeptStays, ContentStays DEF IInv, queue, pool, history

LEMMA LockKept == ASSUME IInv, NEW c \in Callers, Lock(c) PROVE IInv'
<1>1. /\ caller[c].pc = "idle" /\ caller[c].todo # <<>> /\ Head(caller[c].todo) \notin Invalid
      /\ holder = Nobody
      /\ UNCHANGED <<started, owner, sessions, queue, pool, history, files>>
  BY DEF Lock
<1>2. caller \in [Callers -> [pc : {"idle", "sending"}, todo : Seq(Files \union Invalid)]]
      /\ c # Nobody /\ c # Owner
  BY DownloaderAssumption DEF IInv, Types
<1>3. CASE started /\ holder' = c /\ caller' = [caller EXCEPT ![c].pc = "sending"]
  <2>1. caller' \in [Callers -> [pc : {"idle", "sending"}, todo : Seq(Files \union Invalid)]]
        /\ caller'[c].pc = "sending" /\ caller'[c].todo = caller[c].todo
        /\ \A d \in Callers \ {c} : caller'[d] = caller[d]
    BY <1>2, <1>3
  <2>2. Types'
    BY <1>1, <1>3, <2>1 DEF IInv, Types, queue, pool, history
  <2>3. Lifecycle'
    BY <1>1, <1>2, <1>3, <2>1, DownloaderAssumption DEF IInv, Types, Lifecycle, queue, pool, history
  <2> QED
    BY <1>1, <2>2, <2>3, OnceStays, KeptStays, ContentStays DEF IInv, queue, pool, history
<1>4. CASE caller' = [caller EXCEPT ![c].todo = <<>>] /\ UNCHANGED holder
  <2>1. caller' \in [Callers -> [pc : {"idle", "sending"}, todo : Seq(Files \union Invalid)]]
        /\ caller'[c].pc = "idle"
        /\ \A d \in Callers \ {c} : caller'[d] = caller[d]
    <3>1. <<>> \in Seq(Files \union Invalid)
      OBVIOUS
    <3> QED
      BY <1>1, <1>2, <1>4, <3>1
  <2>2. Types'
    BY <1>1, <1>4, <2>1 DEF IInv, Types, queue, pool, history
  <2>3. Lifecycle'
    BY <1>1, <1>2, <1>4, <2>1 DEF IInv, Types, Lifecycle, queue, pool, history
  <2> QED
    BY <1>1, <2>2, <2>3, OnceStays, KeptStays, ContentStays DEF IInv, queue, pool, history
<1> QED
  BY <1>3, <1>4 DEF Lock

LEMMA EnqueueKept == ASSUME IInv, NEW c \in Callers, Enqueue(c) PROVE IInv'
<1> DEFINE f == Head(caller[c].todo)
<1>1. /\ caller[c].pc = "sending" /\ Len(requests) < Buffer
      /\ requests' = Append(requests, f) /\ accepted' = accepted \union {f}
      /\ caller' = [caller EXCEPT ![c] = [pc |-> "idle", todo |-> Tail(@.todo)]]
      /\ holder' = Nobody
      /\ UNCHANGED <<started, owner, sessions, closed, seen, hand, filtered, worker, sentinel, done,
                     cancelled, handled, result, files>>
  BY DEF Enqueue, pool
<1>2. /\ caller \in [Callers -> [pc : {"idle", "sending"}, todo : Seq(Files \union Invalid)]]
      /\ caller[c].todo # <<>> /\ f \notin Invalid
  BY <1>1 DEF IInv, Types
<1>3. caller[c].todo \in Seq(Files \union Invalid)
  BY <1>2
<1>4. f \in Files /\ Tail(caller[c].todo) \in Seq(Files \union Invalid)
  BY <1>2, <1>3
<1>5. caller' \in [Callers -> [pc : {"idle", "sending"}, todo : Seq(Files \union Invalid)]]
      /\ caller'[c].pc = "idle" /\ \A d \in Callers \ {c} : caller'[d] = caller[d]
  BY <1>1, <1>2, <1>4
<1> HIDE DEF f
<1>6. requests \in Seq(Files) /\ Buffer \in Nat
  BY DownloaderAssumption DEF IInv, Types
<1>7. /\ requests' \in Seq(Files) /\ Len(requests') <= Buffer
      /\ DOMAIN requests \subseteq DOMAIN requests' /\ \A i \in DOMAIN requests : requests'[i] = requests[i]
      /\ Len(requests) + 1 \in DOMAIN requests' /\ requests'[Len(requests) + 1] = f
      /\ \A i \in DOMAIN requests' : i \in DOMAIN requests \/ requests'[i] = f
  BY <1>1, <1>4, <1>6
<1>8. Types'
  BY <1>1, <1>4, <1>5, <1>7 DEF IInv, Types
<1>9. holder = c /\ c # Nobody /\ c # Owner /\ started /\ owner = "running" /\ filtered
  BY <1>1, DownloaderAssumption DEF IInv, Lifecycle
<1>10. Lifecycle'
  BY <1>1, <1>5, <1>9, DownloaderAssumption DEF IInv, Types, Lifecycle, Nobody, Owner
<1>11. Once'
  BY <1>1 DEF IInv, Once, InFlight, Key
<1>12. Kept'
  <2>1. \A k : Answered(k) => Answered(k)'
    BY <1>1 DEF Answered, InFlight
  <2> QED
    BY <1>1, <1>7, <2>1 DEF IInv, Kept
<1>13. Content'
  BY <1>1 DEF IInv, Content, Contested, SavedIsWhole
<1> QED
  BY <1>8, <1>10, <1>11, <1>12, <1>13 DEF IInv

-----------------------------------------------------------------------------
(* The filter, and the end.                                                *)

LEMMA FilterKept == ASSUME IInv, Filter PROVE IInv'
<1>1. /\ filtered /\ hand = <<>> /\ requests # <<>> /\ requests' = Tail(requests)
      /\ UNCHANGED <<holder, started, owner, caller, sessions, closed, filtered, worker, sentinel, done,
                     cancelled, accepted, handled, result, files>>
  BY DEF Filter, calls, pool, history
<1>2. requests \in Seq(Files) /\ Len(requests) <= Buffer /\ Buffer \in Nat
  BY DownloaderAssumption DEF IInv, Types
<1>3. PICK f \in Files : f = Head(requests)
  BY <1>1, <1>2
<1>4. /\ requests' \in Seq(Files) /\ Len(requests') <= Buffer
      /\ \A i \in DOMAIN requests' : i + 1 \in DOMAIN requests /\ requests'[i] = requests[i + 1]
      /\ \A i \in DOMAIN requests : requests[i] = f \/ (i - 1 \in DOMAIN requests' /\ requests'[i - 1] = requests[i])
      /\ 1 \in DOMAIN requests /\ requests[1] = f
  BY <1>1, <1>2, <1>3
<1>5. f \in accepted
  BY <1>4 DEF IInv, Kept
<1>6. CASE Key(f) \in seen /\ UNCHANGED <<seen, hand>>
  <2>1. Types' /\ Lifecycle'
    BY <1>1, <1>4, <1>6 DEF IInv, Types, Lifecycle
  <2>2. Kept'
    <3>1. \A k : Answered(k) => Answered(k)'
      BY <1>1, <1>6 DEF Answered, InFlight
    <3>2. \A g \in accepted : Key(g) \in seen \/ \E i \in DOMAIN requests' : requests'[i] = g
      BY <1>4, <1>6 DEF IInv, Kept
    <3> QED
      BY <1>1, <1>4, <1>6, <3>1, <3>2 DEF IInv, Kept, Key
  <2> QED
    BY <1>1, <1>6, <2>1, <2>2, OnceStays, ContentStays DEF IInv
<1>7. CASE Key(f) \notin seen /\ seen' = seen \union {Key(f)} /\ hand' = <<f>>
  <2>1. Types'
    BY <1>1, <1>3, <1>4, <1>7 DEF IInv, Types
  <2>2. Lifecycle'
    BY <1>1, <1>7 DEF IInv, Lifecycle
  <2>3. \A g \in Files : hand' = <<g>> => g = f
    BY <1>7
  <2>4. \A g \in Files : Key(g) = Key(f) => handled[g] = 0
    BY <1>7 DEF IInv, Once, Types
  <2>5. Once'
    BY <1>1, <1>5, <1>7, <2>3, <2>4 DEF IInv, Once, InFlight, Key
  <2>6. Kept'
    <3>1. \A k : Answered(k) => Answered(k)'
      BY <1>1 DEF Answered, InFlight
    <3>2. Answered(Key(f))'
      BY <1>1, <1>5, <1>7 DEF Answered, Key
    <3>3. \A g \in accepted : Key(g) \in seen' \/ \E i \in DOMAIN requests' : requests'[i] = g
      BY <1>4, <1>7 DEF IInv, Kept
    <3> QED
      BY <1>1, <1>4, <1>7, <3>1, <3>2, <3>3 DEF IInv, Kept, Key
  <2> QED
    BY <1>1, <2>1, <2>2, <2>5, <2>6, ContentStays DEF IInv
<1> QED
  BY <1>3, <1>6, <1>7 DEF Filter, Key

LEMMA EndKept == ASSUME IInv, FilterEnd \/ Sentinel PROVE IInv'
<1>1. UNCHANGED <<holder, started, owner, caller, sessions, requests, closed, seen, hand, worker, cancelled,
                  accepted, handled, result, files>>
  BY DEF FilterEnd, Sentinel, calls, queue, pool, history
<1>2. CASE FilterEnd
  <2>1. filtered /\ hand = <<>> /\ requests = <<>> /\ closed /\ filtered' = FALSE /\ UNCHANGED <<sentinel, done>>
    BY <1>2 DEF FilterEnd, pool
  <2>2. owner # "running" /\ sentinel
    BY <2>1 DEF IInv, Lifecycle
  <2>3. Types'
    BY <1>1, <2>1 DEF IInv, Types
  <2>4. Lifecycle'
    BY <1>1, <2>1, <2>2 DEF IInv, Lifecycle
  <2> QED
    BY <1>1, <2>3, <2>4, OnceStays, KeptStays, ContentStays DEF IInv
<1>3. CASE Sentinel
  <2>1. /\ sentinel /\ (\A w \in Workers : worker[w] = Gone) /\ sentinel' = FALSE /\ done' = done + 1
        /\ UNCHANGED filtered
    BY <1>3 DEF Sentinel, queue
  <2>2. ~filtered /\ owner = "waiting" /\ done = 0
    <3>1. PICK w \in Workers : worker[w].pc = "gone"
      BY <2>1, DownloaderAssumption, IdleState
    <3>2. ~filtered
      BY <3>1 DEF IInv, Lifecycle
    <3> QED
      BY <2>1, <3>2 DEF IInv, Lifecycle, Types
  <2>3. done' = 1 /\ owner # "idle"
    BY <2>1, <2>2
  <2>4. Types'
    <3>1. sentinel' \in BOOLEAN
      BY <2>1
    <3>2. filtered' \in BOOLEAN
      BY <2>1 DEF IInv, Types
    <3>3. done' \in 0..1
      BY <2>3
    <3> QED
      BY <1>1, <3>1, <3>2, <3>3 DEF IInv, Types
  <2>5. Lifecycle'
    BY <1>1, <2>1, <2>2, <2>3 DEF IInv, Lifecycle
  <2> QED
    BY <1>1, <2>4, <2>5, OnceStays, KeptStays, ContentStays DEF IInv
<1> QED
  BY <1>2, <1>3

-----------------------------------------------------------------------------
(* The workers.                                                            *)

LEMMA TakeKept == ASSUME IInv, NEW w \in Workers, Take(w) PROVE IInv'
<1>1. PICK f \in Files : hand = <<f>>
  BY DEF Take, IInv, Types
<1>2. /\ worker[w].pc = "recv" /\ hand[1] = f /\ hand' = <<>>
      /\ worker' = [worker EXCEPT ![w] = [Idle EXCEPT !.pc = "fetch", !.file = f]]
      /\ handled' = [handled EXCEPT ![f] = @ + 1]
      /\ UNCHANGED <<holder, started, owner, caller, sessions, requests, closed, seen, filtered, sentinel,
                     done, cancelled, accepted, result, files>>
  BY <1>1 DEF Take, calls
<1> DEFINE new == [Idle EXCEPT !.pc = "fetch", !.file = f]
<1>3. new \in WorkerState /\ new.pc = "fetch" /\ new.file = f /\ new.pos = 0 /\ new.tmp = <<>>
  <2> DEFINE tmps == Seq({<<Url[g], i>> : g \in Files, i \in 1..2})
  <2>1. Idle \in [pc : {"gone", "recv", "fetch", "copy"}, file : Files \union {NoFile}, tries : 0..Retries,
                 tmp : tmps, pos : 0..2]
    BY IdleState DEF WorkerState
  <2> HIDE DEF tmps
  <2>2. new \in [pc : {"gone", "recv", "fetch", "copy"}, file : Files \union {NoFile}, tries : 0..Retries,
                tmp : tmps, pos : 0..2]
        /\ new.pc = "fetch" /\ new.file = f
    BY <2>1
  <2>3. new.pos = 0 /\ new.tmp = <<>>
    BY DEF Idle
  <2> QED
    BY <2>2, <2>3 DEF WorkerState, tmps
<1> HIDE DEF new
<1>4. worker \in [Workers -> WorkerState] /\ handled \in [Files -> Nat]
  BY DEF IInv, Types
<1>5. /\ worker' \in [Workers -> WorkerState] /\ worker'[w] = new
      /\ \A v \in Workers \ {w} : worker'[v] = worker[v]
      /\ handled' \in [Files -> Nat] /\ handled'[f] = handled[f] + 1
      /\ \A g \in Files \ {f} : handled'[g] = handled[g]
  BY <1>2, <1>3, <1>4 DEF new
<1>6. Types'
  BY <1>2, <1>5 DEF IInv, Types
<1>7. Lifecycle'
  BY <1>1, <1>2, <1>3, <1>5 DEF IInv, Lifecycle
<1>8. /\ \A g \in Files : Key(g) = Key(f) => handled[g] = 0
      /\ Key(f) \in seen /\ f \in accepted /\ handled[f] = 0 /\ result[f] = "none"
  BY <1>1, <1>4 DEF IInv, Once, Types
<1>9. \A v \in Workers : InFlight(v)' <=> InFlight(v) \/ v = w
  BY <1>2, <1>3, <1>5 DEF InFlight
<1>10. ~InFlight(w) /\ \A v \in Workers : InFlight(v) => worker[v].file # f
  BY <1>2, <1>8 DEF IInv, Once, InFlight
<1>11. Once'
  <2>1. \A g \in Files : hand' # <<g>>
    BY <1>2
  <2>2. \A g \in Files : handled'[g] <= 1 /\ (handled'[g] > 0 => Key(g) \in seen /\ g \in accepted)
    BY <1>5, <1>8 DEF IInv, Once
  <2>3. \A g, h \in Files : handled'[g] > 0 /\ handled'[h] > 0 /\ Key(g) = Key(h) => g = h
    BY <1>4, <1>5, <1>8 DEF IInv, Once
  <2>4. \A v \in Workers : InFlight(v)' =>
          worker'[v].file \in Files /\ handled'[worker'[v].file] = 1 /\ result[worker'[v].file] = "none"
    BY <1>3, <1>5, <1>8, <1>9, <1>10 DEF IInv, Once
  <2>5. \A v, u \in Workers : InFlight(v)' /\ InFlight(u)' /\ worker'[v].file = worker'[u].file => v = u
    BY <1>3, <1>5, <1>9, <1>10 DEF IInv, Once
  <2>6. \A v \in Workers : ~InFlight(v)' => worker'[v].file = NoFile
    BY <1>5, <1>9 DEF IInv, Once
  <2>7. \A g \in Files : result[g] # "none" => handled'[g] = 1
    BY <1>5, <1>8 DEF IInv, Once
  <2> QED
    BY <1>2, <2>1, <2>2, <2>3, <2>4, <2>5, <2>6, <2>7 DEF Once, Key
<1>12. Kept'
  <2>1. \A k : Answered(k) => Answered(k)'
    BY <1>1, <1>2, <1>3, <1>5, <1>9, <1>10 DEF Answered, Key
  <2> QED
    BY <1>2, <2>1 DEF IInv, Kept, Key
<1>13. Content'
  <2>1. \A v \in Workers : worker'[v].pc = "fetch" =>
          worker'[v].pos = 0 /\ worker'[v].tmp \in {<<>>, Half(worker'[v].file)}
    BY <1>3, <1>5 DEF IInv, Content
  <2>2. \A v \in Workers : worker'[v].pc = "copy" =>
          v # w /\ worker'[v] = worker[v]
    BY <1>3, <1>5
  <2>3. ASSUME NEW v \in Workers, worker'[v].pc = "copy"
        PROVE  /\ worker'[v].tmp = Whole(worker'[v].file)
               /\ \/ files'[Path[worker'[v].file]] = Part(worker'[v].file, worker'[v].pos)
                  \/ \E g \in accepted' : Path[g] = Path[worker'[v].file] /\ Url[g] # Url[worker'[v].file]
    <3>1. worker'[v] = worker[v] /\ worker[v].pc = "copy" /\ files' = files /\ accepted' = accepted
      BY <1>2, <2>2, <2>3
    <3>2. /\ worker[v].tmp = Whole(worker[v].file)
          /\ \/ files[Path[worker[v].file]] = Part(worker[v].file, worker[v].pos)
             \/ \E g \in accepted : Path[g] = Path[worker[v].file] /\ Url[g] # Url[worker[v].file]
      BY <3>1 DEF IInv, Content, Contested
    <3> QED
      BY <3>1, <3>2
  <2>4. SavedIsWhole'
    BY <1>2 DEF IInv, Content, SavedIsWhole
  <2> QED
    BY <2>1, <2>3, <2>4 DEF Content, Contested
<1> QED
  BY <1>6, <1>7, <1>11, <1>12, <1>13 DEF IInv

LEMMA LeaveKept == ASSUME IInv, NEW w \in Workers, Leave(w) PROVE IInv'
<1>1. /\ worker[w].pc = "recv" /\ hand = <<>> /\ ~filtered
      /\ worker' = [worker EXCEPT ![w] = Gone]
      /\ UNCHANGED <<holder, started, owner, caller, sessions, requests, closed, seen, hand, filtered, sentinel,
                     done, cancelled, accepted, handled, result, files>>
  BY DEF Leave, calls, queue, history
<1>2. /\ worker' \in [Workers -> WorkerState] /\ worker'[w] = Gone
      /\ \A v \in Workers \ {w} : worker'[v] = worker[v]
  BY <1>1, IdleState DEF IInv, Types
<1>3. Types'
  BY <1>1, <1>2 DEF IInv, Types
<1>4. Lifecycle'
  BY <1>1, <1>2 DEF IInv, Lifecycle
<1>5. ~InFlight(w) /\ \A v \in Workers : InFlight(v)' <=> InFlight(v)
  BY <1>1, <1>2, IdleState DEF InFlight
<1>6. Once'
  BY <1>1, <1>2, <1>5, IdleState DEF IInv, Once, Key
<1>7. Kept'
  <2>1. \A k : Answered(k) => Answered(k)'
    BY <1>1, <1>2, <1>5 DEF Answered, Key
  <2> QED
    BY <1>1, <2>1 DEF IInv, Kept, Key
<1>8. Content'
  BY <1>1, <1>2, IdleState DEF IInv, Content, Contested, SavedIsWhole
<1> QED
  BY <1>3, <1>4, <1>6, <1>7, <1>8 DEF IInv

\* An attempt has an end: the worker is free for the next file.
LEMMA FinishKept ==
  ASSUME IInv, NEW w \in Workers, InFlight(w), NEW what \in {"failed", "saved"}, Finish(w, what),
         what = "saved" => worker[w].pc = "copy" /\ worker[w].pos = 2,
         UNCHANGED <<calls, queue, sentinel, done, cancelled, accepted, handled, files>>
  PROVE  IInv'
<1>1. PICK f \in Files : f = worker[w].file
  BY DEF IInv, Once
<1>2. /\ result' = [result EXCEPT ![f] = what] /\ worker' = [worker EXCEPT ![w] = Idle]
      /\ UNCHANGED <<holder, started, owner, caller, sessions, requests, closed, seen, hand, filtered, sentinel,
                     done, cancelled, accepted, handled, files>>
  BY <1>1 DEF Finish, calls, queue
<1>3. /\ worker' \in [Workers -> WorkerState] /\ worker'[w] = Idle
      /\ \A v \in Workers \ {w} : worker'[v] = worker[v]
  BY <1>2, IdleState DEF IInv, Types
<1>4. /\ result' \in [Files -> {"none", "failed", "saved"}] /\ result'[f] = what /\ what # "none"
      /\ \A g \in Files \ {f} : result'[g] = result[g]
  BY <1>2 DEF IInv, Types
<1>5. Types'
  BY <1>2, <1>3, <1>4 DEF IInv, Types
<1>6. /\ handled[f] = 1 /\ \A v \in Workers \ {w} : InFlight(v) => worker[v].file # f
      /\ \A v \in Workers : InFlight(v)' <=> InFlight(v) /\ v # w
  BY <1>1, <1>3, IdleState DEF IInv, Once, InFlight
<1>7. sentinel
  BY IdleState DEF IInv, Lifecycle, InFlight
<1>8. Lifecycle'
  BY <1>2, <1>3, <1>7, IdleState DEF IInv, Lifecycle
<1>9. Once'
  BY <1>2, <1>3, <1>4, <1>6, IdleState DEF IInv, Once, Key
<1>10. Kept'
  <2>1. \A k : Answered(k) => Answered(k)'
    BY <1>1, <1>2, <1>3, <1>4, <1>6 DEF Answered, Key, IInv, Types
  <2> QED
    BY <1>2, <2>1 DEF IInv, Kept, Key
<1>11. Content'
  <2>1. \A g \in Files : Contested(g)' <=> Contested(g)
    BY <1>2 DEF Contested
  <2>2. what = "saved" => files[Path[f]] = Whole(f) \/ Contested(f)
    BY <1>1 DEF IInv, Content, Part
  <2>3. SavedIsWhole'
    BY <1>2, <1>4, <2>1, <2>2 DEF IInv, Content, SavedIsWhole, Contested
  <2>4. \A v \in Workers : v # w => worker'[v] = worker[v]
    BY <1>3
  <2>5. worker'[w].pc = "recv"
    BY <1>3, IdleState
  <2> QED
    BY <1>2, <2>3, <2>4, <2>5 DEF IInv, Content, Contested
<1> QED
  BY <1>5, <1>8, <1>9, <1>10, <1>11 DEF IInv

\* The worker goes on with its file.
LEMMA OnwardKept ==
  ASSUME IInv, NEW w \in Workers, InFlight(w), NEW new \in WorkerState,
         new.pc \in {"fetch", "copy"}, new.file = worker[w].file,
         worker' = [worker EXCEPT ![w] = new], DOMAIN files' = Paths,
         UNCHANGED <<calls, queue, sentinel, done, cancelled, history>>
  PROVE  /\ Types' /\ Lifecycle' /\ Once' /\ Kept'
         /\ worker'[w] = new /\ \A v \in Workers \ {w} : worker'[v] = worker[v]
<1>1. UNCHANGED <<holder, started, owner, caller, sessions, requests, closed, seen, hand, filtered, sentinel,
                  done, cancelled, accepted, handled, result>>
  BY DEF calls, queue, history
<1>2. /\ worker' \in [Workers -> WorkerState] /\ worker'[w] = new
      /\ \A v \in Workers \ {w} : worker'[v] = worker[v]
  BY DEF IInv, Types
<1>3. Types'
  BY <1>1, <1>2 DEF IInv, Types
<1>4. sentinel
  BY IdleState DEF IInv, Lifecycle, InFlight
<1>5. Lifecycle'
  BY <1>1, <1>2, <1>4 DEF IInv, Lifecycle
<1>6. \A v \in Workers : (InFlight(v)' <=> InFlight(v)) /\ worker'[v].file = worker[v].file
  BY <1>2 DEF InFlight
<1>7. Once'
  BY <1>1, <1>6 DEF IInv, Once, Key
<1>8. Kept'
  <2>1. \A k : Answered(k) => Answered(k)'
    BY <1>1, <1>6 DEF Answered, Key
  <2> QED
    BY <1>1, <2>1 DEF IInv, Kept, Key
<1> QED
  BY <1>2, <1>3, <1>5, <1>7, <1>8
\* The writes that occur: what is written stands where it is written, the rest stays.
LEMMA Writes ==
  ASSUME NEW a, NEW b
  PROVE  /\ SubSeq(<<a, b>>, 1, 0) = <<>> /\ SubSeq(<<a, b>>, 1, 1) = <<a>>
         /\ \A old \in {<<>>, <<a>>} : WriteAt(old, 0, <<>>) = old /\ WriteAt(old, 0, <<a>>) = <<a>>
                                     /\ WriteAt(old, 0, <<a, b>>) = <<a, b>>
         /\ WriteAt(<<a>>, 1, <<b>>) = <<a, b>>
<1>1. SubSeq(<<a, b>>, 1, 0) = <<>>
  OBVIOUS
<1>2. SubSeq(<<a, b>>, 1, 1) = <<a>>
  <2>1. \A i \in 1..1 : <<a, b>>[i] \in {a, b}
    OBVIOUS
  <2> DEFINE t == SubSeq(<<a, b>>, 1, 1)
  <2>2. t \in Seq({a, b}) /\ Len(t) = 1 /\ t[1] = a
    BY <2>1, SubSeqProperties
  <2>3. <<a>> \in Seq({a, b}) /\ Len(<<a>>) = 1 /\ <<a>>[1] = a
    OBVIOUS
  <2> HIDE DEF t
  <2>4. t = <<a>>
    BY <2>2, <2>3, SeqEqual
  <2> QED
    BY <2>4 DEF t
<1> QED
  BY <1>1, <1>2 DEF WriteAt

\* Who writes where another file's content is contests it.
LEMMA Disturbed ==
  ASSUME IInv, NEW w \in Workers, InFlight(w), NEW g \in Files, g # worker[w].file, handled[g] > 0,
         Path[g] = Path[worker[w].file]
  PROVE  Contested(g)
<1>1. PICK f \in Files : f = worker[w].file /\ handled[f] = 1 /\ f \in accepted
  BY DEF IInv, Once
<1>2. Key(f) # Key(g)
  BY <1>1 DEF IInv, Once
<1> QED
  BY <1>1, <1>2 DEF Key, Contested

LEMMA WorkerKept ==
  ASSUME IInv, NEW w \in Workers, InFlight(w), NEW f \in Files, f = worker[w].file,
         NEW new \in WorkerState, new.file = f,
         \/ new.pc = "fetch" /\ new.pos = 0 /\ new.tmp \in {<<>>, Half(f)}
         \/ /\ new.pc = "copy" /\ new.tmp = Whole(f)
            /\ files'[Path[f]] = Part(f, new.pos) \/ Contested(f),
         worker' = [worker EXCEPT ![w] = new],
         files' = files \/ \E content : files' = [files EXCEPT ![Path[f]] = content],
         UNCHANGED <<calls, queue, sentinel, done, cancelled, history>>
  PROVE  IInv'
<1>1. DOMAIN files' = Paths /\ \A p \in Paths : p # Path[f] => files'[p] = files[p]
  BY DEF IInv, Types
<1>2. /\ Types' /\ Lifecycle' /\ Once' /\ Kept'
      /\ worker'[w] = new /\ \A v \in Workers \ {w} : worker'[v] = worker[v]
  BY <1>1, OnwardKept
<1>3. UNCHANGED <<accepted, handled, result>>
  BY DEF history
<1>4. \A g \in Files : Contested(g)' <=> Contested(g)
  BY <1>3 DEF Contested
<1>5. \A g \in Files : g # f /\ handled[g] > 0 => files'[Path[g]] = files[Path[g]] \/ Contested(g)
  <2> SUFFICES ASSUME NEW g \in Files, g # f, handled[g] > 0, Path[g] = Path[f] PROVE Contested(g)
    BY <1>1 DEF Paths
  <2> QED
    BY Disturbed
<1>6. ASSUME NEW v \in Workers, worker'[v].pc = "fetch"
      PROVE  worker'[v].pos = 0 /\ worker'[v].tmp \in {<<>>, Half(worker'[v].file)}
  BY <1>2, <1>6 DEF IInv, Content
<1>7. ASSUME NEW v \in Workers, worker'[v].pc = "copy"
      PROVE  /\ worker'[v].tmp = Whole(worker'[v].file)
             /\ files'[Path[worker'[v].file]] = Part(worker'[v].file, worker'[v].pos)
                  \/ Contested(worker'[v].file)
  <2>1. CASE v = w
    BY <1>2, <1>7, <2>1
  <2>2. CASE v # w
    <3>1. worker'[v] = worker[v] /\ InFlight(v)
      BY <1>2, <1>7, <2>2 DEF InFlight
    <3>2. worker[v].file \in Files /\ worker[v].file # f /\ handled[worker[v].file] > 0
      BY <2>2, <3>1 DEF IInv, Once
    <3> QED
      BY <1>5, <1>7, <3>1, <3>2 DEF IInv, Content
  <2> QED
    BY <2>1, <2>2
<1>8. SavedIsWhole'
  <2>1. ASSUME NEW g \in Files, result[g] = "saved"
        PROVE  files'[Path[g]] = Whole(g) \/ Contested(g)
    <3>1. g # f /\ handled[g] > 0
      BY <2>1 DEF IInv, Once
    <3> QED
      BY <1>5, <2>1, <3>1 DEF IInv, Content, SavedIsWhole, Contested
  <2> QED
    BY <1>3, <2>1 DEF SavedIsWhole, Contested
<1>9. Content'
  BY <1>3, <1>6, <1>7, <1>8 DEF Content, Contested
<1> QED
  BY <1>2, <1>9 DEF IInv

\* A worker's record with another stage, number of attempts, temporary file and offset.
LEMMA StateFields ==
  ASSUME NEW old \in WorkerState
  PROVE  /\ old.tries \in 0..Retries /\ old.pos \in 0..2
         /\ old = [pc |-> old.pc, file |-> old.file, tries |-> old.tries, tmp |-> old.tmp, pos |-> old.pos]
<1> DEFINE tmps == Seq({<<Url[f], i>> : f \in Files, i \in 1..2})
<1> HIDE DEF tmps
<1>1. old \in [pc : {"gone", "recv", "fetch", "copy"}, file : Files \union {NoFile}, tries : 0..Retries,
              tmp : tmps, pos : 0..2]
  BY DEF WorkerState, tmps
<1> QED
  BY <1>1

LEMMA NextState ==
  ASSUME NEW f \in Files, NEW p \in {"fetch", "copy"}, NEW t \in 0..Retries,
         NEW n \in 0..2, NEW s \in {<<>>, Half(f), Whole(f)}
  PROVE  [pc |-> p, file |-> f, tries |-> t, tmp |-> s, pos |-> n] \in WorkerState
<1> DEFINE halves == {<<Url[g], i>> : g \in Files, i \in 1..2}
<1>1. <<Url[f], 1>> \in halves /\ <<Url[f], 2>> \in halves
  OBVIOUS
<1> HIDE DEF halves
<1>2. <<>> \in Seq(halves) /\ Half(f) \in Seq(halves) /\ Whole(f) \in Seq(halves)
  BY <1>1 DEF Half, Whole
<1> DEFINE tmps == Seq(halves)
<1>3. s \in tmps
  BY <1>2
<1> HIDE DEF tmps
<1>4. [pc |-> p, file |-> f, tries |-> t, tmp |-> s, pos |-> n]
        \in [pc : {"gone", "recv", "fetch", "copy"}, file : Files \union {NoFile}, tries : 0..Retries,
            tmp : tmps, pos : 0..2]
  BY <1>3
<1> QED
  BY <1>4 DEF WorkerState, tmps, halves

LEMMA FailedAttemptKept == ASSUME IInv, NEW w \in Workers, FailedAttempt(w) PROVE IInv'
<1>1. InFlight(w) /\ worker[w].pc = "fetch"
  BY DEF FailedAttempt, InFlight
<1>2. PICK f \in Files : f = worker[w].file
  BY <1>1 DEF IInv, Once
<1>3. /\ worker \in [Workers -> WorkerState] /\ worker[w] \in WorkerState
      /\ worker[w].pos = 0 /\ worker[w].tmp \in {<<>>, Half(f)}
  BY <1>1, <1>2 DEF IInv, Types, Content
<1>4. CASE Finish(w, "failed")
  BY <1>1, <1>4, FinishKept DEF FailedAttempt
<1>5. ASSUME NEW n \in 0..1, worker' = Attempted(w, n, 0), UNCHANGED result PROVE IInv'
  <2> DEFINE s == WriteAt(worker[w].tmp, 0, SubSeq(Whole(f), 1, n))
  <2>0. PICK new : new = [pc |-> "fetch", file |-> f, tries |-> worker[w].tries + 1, tmp |-> s, pos |-> 0]
    OBVIOUS
  <2>1. SubSeq(Whole(f), 1, n) = IF n = 0 THEN <<>> ELSE Half(f)
    BY Writes DEF Whole, Half
  <2>2. s \in {<<>>, Half(f)}
    BY <1>3, <2>1, Writes DEF Half
  <2>3. worker[w].tries + 1 \in 0..Retries
    <3>1. worker[w].tries \in 0..Retries /\ worker[w].tries < Retries
      BY <1>3, StateFields DEF FailedAttempt
    <3> QED
      BY <3>1, DownloaderAssumption
  <2>4. worker' = [worker EXCEPT ![w] = new]
    <3>1. worker[w] = [pc |-> worker[w].pc, file |-> f, tries |-> worker[w].tries, tmp |-> worker[w].tmp,
                       pos |-> worker[w].pos]
      BY <1>2, <1>3, StateFields
    <3>2. new = [worker[w] EXCEPT !.tries = worker[w].tries + 1, !.pos = 0, !.tmp = s]
      <4> DEFINE one == [worker[w] EXCEPT !.tries = worker[w].tries + 1]  two == [one EXCEPT !.pos = 0]
      <4>1. one = [pc |-> worker[w].pc, file |-> f, tries |-> worker[w].tries + 1, tmp |-> worker[w].tmp, pos |-> worker[w].pos]
        BY <3>1
      <4> HIDE DEF one
      <4>2. two = [pc |-> worker[w].pc, file |-> f, tries |-> worker[w].tries + 1, tmp |-> worker[w].tmp, pos |-> 0]
        BY <4>1
      <4> HIDE DEF two
      <4>3. [two EXCEPT !.tmp = s] = [pc |-> worker[w].pc, file |-> f, tries |-> worker[w].tries + 1, tmp |-> s, pos |-> 0]
        BY <4>2
      <4> QED
        BY <1>1, <2>0, <4>3 DEF one, two
    <3> QED
      BY <1>2, <1>3, <1>5, <3>2 DEF Attempted
  <2> HIDE DEF s
  <2>5. /\ new \in WorkerState /\ new.pc = "fetch" /\ new.pos = 0 /\ new.tmp \in {<<>>, Half(f)} /\ new.file = f
    <3>1. s \in {<<>>, Half(f), Whole(f)} /\ 0 \in 0..2 /\ "fetch" \in {"fetch", "copy"}
      BY <2>2
    <3>2. new \in WorkerState
      BY <2>0, <2>3, <3>1, NextState, Zenon
    <3> QED
      BY <2>0, <2>2, <3>2
  <2>6. UNCHANGED <<calls, queue, sentinel, done, cancelled, history, files>>
    BY <1>5 DEF FailedAttempt, history
  <2> QED
    BY <1>1, <1>2, <2>4, <2>5, <2>6, WorkerKept
<1> QED
  BY <1>4, <1>5 DEF FailedAttempt

LEMMA FetchKept == ASSUME IInv, NEW w \in Workers, Fetch(w) PROVE IInv'
<1>1. InFlight(w) /\ worker[w].pc = "fetch"
  BY DEF Fetch, InFlight
<1>2. PICK f \in Files : f = worker[w].file
  BY <1>1 DEF IInv, Once
<1>3. /\ worker \in [Workers -> WorkerState] /\ worker[w] \in WorkerState
      /\ worker[w].pos = 0 /\ worker[w].tmp \in {<<>>, Half(f)}
  BY <1>1, <1>2 DEF IInv, Types, Content
<1>4. CASE Finish(w, "failed") /\ UNCHANGED files
  BY <1>1, <1>4, FinishKept DEF Fetch
<1>5. CASE /\ worker' = [worker EXCEPT ![w].pc = "copy", ![w].pos = 0,
                           ![w].tmp = WriteAt(@, worker[w].pos, Whole(worker[w].file))]
           /\ files' = [files EXCEPT ![Path[worker[w].file]] = <<>>]
           /\ UNCHANGED result
  <2> DEFINE s == WriteAt(worker[w].tmp, 0, Whole(f))
  <2>0. PICK new : new = [pc |-> "copy", file |-> f, tries |-> worker[w].tries, tmp |-> s, pos |-> 0]
    OBVIOUS
  <2>1. s = Whole(f)
    BY <1>3, Writes DEF Half, Whole
  <2>2. worker[w].tries \in 0..Retries
    BY <1>3, StateFields
  <2>3. worker' = [worker EXCEPT ![w] = new]
    <3>1. worker[w] = [pc |-> worker[w].pc, file |-> f, tries |-> worker[w].tries, tmp |-> worker[w].tmp,
                       pos |-> worker[w].pos]
      BY <1>2, <1>3, StateFields
    <3>2. new = [worker[w] EXCEPT !.pc = "copy", !.pos = 0, !.tmp = s]
      <4> DEFINE one == [worker[w] EXCEPT !.pc = "copy"]  two == [one EXCEPT !.pos = 0]
      <4>1. one = [pc |-> "copy", file |-> f, tries |-> worker[w].tries, tmp |-> worker[w].tmp, pos |-> worker[w].pos]
        BY <3>1
      <4> HIDE DEF one
      <4>2. two = [pc |-> "copy", file |-> f, tries |-> worker[w].tries, tmp |-> worker[w].tmp, pos |-> 0]
        BY <4>1
      <4> HIDE DEF two
      <4>3. [two EXCEPT !.tmp = s] = [pc |-> "copy", file |-> f, tries |-> worker[w].tries, tmp |-> s, pos |-> 0]
        BY <4>2
      <4> QED
        BY <1>1, <2>0, <4>3 DEF one, two
    <3> QED
      BY <1>2, <1>3, <1>5, <3>2
  <2> HIDE DEF s
  <2>4. /\ new \in WorkerState /\ new.pc = "copy" /\ new.pos = 0 /\ new.tmp = Whole(f) /\ new.file = f
    <3>1. s \in {<<>>, Half(f), Whole(f)} /\ 0 \in 0..2 /\ "copy" \in {"fetch", "copy"}
      BY <2>1
    <3>2. new \in WorkerState
      BY <2>0, <2>2, <3>1, NextState, Zenon
    <3> QED
      BY <2>0, <2>1, <3>2
  <2>5. UNCHANGED <<calls, queue, sentinel, done, cancelled, history>>
    BY <1>5 DEF Fetch, history
  <2>6. files' = [files EXCEPT ![Path[f]] = <<>>]
    BY <1>2, <1>5
  <2>7. files'[Path[f]] = Part(f, 0)
    BY <2>6 DEF IInv, Types, Paths, Part
  <2> QED
    BY <1>1, <1>2, <2>3, <2>4, <2>5, <2>6, <2>7, WorkerKept
<1> QED
  BY <1>4, <1>5 DEF Fetch

LEMMA CopyKept == ASSUME IInv, NEW w \in Workers, Copy(w) PROVE IInv'
<1>1. InFlight(w) /\ worker[w].pc = "copy"
  BY DEF Copy, InFlight
<1>2. PICK f \in Files : f = worker[w].file
  BY <1>1 DEF IInv, Once
<1> DEFINE n == worker[w].pos
<1>3. /\ worker \in [Workers -> WorkerState] /\ worker[w] \in WorkerState
      /\ worker[w].tmp = Whole(f) /\ n \in 0..2
      /\ files[Path[f]] = Part(f, n) \/ Contested(f)
  <2>1. worker \in [Workers -> WorkerState] /\ worker[w] \in WorkerState
    BY DEF IInv, Types
  <2>2. n \in 0..2
    BY <2>1, StateFields
  <2> QED
    BY <1>1, <1>2, <2>1, <2>2 DEF IInv, Content
<1>4. Len(Whole(f)) = 2 /\ Whole(f)[1] = <<Url[f], 1>> /\ Whole(f)[2] = <<Url[f], 2>>
  BY DEF Whole
<1>5. CASE n = Len(worker[w].tmp) /\ Finish(w, "saved") /\ UNCHANGED files
  BY <1>1, <1>3, <1>4, <1>5, FinishKept DEF Copy
<1>6. CASE n < Len(worker[w].tmp) /\ Finish(w, "failed") /\ UNCHANGED files
  BY <1>1, <1>6, FinishKept DEF Copy
<1>7. CASE /\ n < Len(worker[w].tmp)
           /\ files' = [files EXCEPT ![Path[f]] = WriteAt(@, n, <<worker[w].tmp[n + 1]>>)]
           /\ worker' = [worker EXCEPT ![w].pos = n + 1]
           /\ UNCHANGED result
  <2>0. PICK new : new = [pc |-> "copy", file |-> f, tries |-> worker[w].tries, tmp |-> Whole(f), pos |-> n + 1]
    OBVIOUS
  <2>1. n \in 0..1 /\ n + 1 \in 0..2 /\ worker[w].tries \in 0..Retries
    BY <1>3, <1>4, <1>7, StateFields
  <2>2. worker' = [worker EXCEPT ![w] = new]
    <3>1. worker[w] = [pc |-> worker[w].pc, file |-> f, tries |-> worker[w].tries, tmp |-> worker[w].tmp,
                       pos |-> worker[w].pos]
      BY <1>2, <1>3, StateFields
    <3>2. new = [worker[w] EXCEPT !.pos = n + 1]
      BY <1>1, <1>3, <2>0, <3>1
    <3> QED
      BY <1>7, <3>2
  <2>3. /\ new \in WorkerState /\ new.pc = "copy" /\ new.pos = n + 1 /\ new.tmp = Whole(f) /\ new.file = f
    <3> HIDE DEF n
    <3> QED
      BY <2>0, <2>1, NextState
  <2>4. UNCHANGED <<calls, queue, sentinel, done, cancelled, history>>
    BY <1>7 DEF Copy, history
  <2>5. files'[Path[f]] = WriteAt(files[Path[f]], n, << <<Url[f], n + 1>> >>)
    <3>1. worker[w].tmp[n + 1] = <<Url[f], n + 1>>
      BY <1>3, <1>4, <2>1
    <3>2. Path[f] \in DOMAIN files
      BY DEF IInv, Types, Paths
    <3> HIDE DEF n
    <3> QED
      BY <1>7, <3>1, <3>2
  <2>6. files[Path[f]] = Part(f, n) => files'[Path[f]] = Part(f, n + 1)
    <3> SUFFICES ASSUME files[Path[f]] = Part(f, n) PROVE files'[Path[f]] = Part(f, n + 1)
      OBVIOUS
    <3> DEFINE a == <<Url[f], 1>>  b == <<Url[f], 2>>
    <3>1. Half(f) = <<a>> /\ Whole(f) = <<a, b>>
      BY DEF Half, Whole
    <3>2. CASE n = 0
      <4>1. files'[Path[f]] = WriteAt(<<>>, 0, <<a>>)
        BY <2>5, <3>2 DEF Part
      <4>2. WriteAt(<<>>, 0, <<a>>) = <<a>>
        BY Writes
      <4> QED
        BY <3>1, <3>2, <4>1, <4>2 DEF Part
    <3>3. CASE n = 1
      <4>1. files'[Path[f]] = WriteAt(<<a>>, 1, <<b>>)
        BY <2>5, <3>1, <3>3 DEF Part
      <4>2. WriteAt(<<a>>, 1, <<b>>) = <<a, b>>
        BY Writes
      <4> QED
        BY <3>1, <3>3, <4>1, <4>2 DEF Part
    <3> QED
      BY <2>1, <3>2, <3>3
  <2> QED
    BY <1>1, <1>2, <1>3, <1>7, <2>2, <2>3, <2>4, <2>6, WorkerKept
<1> QED
  BY <1>2, <1>5, <1>6, <1>7 DEF Copy

-----------------------------------------------------------------------------
(* Every step, and the theorems.                                           *)

LEMMA StepKept == IInv /\ [Next]_vars => IInv'
<1> SUFFICES ASSUME IInv, [Next]_vars PROVE IInv'
  OBVIOUS
<1>1. CASE UNCHANGED vars
  <2>1. UNCHANGED <<holder, started, owner, caller, sessions, requests, closed, seen, hand, filtered, worker,
                    sentinel, done, cancelled, accepted, handled, result, files>>
    BY <1>1 DEF vars, calls, queue, pool, history
  <2>2. Types' /\ Lifecycle'
    BY <2>1 DEF IInv, Types, Lifecycle
  <2> QED
    BY <2>1, <2>2, OnceStays, KeptStays, ContentStays DEF IInv
<1>2. ASSUME NEW w \in Workers, GiveUp(w) PROVE IInv'
  BY <1>2, FinishKept DEF GiveUp, InFlight
<1>3. ASSUME NEW w \in Workers, WorkerStep(w) PROVE IInv'
  BY <1>2, <1>3, TakeKept, FailedAttemptKept, FetchKept, CopyKept, LeaveKept DEF WorkerStep
<1>4. ASSUME NEW c \in Callers, CallerStep(c) PROVE IInv'
  BY <1>4, SkipKept, LockKept, EnqueueKept DEF CallerStep
<1> QED
  BY <1>1, <1>3, <1>4, StartKept, StopKept, FilterKept, EndKept DEF Next, FilterStep

LEMMA Invariance == Spec => []IInv
<1> QED
  BY InitIInv, StepKept, PTL DEF Spec

\* When Stop has returned, each file Download accepted was tried, by one worker and once, and no
\* goroutine of the session is left (Stop, fltSeen, worker and the goroutine that waits for
\* the workers in downloader/downloader.go).
THEOREM StopLeavesNothing == Spec => []StopDrains
<1>1. IInv => StopDrains
  <2> SUFFICES ASSUME IInv PROVE StopDrains
    OBVIOUS
  <2>1. \A f \in Files : handled[f] <= 1
    BY DEF IInv, Once
  <2>2. ASSUME owner = "idle", sessions > 0
        PROVE  /\ \A f \in accepted : \E g \in accepted :
                    Url[g] = Url[f] /\ Path[g] = Path[f] /\ result[g] # "none"
               /\ \A w \in Workers : worker[w] = Gone
               /\ ~filtered /\ ~sentinel /\ done = 0
    <3>1. ~sentinel /\ ~filtered /\ requests = <<>> /\ hand = <<>> /\ \A w \in Workers : worker[w] = Gone
      BY <2>2 DEF IInv, Lifecycle
    <3>2. done = 0
      BY <2>2 DEF IInv, Types, Lifecycle
    <3>3. \A w \in Workers : ~InFlight(w)
      BY <3>1, IdleState DEF InFlight
    <3>4. ASSUME NEW f \in accepted
          PROVE  \E g \in accepted : Url[g] = Url[f] /\ Path[g] = Path[f] /\ result[g] # "none"
      <4>1. Key(f) \in seen
        BY <3>1 DEF IInv, Kept
      <4>2. PICK g \in accepted : Key(g) = Key(f) /\ result[g] # "none"
        BY <3>1, <3>3, <4>1 DEF IInv, Kept, Answered
      <4> QED
        BY <4>2 DEF Key
    <3> QED
      BY <3>1, <3>2, <3>4
  <2> QED
    BY <2>1, <2>2 DEF StopDrains
<1> QED
  BY <1>1, Invariance, PTL

\* What is reported as saved is whole, whatever attempts failed before and whatever other workers
\* write, unless another address is requested for the same path (saveFile and download in
\* downloader/downloader.go).
THEOREM SavedFilesAreWhole == Spec => []SavedIsWhole
<1>1. IInv => SavedIsWhole
  BY DEF IInv, Content
<1> QED
  BY <1>1, Invariance, PTL

-----------------------------------------------------------------------------
(* The parts of MCFiles: each step is one of one part.                     *)

\* A step of the files is a step of one part, and the others stutter.
LEMMA FilesSteps ==
  ASSUME [FilesNext]_allVars
  PROVE  /\ [Next]_vars /\ [RT!Next]_(RT!vars) /\ [FM!Next]_(FM!vars) /\ [CO!Next]_(CO!vars)
         /\ [CF!Next]_(CF!vars) /\ [ES!Next]_(ES!vars) /\ [SO!Next]_(SO!vars) /\ [LI!Next]_(LI!vars)
         /\ [SE!Next]_(SE!vars)
<1> USE DEF retry, manager, collect, chunkfile, export, archive, listing, session,
     RT!vars, FM!vars, CO!vars, CF!vars, ES!vars, SO!vars, LI!vars, SE!vars, SE!dump
<1>1. CASE UNCHANGED allVars
  BY <1>1 DEF allVars
<1>2. CASE Download(Next)
  BY <1>2 DEF Download
<1>3. CASE RetryStep
  BY <1>3 DEF RetryStep
<1>4. CASE ManagerStep
  BY <1>4 DEF ManagerStep
<1>5. CASE Collecting(CO!Next)
  BY <1>5 DEF Collecting
<1>6. CASE ChunkStep
  BY <1>6 DEF ChunkStep
<1>7. CASE ExportStep
  BY <1>7 DEF ExportStep
<1>8. CASE ArchiveStep
  BY <1>8 DEF ArchiveStep
<1>9. CASE ListStep
  BY <1>9 DEF ListStep
<1>10. CASE SessionStep
  BY <1>10 DEF SessionStep
<1> QED
  BY <1>1, <1>2, <1>3, <1>4, <1>5, <1>6, <1>7, <1>8, <1>9, <1>10 DEF FilesNext

LEMMA FilesStart ==
  FilesInit => Init /\ RT!Init /\ FM!Init /\ CO!Init /\ CF!Init /\ ES!Init /\ SO!Init /\ LI!Init /\ SE!Init
BY DEF FilesInit

-----------------------------------------------------------------------------
(* The repetition of calls: every wait is long enough, and its number and its outcome are in the log.*)

LEMMA ExpEarly ==
  /\ RT!ExpSeconds(0) = 2 /\ RT!ExpSeconds(1) = 4 /\ RT!ExpSeconds(2) = 8 /\ RT!ExpSeconds(3) = 16
  /\ RT!ExpSeconds(4) = 32 /\ RT!ExpSeconds(5) = 64 /\ RT!ExpSeconds(6) = 128 /\ RT!ExpSeconds(7) = 256
  /\ RT!ExpSeconds(8) = 512 /\ RT!ExpSeconds(9) = 1024 /\ RT!ExpSeconds(10) = 2048 /\ RT!ExpSeconds(11) = 4096
BY DEF RT!ExpSeconds
LEMMA ExpMiddle ==
  /\ RT!ExpSeconds(12) = 8192 /\ RT!ExpSeconds(13) = 16384 /\ RT!ExpSeconds(14) = 32768
  /\ RT!ExpSeconds(15) = 65536 /\ RT!ExpSeconds(16) = 131072 /\ RT!ExpSeconds(17) = 262144
  /\ RT!ExpSeconds(18) = 524288 /\ RT!ExpSeconds(19) = 1048576 /\ RT!ExpSeconds(20) = 2097152
  /\ RT!ExpSeconds(21) = 4194304 /\ RT!ExpSeconds(22) = 8388608 /\ RT!ExpSeconds(23) = 16777216
BY DEF RT!ExpSeconds
LEMMA ExpLate ==
  /\ RT!ExpSeconds(24) = Cap + 1 /\ RT!ExpSeconds(25) = Cap + 1 /\ RT!ExpSeconds(26) = Cap + 1
  /\ RT!ExpSeconds(27) = Cap + 1 /\ RT!ExpSeconds(28) = Cap + 1 /\ RT!ExpSeconds(29) = Cap + 1
  /\ RT!ExpSeconds(30) = Cap + 1 /\ RT!ExpSeconds(31) = Cap + 1 /\ RT!ExpSeconds(32) = Cap + 1
BY DEF RT!ExpSeconds, RT!Bit
LEMMA ExpOver == RT!ExpSeconds(33) = -1
BY DEF RT!ExpSeconds, RT!Bit

\* The waits of the attempts that can be reached: a second at least, the cap at most, and no shorter than before.
LEMMA ExpStep ==
  ASSUME NEW a \in 0..31
  PROVE  RT!ExpWait(a) \in 1..Cap /\ RT!ExpWait(a + 1) \in 1..Cap /\ RT!ExpWait(a) <= RT!ExpWait(a + 1)
<1>0. Cap \in Int /\ Cap >= 1
  BY FilesAssumption
<1>1. CASE a \in 0..10
  <2>1. \/ a = 0 \/ a = 1 \/ a = 2 \/ a = 3 \/ a = 4 \/ a = 5 \/ a = 6 \/ a = 7 \/ a = 8 \/ a = 9 \/ a = 10
    BY <1>1
  <2> QED
    BY <2>1, <1>0, ExpEarly DEF RT!ExpWait
<1>2. CASE a \in 11..22
  <2>1. \/ a = 11 \/ a = 12 \/ a = 13 \/ a = 14 \/ a = 15 \/ a = 16 \/ a = 17 \/ a = 18 \/ a = 19 \/ a = 20
        \/ a = 21 \/ a = 22
    BY <1>2
  <2> QED
    BY <2>1, <1>0, ExpEarly, ExpMiddle DEF RT!ExpWait
<1>3. CASE a \in 23..31
  <2>1. \/ a = 23 \/ a = 24 \/ a = 25 \/ a = 26 \/ a = 27 \/ a = 28 \/ a = 29 \/ a = 30 \/ a = 31
    BY <1>3
  <2> QED
    BY <2>1, <1>0, ExpMiddle, ExpLate DEF RT!ExpWait
<1> QED
  BY <1>1, <1>2, <1>3

LEMMA ExpGrows ==
  \A a, b \in 0..32 : a <= b => RT!ExpWait(a) \in 1..Cap /\ RT!ExpWait(a) <= RT!ExpWait(b)
<1>1. \A a \in 0..32 : RT!ExpWait(a) \in 1..Cap /\ RT!ExpWait(a) \in Int
  <2>1. Cap \in Int
    BY FilesAssumption
  <2>2. ASSUME NEW a \in 0..32 PROVE RT!ExpWait(a) \in 1..Cap
    <3>1. a \in 0..31 \/ a = 31 + 1
      OBVIOUS
    <3> QED
      BY <3>1, ExpStep
  <2> QED
    BY <2>1, <2>2
<1> DEFINE w == [a \in 0..32 |-> RT!ExpWait(a)]
<1>2. \A a \in 0..31 : w[a] <= w[a + 1]
  BY ExpStep
<1>3. \A a \in 0..32 : w[a] \in Int
  BY <1>1
<1> HIDE DEF w
<1> DEFINE Grows(n) == \A a \in 0..32, d \in 0..n : a + d <= 32 => w[a] <= w[a + d]
<1>4. Grows(1)
  BY <1>2, <1>3
<1>5. Grows(2)
  <2> SUFFICES ASSUME NEW a \in 0..32, NEW d \in 0..2, a + d <= 32, d > 1 PROVE w[a] <= w[a + d]
    BY <1>4
  <2>1. w[a] <= w[a + 1]
    BY <1>4
  <2>2. w[a + 1] <= w[(a + 1) + (d - 1)]
    BY <1>4
  <2> QED
    BY <2>1, <2>2, <1>3
<1>6. Grows(4)
  <2> SUFFICES ASSUME NEW a \in 0..32, NEW d \in 0..4, a + d <= 32, d > 2 PROVE w[a] <= w[a + d]
    BY <1>5
  <2>1. w[a] <= w[a + 2]
    BY <1>5
  <2>2. w[a + 2] <= w[(a + 2) + (d - 2)]
    BY <1>5
  <2> QED
    BY <2>1, <2>2, <1>3
<1>7. Grows(8)
  <2> SUFFICES ASSUME NEW a \in 0..32, NEW d \in 0..8, a + d <= 32, d > 4 PROVE w[a] <= w[a + d]
    BY <1>6
  <2>1. w[a] <= w[a + 4]
    BY <1>6
  <2>2. w[a + 4] <= w[(a + 4) + (d - 4)]
    BY <1>6
  <2> QED
    BY <2>1, <2>2, <1>3
<1>8. Grows(16)
  <2> SUFFICES ASSUME NEW a \in 0..32, NEW d \in 0..16, a + d <= 32, d > 8 PROVE w[a] <= w[a + d]
    BY <1>7
  <2>1. w[a] <= w[a + 8]
    BY <1>7
  <2>2. w[a + 8] <= w[(a + 8) + (d - 8)]
    BY <1>7
  <2> QED
    BY <2>1, <2>2, <1>3
<1>9. Grows(32)
  <2> SUFFICES ASSUME NEW a \in 0..32, NEW d \in 0..32, a + d <= 32, d > 16 PROVE w[a] <= w[a + d]
    BY <1>8
  <2>1. w[a] <= w[a + 16]
    BY <1>8
  <2>2. w[a + 16] <= w[(a + 16) + (d - 16)]
    BY <1>8
  <2> QED
    BY <2>1, <2>2, <1>3
<1>10. ASSUME NEW a \in 0..32, NEW b \in 0..32, a <= b PROVE w[a] <= w[b]
  <2>1. b - a \in 0..32 /\ a + (b - a) = b
    BY <1>10
  <2>2. w[a] <= w[a + (b - a)]
    BY <2>1, <1>9
  <2> QED
    BY <2>1, <2>2
<1> QED
  BY <1>1, <1>10 DEF w

LEMMA CubicGrows ==
  \A a, b \in Nat : a <= b => RT!CubicWait(a) \in 1..Cap /\ RT!CubicWait(a) <= RT!CubicWait(b)
<1> SUFFICES ASSUME NEW a \in Nat, NEW b \in Nat, a <= b
             PROVE  RT!CubicWait(a) \in 1..Cap /\ RT!CubicWait(a) <= RT!CubicWait(b)
  OBVIOUS
<1> DEFINE x == a + 1
           y == b + 1
<1>0. Cap \in Int /\ Cap >= 1
  BY FilesAssumption
<1>1. x \in Int /\ y \in Int /\ 1 <= x /\ x <= y
  OBVIOUS
<1>2. RT!CubicWait(a) = (IF x * x * x > Cap THEN Cap ELSE x * x * x)
      /\ RT!CubicWait(b) = (IF y * y * y > Cap THEN Cap ELSE y * y * y)
  BY DEF RT!CubicWait
<1> HIDE DEF x, y
<1>3. x * x \in Int /\ y * y \in Int /\ 1 <= x * x /\ x * x <= y * y
  BY <1>1
<1>4. x * x * x \in Int /\ y * y * y \in Int /\ 1 <= x * x * x /\ x * x * x <= y * y * y
  BY <1>1, <1>3
<1> QED
  BY <1>0, <1>2, <1>4

\* What was slept after a transient error: a second at least and the cap at most unless Slack said for
\* how long, and never less than after the same error before.
LEMMA DelayGrows ==
  ASSUME NEW a \in 0..32, NEW b \in 0..32, a <= b, NEW e \in RT!Transient
  PROVE  /\ RT!Slept(RT!DelayFor(e, a)) \in Int
         /\ e = "limited" => RT!Slept(RT!DelayFor(e, a)) >= RetryAfter
         /\ e # "limited" => RT!Slept(RT!DelayFor(e, a)) \in 1..Cap
         /\ RT!Slept(RT!DelayFor(e, a)) <= RT!Slept(RT!DelayFor(e, b))
<1>0. Cap \in Int /\ Cap >= 1 /\ RetryAfter \in Int
  BY FilesAssumption
<1>1. CASE e = "limited"
  BY <1>0, <1>1 DEF RT!DelayFor, RT!Slept
<1>2. CASE e = "netio"
  <2>1. RT!ExpWait(a) \in 1..Cap /\ RT!ExpWait(b) \in 1..Cap /\ RT!ExpWait(a) <= RT!ExpWait(b)
    BY ExpGrows
  <2> QED
    BY <1>0, <1>2, <2>1 DEF RT!DelayFor, RT!Slept
<1>3. CASE e \notin {"limited", "netio"}
  <2>1. RT!CubicWait(a) \in 1..Cap /\ RT!CubicWait(b) \in 1..Cap /\ RT!CubicWait(a) <= RT!CubicWait(b)
    BY CubicGrows
  <2> QED
    BY <1>0, <1>3, <2>1 DEF RT!DelayFor, RT!Slept
<1> QED
  BY <1>1, <1>2, <1>3

LEMMA DelayType == \A e, a : a \in Nat => RT!DelayFor(e, a) \in Int /\ RT!Slept(RT!DelayFor(e, a)) \in Int
<1> SUFFICES ASSUME NEW e, NEW a \in Nat PROVE RT!DelayFor(e, a) \in Int
  BY DEF RT!Slept
<1>0. Cap \in Int /\ RetryAfter \in Int
  BY FilesAssumption
<1>1. RT!ExpSeconds(a) \in Int
  <2>1. CASE a > 23
    BY <2>1, <1>0 DEF RT!ExpSeconds
  <2>2. CASE a \in 0..11
    BY <2>2, ExpEarly
  <2>3. CASE a \in 12..23
    BY <2>3, ExpMiddle
  <2> QED
    BY <2>1, <2>2, <2>3
<1>2. RT!ExpWait(a) \in Int
  BY <1>0, <1>1 DEF RT!ExpWait
<1>3. (a + 1) * (a + 1) * (a + 1) \in Int
  OBVIOUS
<1>4. RT!CubicWait(a) \in Int
  BY <1>0, <1>3 DEF RT!CubicWait
<1> QED
  BY <1>0, <1>2, <1>4 DEF RT!DelayFor

\* The invariant of the repetition: the log has a record for each attempt begun, and all but the last have
\* the wait of their attempt behind them.
Waited(k) == IF log[k].outcome \in RT!Transient THEN RT!Slept(RT!DelayFor(log[k].outcome, k - 1)) ELSE 0
Logged ==
  /\ log \in Seq([outcome : Outcomes, slept : Int])
  /\ pc = "limit" => Len(log) = attempt
  /\ pc = "call" => Len(log) = attempt /\ attempt < RT!Attempts
  /\ pc = "sleep" =>
       /\ Len(log) = attempt + 1 /\ attempt < RT!Attempts
       /\ log[Len(log)].outcome \in RT!Transient /\ delay = RT!DelayFor(log[Len(log)].outcome, attempt)
  /\ \A k \in 1..Len(log) : log[k].slept \in {0, Waited(k)}
  /\ \A k \in 1..Len(log) : k < Len(log) \/ pc \in {"limit", "call"} =>
       log[k].outcome \in RT!Transient \cup {"please"} /\ log[k].slept = Waited(k)
  /\ Len(log) <= RT!Attempts \/ log = <<>>
Ending ==
  /\ pc # "returned" => rtResult = "none"
  /\ rtResult = "ok" => log # <<>> /\ log[Len(log)].outcome = "ok"
  /\ rtResult = "exhausted" => Len(log) >= RT!Attempts
RetryInv == RT!TypeOK /\ Logged /\ Ending

LEMMA AttemptsType == RT!Attempts \in Int
BY FilesAssumption DEF RT!Attempts, RT!DefNumAttempts

LEMMA RetryStart == RT!Init => RetryInv
<1> SUFFICES ASSUME RT!Init PROVE RetryInv
  OBVIOUS
<1>1. <<>> \in Seq([outcome : Outcomes, slept : Int]) /\ Len(<<>>) = 0
  OBVIOUS
<1>2. RT!TypeOK
  <2>1. attempt \in Nat /\ delay \in Int
    BY DEF RT!Init
  <2>2. pc = "limit" /\ lastErr = "none" /\ rtResult = "none" /\ rtCancelled = FALSE
    BY DEF RT!Init
  <2> QED
    BY <2>1, <2>2, Zenon DEF RT!TypeOK
<1>3. Logged
  BY <1>1, AttemptsType DEF RT!Init, Logged
<1>4. Ending
  BY DEF RT!Init, Ending
<1> QED
  BY <1>2, <1>3, <1>4 DEF RetryInv

LEMMA CallKept == ASSUME RetryInv, RT!Call PROVE RetryInv'
<1> USE DEF RetryInv
<1>0. attempt \in Nat /\ pc = "call" /\ delay \in Int /\ RT!Attempts \in Int
  BY AttemptsType DEF RT!TypeOK, RT!Call
<1>1. PICK e \in Outcomes :
       /\ log' = Append(log, [outcome |-> e, slept |-> 0])
       /\ lastErr' = IF e \in {"ok", "please"} THEN lastErr ELSE e
       /\ \/ e = "ok" /\ RT!Return("ok") /\ UNCHANGED <<attempt, delay>>
          \/ e = "please" /\ RT!Again /\ UNCHANGED delay
          \/ /\ e \in RT!Transient
             /\ pc' = "sleep" /\ delay' = RT!DelayFor(e, attempt)
             /\ UNCHANGED <<attempt, rtResult>>
          \/ e \in {"badstatus", "other"} /\ RT!Return("failed") /\ UNCHANGED <<attempt, delay>>
       /\ UNCHANGED rtCancelled
  BY DEF RT!Call
<1> DEFINE r == [outcome |-> e, slept |-> 0]
<1>2. log \in Seq([outcome : Outcomes, slept : Int]) /\ Len(log) = attempt /\ attempt < RT!Attempts
  BY <1>0 DEF Logged
<1>n. PICK n \in Nat : n = attempt + 1
  BY <1>0
<1>3. r \in [outcome : Outcomes, slept : Int] /\ r.outcome = e /\ r.slept = 0
  OBVIOUS
<1> HIDE DEF r
<1>4. /\ log' \in Seq([outcome : Outcomes, slept : Int]) /\ Len(log') = attempt + 1
      /\ \A k \in 1..Len(log) : log'[k] = log[k]
      /\ log'[n] = r /\ log' # <<>>
  BY <1>1, <1>2, <1>3, <1>n DEF r
<1>5. RT!DelayFor(e, attempt) \in Int
  BY <1>0, DelayType
<1>6. RT!TypeOK'
  BY <1>0, <1>1, <1>5 DEF RT!TypeOK, RT!Return, RT!Again
<1>7. pc' \in {"limit", "sleep", "returned"} /\ (pc' = "limit" => e = "please" /\ attempt' = attempt + 1)
      /\ (pc' = "sleep" => e \in RT!Transient /\ attempt' = attempt /\ delay' = RT!DelayFor(e, attempt))
  BY <1>0, <1>1 DEF RT!Return, RT!Again
<1>8. \A k \in 1..Len(log) : log'[k].outcome \in RT!Transient \cup {"please"} /\ log'[k].slept = Waited(k)'
  BY <1>0, <1>4 DEF Logged, Waited
<1>9. e = "please" => Waited(n)' = 0
  BY <1>3, <1>4 DEF Waited, RT!Transient
<1>10. \A k \in 1..Len(log') : k \in 1..Len(log) \/ k = n
  BY <1>0, <1>2, <1>4, <1>n
<1>11. Logged'
  <2>1. /\ pc' = "limit" => Len(log') = attempt'
        /\ pc' = "call" => Len(log') = attempt' /\ attempt' < RT!Attempts
        /\ pc' = "sleep" =>
             /\ Len(log') = attempt' + 1 /\ attempt' < RT!Attempts
             /\ log'[Len(log')].outcome \in RT!Transient /\ delay' = RT!DelayFor(log'[Len(log')].outcome, attempt')
    BY <1>2, <1>3, <1>4, <1>7, <1>n
  <2>2. \A k \in 1..Len(log') : log'[k].slept \in {0, Waited(k)'}
    BY <1>3, <1>4, <1>8, <1>10, <1>n
  <2>3. \A k \in 1..Len(log') : k < Len(log') \/ pc' \in {"limit", "call"} =>
          log'[k].outcome \in RT!Transient \cup {"please"} /\ log'[k].slept = Waited(k)'
    BY <1>0, <1>2, <1>3, <1>4, <1>7, <1>8, <1>9, <1>10, <1>n
  <2>4. Len(log') <= RT!Attempts
    BY <1>0, <1>2, <1>4
  <2> QED
    BY <1>4, <2>1, <2>2, <2>3, <2>4 DEF Logged, RT!Attempts
<1>12. Ending'
  <2>1. rtResult = "none"
    BY <1>0 DEF Ending
  <2>2. pc' # "returned" => rtResult' = "none"
    BY <1>1, <2>1 DEF RT!Return, RT!Again
  <2>3. rtResult' = "ok" => e = "ok"
    BY <1>1, <2>1 DEF RT!Return, RT!Again
  <2>4. rtResult' = "exhausted" => attempt + 1 >= RT!Attempts
    BY <1>0, <1>1, <2>1 DEF RT!Return, RT!Again
  <2> QED
    BY <1>2, <1>3, <1>4, <1>n, <2>2, <2>3, <2>4 DEF Ending, RT!Attempts
<1> QED
  BY <1>6, <1>11, <1>12

LEMMA LimitKept == ASSUME RetryInv, RT!Limit PROVE RetryInv'
<1> USE DEF RetryInv
<1>0. attempt \in Nat /\ pc = "limit" /\ RT!Attempts \in Int /\ Len(log) = attempt /\ rtResult = "none"
  BY AttemptsType DEF RT!TypeOK, RT!Limit, Logged, Ending
<1>1. UNCHANGED <<attempt, delay, lastErr, log, rtCancelled>>
  BY DEF RT!Limit
<1>2. \/ pc' = "returned" /\ rtResult' = "exhausted" /\ attempt >= RT!Attempts
      \/ pc' = "returned" /\ rtResult' = "cancelled"
      \/ pc' = "call" /\ rtResult' = "none" /\ attempt < RT!Attempts
  BY <1>0 DEF RT!Limit, RT!Return
<1>3. RT!TypeOK'
  BY <1>1, <1>2 DEF RT!TypeOK
<1>4. \A k \in 1..Len(log') : Waited(k)' = Waited(k)
  BY <1>1 DEF Waited
<1>5. Logged'
  BY <1>0, <1>1, <1>2, <1>4 DEF Logged, RT!Attempts
<1>6. Ending'
  BY <1>0, <1>1, <1>2 DEF Ending, RT!Attempts
<1> QED
  BY <1>3, <1>5, <1>6

LEMMA SleepKept == ASSUME RetryInv, RT!Sleep PROVE RetryInv'
<1> USE DEF RetryInv
<1>0. attempt \in Nat /\ pc = "sleep" /\ RT!Attempts \in Int /\ rtResult = "none" /\ delay \in Int
  BY AttemptsType DEF RT!TypeOK, RT!Sleep, Ending
<1>n. PICK n \in Nat : n = attempt + 1
  BY <1>0
<1>1. UNCHANGED <<delay, lastErr, rtCancelled>>
  BY DEF RT!Sleep
<1>2. /\ log \in Seq([outcome : Outcomes, slept : Int]) /\ Len(log) = n /\ attempt < RT!Attempts /\ n >= 1
      /\ log[n].outcome \in RT!Transient /\ delay = RT!DelayFor(log[n].outcome, n - 1)
  BY <1>0, <1>n DEF Logged
<1>e. log[n] \in [outcome : Outcomes, slept : Int]
  <2>1. log \in Seq([outcome : Outcomes, slept : Int]) /\ n \in 1..Len(log)
    BY <1>2
  <2> QED
    BY <2>1, ElementOfSeq
<1>3. CASE log' = [log EXCEPT ![Len(log)].slept = RT!Slept(delay)] /\ RT!Again
  <2> DEFINE r == [log[n] EXCEPT !.slept = RT!Slept(delay)]
  <2>1. RT!Slept(delay) \in Int
    BY <1>0 DEF RT!Slept
  <2>2. log[n] \in [outcome : Outcomes, slept : Int]
    BY <1>e
  <2>3. r \in [outcome : Outcomes, slept : Int] /\ r.outcome = log[n].outcome /\ r.slept = RT!Slept(delay)
    BY <2>1, <2>2
  <2>4. log' = [log EXCEPT ![n] = r]
    BY <1>2, <1>3
  <2> HIDE DEF r
  <2>5. /\ log' \in Seq([outcome : Outcomes, slept : Int]) /\ Len(log') = n /\ log'[n] = r
        /\ \A k \in 1..n : k # n => log'[k] = log[k]
    BY <1>2, <2>3, <2>4
  <2>6. \A k \in 1..n : k # n => Waited(k)' = Waited(k)
    BY <2>5 DEF Waited
  <2>7. Waited(n)' = r.slept
    BY <1>2, <2>3, <2>5 DEF Waited
  <2>8. \A k \in 1..n : log'[k].outcome \in RT!Transient \cup {"please"} /\ log'[k].slept = Waited(k)'
    <3>1. ASSUME NEW k \in 1..n, k # n
          PROVE  log'[k].outcome \in RT!Transient \cup {"please"} /\ log'[k].slept = Waited(k)'
      BY <1>2, <2>5, <2>6, <3>1 DEF Logged
    <3> QED
      BY <1>2, <2>3, <2>5, <2>7, <3>1
  <2>9. /\ attempt' = n
        /\ \/ n < RT!Attempts /\ pc' = "limit" /\ rtResult' = "none"
           \/ n >= RT!Attempts /\ pc' = "returned" /\ rtResult' = "exhausted"
    BY <1>0, <1>3, <1>n DEF RT!Again, RT!Return
  <2>10. RT!TypeOK'
    <3>1. attempt' \in Nat
      BY <2>9
    <3> QED
      BY <1>1, <2>9, <3>1 DEF RT!TypeOK
  <2>11. Logged'
    BY <1>0, <1>2, <1>n, <2>5, <2>8, <2>9 DEF Logged, RT!Attempts
  <2>12. Ending'
    BY <1>0, <2>5, <2>9 DEF Ending, RT!Attempts
  <2> QED
    BY <2>10, <2>11, <2>12
<1>4. CASE rtCancelled /\ RT!Return("cancelled") /\ UNCHANGED <<attempt, log>>
  <2>1. pc' = "returned" /\ rtResult' = "cancelled" /\ log' = log /\ attempt' = attempt
    BY <1>4 DEF RT!Return
  <2>2. \A k \in 1..Len(log') : Waited(k)' = Waited(k)
    BY <2>1 DEF Waited
  <2>3. RT!TypeOK'
    BY <1>1, <2>1 DEF RT!TypeOK
  <2>4. Logged'
    BY <2>1, <2>2, <1>0 DEF Logged, RT!Attempts
  <2>5. Ending'
    BY <2>1 DEF Ending
  <2> QED
    BY <2>3, <2>4, <2>5
<1> QED
  BY <1>3, <1>4 DEF RT!Sleep

LEMMA RetryKept == ASSUME RetryInv, [RT!Next]_(RT!vars) PROVE RetryInv'
<1> USE DEF RetryInv
<1>1. ASSUME UNCHANGED <<attempt, pc, delay, lastErr, rtResult, log>>, rtCancelled' \in BOOLEAN PROVE RetryInv'
  <2>1. \A k \in 1..Len(log') : Waited(k)' = Waited(k)
    BY <1>1 DEF Waited
  <2>2. Logged'
    BY <1>1, <2>1 DEF Logged, RT!Attempts
  <2>3. RT!TypeOK' /\ Ending'
    BY <1>1 DEF Ending, RT!TypeOK, RT!Attempts
  <2> QED
    BY <2>2, <2>3
<1>2. CASE RT!Cancel
  BY <1>1, <1>2 DEF RT!Cancel
<1>3. CASE UNCHANGED RT!vars
  BY <1>1, <1>3 DEF RT!vars, RT!TypeOK
<1> QED
  BY <1>2, <1>3, LimitKept, CallKept, SleepKept DEF RT!Next

LEMMA RetryPatient == ASSUME RetryInv, MaxAttempts <= 34 PROVE RetriesPatiently
<1>0. RT!Attempts \in Int /\ Cap \in Int /\ Cap >= 1 /\ RetryAfter \in Int /\ log \in Seq([outcome : Outcomes, slept : Int])
  BY AttemptsType, FilesAssumption DEF RetryInv, Logged
<1>1. Len(log) \in Nat /\ Len(log) <= 34
  <2>1. RT!Attempts <= 34 /\ Len(<<>>) = 0
    BY FilesAssumption DEF RT!Attempts, RT!DefNumAttempts
  <2>2. Len(log) <= RT!Attempts \/ log = <<>>
    BY DEF RetryInv, Logged
  <2> QED
    BY <1>0, <2>1, <2>2
<1>2. ASSUME NEW k \in 1..Len(log), k < Len(log)
      PROVE  /\ log[k].outcome \in RT!Transient \cup {"please"} /\ log[k].slept = Waited(k) /\ k - 1 \in 0..32
  <2>1. log[k].outcome \in RT!Transient \cup {"please"} /\ log[k].slept = Waited(k)
    BY <1>2 DEF RetryInv, Logged
  <2> QED
    BY <1>1, <1>2, <2>1
<1>a. \A k \in 1..Len(log) : log[k].outcome \in RT!Transient /\ k - 1 \in 0..32 =>
         /\ log[k].outcome = "limited" => RT!Slept(RT!DelayFor(log[k].outcome, k - 1)) >= RetryAfter
         /\ log[k].outcome # "limited" => RT!Slept(RT!DelayFor(log[k].outcome, k - 1)) \in 1..Cap
  <2> SUFFICES ASSUME NEW k \in 1..Len(log), log[k].outcome \in RT!Transient, k - 1 \in 0..32
               PROVE  /\ log[k].outcome = "limited" => RT!Slept(RT!DelayFor(log[k].outcome, k - 1)) >= RetryAfter
                      /\ log[k].outcome # "limited" => RT!Slept(RT!DelayFor(log[k].outcome, k - 1)) \in 1..Cap
    OBVIOUS
  <2>1. k - 1 <= k - 1
    OBVIOUS
  <2> QED
    BY <2>1, DelayGrows
<1>3. ASSUME NEW k \in 1..Len(log), NEW l \in 1..Len(log)
      PROVE  /\ log[k].outcome = "limited" /\ k < Len(log) => log[k].slept >= RetryAfter
             /\ log[k].outcome \in RT!Transient \ {"limited"} =>
                  log[k].slept <= Cap /\ (k < Len(log) => log[k].slept >= 1)
             /\ (k < l /\ log[k].outcome = log[l].outcome /\ l < Len(log)) => log[k].slept <= log[l].slept
  <2>1. ASSUME log[k].outcome = "limited", k < Len(log) PROVE log[k].slept >= RetryAfter
    <3>1. log[k].slept = RT!Slept(RT!DelayFor(log[k].outcome, k - 1)) /\ k - 1 \in 0..32
          /\ log[k].outcome \in RT!Transient
      BY <1>2, <2>1 DEF Waited, RT!Transient
    <3> QED
      BY <1>a, <2>1, <3>1
  <2>2. ASSUME log[k].outcome \in RT!Transient \ {"limited"}, k < Len(log) PROVE log[k].slept \in 1..Cap
    <3>1. log[k].slept = RT!Slept(RT!DelayFor(log[k].outcome, k - 1)) /\ k - 1 \in 0..32
      BY <1>2, <2>2 DEF Waited
    <3> QED
      BY <1>a, <2>2, <3>1
  <2>3. ASSUME log[k].outcome \in RT!Transient \ {"limited"}, k = Len(log) PROVE log[k].slept <= Cap
    <3>1. log[k].slept \in {0, RT!Slept(RT!DelayFor(log[k].outcome, k - 1))}
      BY <2>3 DEF RetryInv, Logged, Waited
    <3>2. CASE k - 1 \in 0..32
      <4>1. RT!Slept(RT!DelayFor(log[k].outcome, k - 1)) \in 1..Cap
        BY <1>a, <2>3, <3>2
      <4> QED
        BY <1>0, <3>1, <4>1
    <3>3. CASE k = 34
      <4>1. RT!ExpWait(33) = -1
        BY <1>0, ExpOver DEF RT!ExpWait
      <4>2. RT!CubicWait(33) \in 1..Cap
        BY CubicGrows
      <4>3. RT!DelayFor(log[k].outcome, 33) <= Cap /\ RT!DelayFor(log[k].outcome, 33) \in Int
        BY <1>0, <2>3, <4>1, <4>2 DEF RT!DelayFor
      <4> QED
        BY <1>0, <3>1, <3>3, <4>3 DEF RT!Slept
    <3>4. k - 1 \in 0..32 \/ k = 34
      BY <1>1
    <3> QED
      BY <3>2, <3>3, <3>4
  <2>4. ASSUME k < l, log[k].outcome = log[l].outcome, l < Len(log) PROVE log[k].slept <= log[l].slept
    <3>1. /\ log[k].slept = Waited(k) /\ log[l].slept = Waited(l) /\ k - 1 \in 0..32 /\ l - 1 \in 0..32
          /\ k - 1 <= l - 1
      BY <1>1, <1>2, <2>4
    <3>2. CASE log[k].outcome \in RT!Transient
      BY <2>4, <3>1, <3>2, DelayGrows DEF Waited
    <3>3. CASE log[k].outcome \notin RT!Transient
      BY <2>4, <3>1, <3>3 DEF Waited
    <3> QED
      BY <3>2, <3>3
  <2> QED
    BY <1>0, <1>1, <2>1, <2>2, <2>3, <2>4
<1>4. RT!Patient
  BY <1>3 DEF RT!Patient
<1>5. RT!FailsForAReason
  <2>1. Len(log) <= RT!Attempts \/ RT!Attempts < 0
    BY <1>0 DEF RetryInv, Logged
  <2>2. \A k \in 1..Len(log) : k < Len(log) => log[k].outcome \in RT!Transient \union {"please"}
    BY <1>2
  <2>3. (rtResult = "ok" => log[Len(log)].outcome = "ok") /\ (rtResult = "exhausted" => Len(log) >= RT!Attempts)
    BY DEF RetryInv, Ending
  <2> QED
    BY <2>1, <2>2, <2>3 DEF RT!FailsForAReason
<1> QED
  BY <1>4, <1>5 DEF RetriesPatiently

-----------------------------------------------------------------------------
(* The file manager: a handle is good until its reader closes it.          *)

\* The invariant of the file manager: handles are numbered as they are opened, and a reader at work has one of
\* its own.
ReaderState ==
  [pc : {"idle", "index", "create", "write", "reading"}, name : Names \cup {FM!NoName}, handle : 0..MaxHandles,
   index : {"none", "partial", "whole"}]
ManagerTypes ==
  /\ known \subseteq Names
  /\ handles \in [Names -> 0..last]
  /\ opened \subseteq 1..last /\ last \in 0..MaxHandles
  /\ idx \in [Names -> {"none", "partial", "whole"}]
  /\ reader \in [Readers -> ReaderState]
  /\ destroyed \in BOOLEAN
AtWork(r) == reader[r].pc # "idle"
HandlesOwn ==
  /\ \A r \in Readers : ~AtWork(r) => reader[r].handle = 0
  /\ \A r \in Readers : AtWork(r) =>
       /\ reader[r].name \in Names
       /\ reader[r].handle \in 1..last
       /\ reader[r].handle \in opened \/ destroyed
       /\ reader[r].pc = "reading" => reader[r].index = "whole"
  /\ \A r, q \in Readers : AtWork(r) /\ AtWork(q) /\ reader[r].handle = reader[q].handle => r = q
ManagerInv == ManagerTypes /\ HandlesOwn

LEMMA ManagerStart == FM!Init => ManagerInv
<1> SUFFICES ASSUME FM!Init PROVE ManagerInv
  OBVIOUS
<1>0. MaxHandles \in Nat
  BY FilesAssumption
<1>1. FM!Resting \in ReaderState /\ FM!Resting.pc = "idle" /\ FM!Resting.handle = 0
  BY <1>0 DEF FM!Resting, ReaderState
<1>2. ManagerTypes
  <2>1. last = 0 /\ 0 \in 0..last /\ last \in 0..MaxHandles
    BY <1>0 DEF FM!Init
  <2>2. handles \in [Names -> 0..last] /\ opened \subseteq 1..last /\ known \subseteq Names /\ destroyed \in BOOLEAN
    BY <2>1 DEF FM!Init
  <2>3. idx \in [Names -> {"none", "partial", "whole"}]
    BY DEF FM!Init
  <2> QED
    BY <1>1, <2>1, <2>2, <2>3 DEF FM!Init, ManagerTypes
<1>3. HandlesOwn
  BY <1>1 DEF FM!Init, HandlesOwn, AtWork
<1> QED
  BY <1>2, <1>3 DEF ManagerInv

\* A reader that rests again, or goes on with the handle it has.
LEMMA ReaderRests ==
  ASSUME ManagerInv, NEW r \in Readers, reader' = [reader EXCEPT ![r] = FM!Resting],
         UNCHANGED <<known, last, destroyed>>, handles' \in [Names -> 0..last], opened' \subseteq opened,
         idx' \in [Names -> {"none", "partial", "whole"}],
         \A q \in Readers : q # r /\ AtWork(q) /\ reader[q].handle \in opened => reader[q].handle \in opened'
  PROVE  ManagerInv'
<1>0. MaxHandles \in Nat
  BY FilesAssumption
<1>1. FM!Resting \in ReaderState /\ FM!Resting.pc = "idle" /\ FM!Resting.handle = 0
  BY <1>0 DEF FM!Resting, ReaderState
<1>2. reader'[r] = FM!Resting /\ \A q \in Readers : q # r => reader'[q] = reader[q]
  BY DEF ManagerInv, ManagerTypes
<1>3. ManagerTypes'
  BY <1>1 DEF ManagerInv, ManagerTypes
<1>4. HandlesOwn'
  BY <1>1, <1>2 DEF ManagerInv, HandlesOwn, AtWork
<1> QED
  BY <1>3, <1>4 DEF ManagerInv

LEMMA ReaderGoesOn ==
  ASSUME ManagerInv, NEW r \in Readers, AtWork(r), NEW s \in ReaderState, reader' = [reader EXCEPT ![r] = s],
         s.pc # "idle", s.name = reader[r].name, s.handle = reader[r].handle,
         s.pc = "reading" => s.index = "whole",
         UNCHANGED <<known, handles, opened, last, destroyed>>, idx' \in [Names -> {"none", "partial", "whole"}]
  PROVE  ManagerInv'
<1>1. reader'[r] = s /\ \A q \in Readers : q # r => reader'[q] = reader[q]
  BY DEF ManagerInv, ManagerTypes
<1>2. ManagerTypes'
  BY DEF ManagerInv, ManagerTypes
<1>3. HandlesOwn'
  BY <1>1 DEF ManagerInv, HandlesOwn, AtWork
<1> QED
  BY <1>2, <1>3 DEF ManagerInv

LEMMA OpenKept ==
  ASSUME ManagerInv, NEW r \in Readers, NEW n \in Names, FM!OpenKnown(r, n) \/ FM!OpenNew(r, n)
  PROVE  ManagerInv'
<1>0. MaxHandles \in Nat
  BY FilesAssumption
<1>1. reader[r].pc = "idle" /\ last < MaxHandles /\ UNCHANGED <<idx, destroyed>> /\ last \in 0..MaxHandles
  BY DEF FM!OpenKnown, FM!OpenNew, ManagerInv, ManagerTypes
<1>2. CASE FM!Fail(r) /\ UNCHANGED <<known, last, opened, handles>>
  BY <1>1, <1>2, ReaderRests DEF FM!Fail, ManagerInv, ManagerTypes
<1>3. CASE FM!NewHandle(r, n) /\ known' \subseteq known \cup {n}
  <2> DEFINE s == [pc |-> "index", name |-> n, handle |-> last + 1, index |-> "none"]
  <2>1. s \in ReaderState /\ s.pc = "index" /\ s.name = n /\ s.handle = last + 1
    BY <1>0, <1>1 DEF ReaderState
  <2>2. last' = last + 1 /\ opened' = opened \union {last + 1} /\ handles' = [handles EXCEPT ![n] = last + 1]
        /\ reader' = [reader EXCEPT ![r] = s]
    BY <1>3 DEF FM!NewHandle
  <2> HIDE DEF s
  <2>3. reader'[r] = s /\ \A q \in Readers : q # r => reader'[q] = reader[q]
    BY <2>2 DEF ManagerInv, ManagerTypes
  <2>4. ManagerTypes'
    <3>1. known' \subseteq Names /\ idx' \in [Names -> {"none", "partial", "whole"}] /\ destroyed' \in BOOLEAN
      BY <1>1, <1>3 DEF ManagerInv, ManagerTypes
    <3>2. handles' \in [Names -> 0..last'] /\ opened' \subseteq 1..last' /\ last' \in 0..MaxHandles
      BY <1>0, <1>1, <2>2 DEF ManagerInv, ManagerTypes
    <3>3. reader' \in [Readers -> ReaderState]
      BY <2>1, <2>2 DEF ManagerInv, ManagerTypes
    <3> QED
      BY <3>1, <3>2, <3>3 DEF ManagerTypes
  <2>5. HandlesOwn'
    <3>1. ASSUME NEW q \in Readers, q # r, AtWork(q)
          PROVE  reader[q].handle \in 1..last /\ reader[q].handle \in 1..last' /\ reader[q].handle # last + 1
      BY <1>1, <2>2, <3>1 DEF ManagerInv, HandlesOwn
    <3>2. last + 1 \in 1..last' /\ last + 1 \in opened'
      BY <1>1, <2>2
    <3> QED
      BY <1>1, <2>1, <2>2, <2>3, <3>1, <3>2 DEF ManagerInv, HandlesOwn, AtWork
  <2> QED
    BY <2>4, <2>5 DEF ManagerInv
<1> QED
  BY <1>2, <1>3 DEF FM!OpenKnown, FM!OpenNew

LEMMA IndexKept ==
  ASSUME ManagerInv, NEW r \in Readers,
         FM!ReadIndex(r) \/ FM!NoIndex(r) \/ FM!CreateIndex(r) \/ FM!WriteIndex(r)
  PROVE  ManagerInv'
<1>0. /\ AtWork(r) /\ UNCHANGED <<known, handles, opened, last, destroyed>> /\ reader[r] \in ReaderState
      /\ idx \in [Names -> {"none", "partial", "whole"}] /\ handles \in [Names -> 0..last]
  BY DEF FM!ReadIndex, FM!NoIndex, FM!CreateIndex, FM!WriteIndex, AtWork, ManagerInv, ManagerTypes
<1>1. idx' \in [Names -> {"none", "partial", "whole"}]
  BY <1>0 DEF FM!ReadIndex, FM!NoIndex, FM!CreateIndex, FM!WriteIndex
<1>2. CASE FM!Fail(r)
  BY <1>0, <1>1, <1>2, ReaderRests DEF FM!Fail
<1>3. ASSUME NEW p \in {"create", "write"}, reader' = [reader EXCEPT ![r].pc = p] PROVE ManagerInv'
  <2> DEFINE s == [reader[r] EXCEPT !.pc = p]
  <2>1. s \in ReaderState /\ s.pc = p /\ s.name = reader[r].name /\ s.handle = reader[r].handle
    BY <1>0 DEF ReaderState
  <2>2. reader' = [reader EXCEPT ![r] = s]
    BY <1>3
  <2> HIDE DEF s
  <2> QED
    BY <1>0, <1>1, <2>1, <2>2, ReaderGoesOn
<1>4. ASSUME reader' = [reader EXCEPT ![r].pc = "reading", ![r].index = "whole"] PROVE ManagerInv'
  <2> DEFINE s == [reader[r] EXCEPT !.pc = "reading", !.index = "whole"]
  <2>1. s \in ReaderState /\ s.pc = "reading" /\ s.name = reader[r].name /\ s.handle = reader[r].handle /\ s.index = "whole"
    BY <1>0 DEF ReaderState
  <2>2. reader' = [reader EXCEPT ![r] = s]
    BY <1>4
  <2> HIDE DEF s
  <2> QED
    BY <1>0, <1>1, <2>1, <2>2, ReaderGoesOn
<1>5. reader[r].name \in Names
  BY <1>0 DEF ManagerInv, HandlesOwn
<1>6. CASE FM!ReadIndex(r)
  <2>1. CASE idx[reader[r].name] = "partial"
    BY <1>2, <1>6, <2>1 DEF FM!ReadIndex
  <2>2. CASE idx[reader[r].name] # "partial"
    <3>1. idx[reader[r].name] = "whole"
      BY <1>0, <1>5, <1>6, <2>2 DEF FM!ReadIndex
    <3> QED
      BY <1>4, <1>6, <2>2, <3>1 DEF FM!ReadIndex
  <2> QED
    BY <2>1, <2>2
<1>7. CASE FM!NoIndex(r)
  BY <1>2, <1>3, <1>7 DEF FM!NoIndex
<1>8. CASE FM!CreateIndex(r)
  BY <1>2, <1>3, <1>8 DEF FM!CreateIndex
<1>9. CASE FM!WriteIndex(r)
  BY <1>4, <1>9 DEF FM!WriteIndex
<1> QED
  BY <1>6, <1>7, <1>8, <1>9

LEMMA ManagerKept == ASSUME ManagerInv, [FM!Next]_(FM!vars) PROVE ManagerInv'
<1>1. ASSUME NEW r \in Readers, FM!CloseFile(r) PROVE ManagerInv'
  <2>1. /\ AtWork(r) /\ UNCHANGED <<known, last, idx, destroyed>> /\ opened' \subseteq opened
        /\ opened' = opened \ {reader[r].handle} /\ reader' = [reader EXCEPT ![r] = FM!Resting]
    BY <1>1 DEF FM!CloseFile, AtWork
  <2>2. handles' \in [Names -> 0..last]
    <3>1. last \in 0..MaxHandles /\ 0 \in 0..last /\ handles \in [Names -> 0..last]
      BY FilesAssumption DEF ManagerInv, ManagerTypes
    <3> QED
      BY <1>1, <3>1 DEF FM!CloseFile
  <2>3. \A q \in Readers : q # r /\ AtWork(q) /\ reader[q].handle \in opened => reader[q].handle \in opened'
    BY <2>1 DEF ManagerInv, HandlesOwn
  <2>4. idx' \in [Names -> {"none", "partial", "whole"}]
    BY <2>1 DEF ManagerInv, ManagerTypes
  <2> QED
    BY <2>1, <2>2, <2>3, <2>4, ReaderRests
<1>2. CASE FM!Destroy
  <2>1. ManagerTypes'
    <3>1. last \in 0..MaxHandles /\ 0 \in 0..last
      BY FilesAssumption DEF ManagerInv, ManagerTypes
    <3>2. handles' \in [Names -> 0..last'] /\ idx' \in [Names -> {"none", "partial", "whole"}]
      BY <1>2, <3>1 DEF FM!Destroy
    <3> QED
      BY <1>2, <3>2 DEF FM!Destroy, ManagerInv, ManagerTypes
  <2>2. HandlesOwn'
    BY <1>2 DEF FM!Destroy, ManagerInv, HandlesOwn, AtWork
  <2> QED
    BY <2>1, <2>2 DEF ManagerInv
<1>3. CASE UNCHANGED FM!vars
  BY <1>3 DEF FM!vars, ManagerInv, ManagerTypes, HandlesOwn, AtWork
<1> QED
  BY <1>1, <1>2, <1>3, OpenKept, IndexKept DEF FM!Next

LEMMA ManagerHolds == ManagerInv => FM!TypeOK /\ FM!HandleUsable
<1> SUFFICES ASSUME ManagerInv PROVE FM!TypeOK /\ FM!HandleUsable
  OBVIOUS
<1>0. MaxHandles \in Nat /\ last \in 0..MaxHandles
  BY FilesAssumption DEF ManagerInv, ManagerTypes
<1>1. FM!Handles = 1..MaxHandles /\ \A x \in 0..MaxHandles : x \in {0} \union 1..MaxHandles
  BY <1>0 DEF FM!Handles
<1>2. \A x \in 0..last : x \in 0..MaxHandles
  BY <1>0
<1>3. \A r \in Readers : reader[r] \in ReaderState
  BY DEF ManagerInv, ManagerTypes
<1>4. FM!TypeOK
  BY <1>0, <1>1, <1>2, <1>3 DEF FM!TypeOK, ManagerInv, ManagerTypes, ReaderState
<1>5. FM!HandleUsable
  BY <1>0 DEF FM!HandleUsable, ManagerInv, HandlesOwn, AtWork
<1> QED
  BY <1>4, <1>5

-----------------------------------------------------------------------------
(* The library's calls: the users in memory.                               *)

\* The invariant of the users in memory: an answer of Slack is of this moment or the one before when it is stored.
AskerState == [pc : {"idle", "fetch", "store", "got", "failed"}, users : Nat, since : Nat]
AskTypes ==
  /\ asking \in [Askers -> AskerState]
  /\ seCache \in [fetched : Nat, at : Nat, some : BOOLEAN]
  /\ now \in 0..MaxTime
AsksRecent ==
  /\ seCache.some => seCache.at <= seCache.fetched + 1 /\ seCache.at <= now
  /\ \A c \in Askers :
       /\ asking[c].pc \in {"fetch", "store"} => now \in asking[c].since .. (asking[c].since + 1)
       /\ asking[c].pc = "store" => asking[c].users = asking[c].since
       /\ asking[c].pc = "got" => asking[c].since <= asking[c].users + Timeout
AskInv == AskTypes /\ AsksRecent

LEMMA AskStart == SE!Init => AskInv
<1> SUFFICES ASSUME SE!Init PROVE AskInv
  OBVIOUS
<1>1. SE!Idle \in AskerState /\ SE!Idle.pc = "idle"
  BY DEF SE!Idle, AskerState
<1>2. SE!NoUsers \in [fetched : Nat, at : Nat, some : BOOLEAN] /\ SE!NoUsers.some = FALSE
  BY DEF SE!NoUsers
<1>3. now = 0 /\ seCache = SE!NoUsers /\ asking = [c \in Askers |-> SE!Idle] /\ now \in 0..MaxTime
  BY FilesAssumption DEF SE!Init
<1>4. AskTypes
  BY <1>1, <1>2, <1>3 DEF AskTypes
<1>5. AsksRecent
  BY <1>1, <1>2, <1>3 DEF AsksRecent
<1> QED
  BY <1>4, <1>5 DEF AskInv

\* An asker goes on.
LEMMA AskerGoesOn ==
  ASSUME AskInv, NEW c \in Askers, NEW s \in AskerState, asking' = [asking EXCEPT ![c] = s],
         now' = now,
         seCache' \in [fetched : Nat, at : Nat, some : BOOLEAN],
         seCache'.some => seCache'.at <= seCache'.fetched + 1 /\ seCache'.at <= now,
         s.pc \in {"fetch", "store"} => now \in s.since .. (s.since + 1),
         s.pc = "store" => s.users = s.since,
         s.pc = "got" => s.since <= s.users + Timeout
  PROVE  AskInv'
<1>1. asking'[c] = s /\ \A d \in Askers : d # c => asking'[d] = asking[d]
  BY DEF AskInv, AskTypes
<1>2. AskTypes'
  BY DEF AskInv, AskTypes
<1>3. AsksRecent'
  BY <1>1 DEF AskInv, AsksRecent
<1> QED
  BY <1>2, <1>3 DEF AskInv

LEMMA AskKept == ASSUME AskInv, [SE!Next]_(SE!vars) PROVE AskInv'
<1>0. /\ asking \in [Askers -> AskerState] /\ seCache \in [fetched : Nat, at : Nat, some : BOOLEAN]
      /\ now \in Nat /\ now \in 0..MaxTime /\ Timeout \in Nat /\ Timeout >= 1 /\ MaxTime \in Nat
  BY FilesAssumption DEF AskInv, AskTypes
<1>1. ASSUME UNCHANGED <<seCache, asking, now>> PROVE AskInv'
  BY <1>1 DEF AskInv, AskTypes, AsksRecent
<1>2. ASSUME NEW c \in Askers, SE!GetUsers(c) PROVE AskInv'
  <2>1. UNCHANGED <<now, seCache>>
    BY <1>2 DEF SE!GetUsers, SE!Step
  <2>2. CASE SE!Kept
    <3> DEFINE s == [pc |-> "got", users |-> seCache.fetched, since |-> now]
    <3>1. seCache.fetched \in Nat /\ seCache.at \in Nat
      BY <1>0
    <3>2. s \in AskerState /\ s.pc = "got" /\ s.users = seCache.fetched /\ s.since = now
      BY <1>0, <3>1 DEF AskerState
    <3>3. asking' = [asking EXCEPT ![c] = s]
      BY <1>2, <2>2 DEF SE!GetUsers, SE!Step
    <3>4. now <= seCache.fetched + Timeout
      BY <1>0, <2>2, <3>1 DEF SE!Kept, AskInv, AsksRecent
    <3> HIDE DEF s
    <3> QED
      BY <1>0, <2>1, <3>2, <3>3, <3>4, AskerGoesOn DEF AskInv, AsksRecent
  <2>3. CASE ~SE!Kept
    <3> DEFINE s == [pc |-> "fetch", users |-> 0, since |-> now]
    <3>2. s \in AskerState /\ s.pc = "fetch" /\ s.since = now /\ now \in s.since .. (s.since + 1)
      BY <1>0 DEF AskerState
    <3>3. asking' = [asking EXCEPT ![c] = s]
      BY <1>2, <2>3 DEF SE!GetUsers, SE!Step
    <3> HIDE DEF s
    <3> QED
      BY <1>0, <2>1, <3>2, <3>3, AskerGoesOn DEF AskInv, AsksRecent
  <2> QED
    BY <2>2, <2>3
<1>3. ASSUME NEW c \in Askers, SE!FetchUsers(c) PROVE AskInv'
  <2>1. UNCHANGED <<now, seCache>> /\ asking[c].pc = "fetch" /\ asking[c] \in AskerState
    BY <1>0, <1>3 DEF SE!FetchUsers, SE!Step
  <2>2. CASE SE!Step(c, [pc |-> "store", users |-> now, since |-> now])
    <3> DEFINE s == [pc |-> "store", users |-> now, since |-> now]
    <3>2. s \in AskerState /\ s.pc = "store" /\ s.users = s.since /\ now \in s.since .. (s.since + 1)
      BY <1>0 DEF AskerState
    <3>3. asking' = [asking EXCEPT ![c] = s]
      BY <2>2 DEF SE!Step
    <3> HIDE DEF s
    <3> QED
      BY <1>0, <2>1, <3>2, <3>3, AskerGoesOn DEF AskInv, AsksRecent
  <2>3. CASE SE!Step(c, [asking[c] EXCEPT !.pc = "failed"])
    <3> DEFINE s == [asking[c] EXCEPT !.pc = "failed"]
    <3>2. s \in AskerState /\ s.pc = "failed"
      BY <2>1 DEF AskerState
    <3>3. asking' = [asking EXCEPT ![c] = s]
      BY <2>3 DEF SE!Step
    <3> HIDE DEF s
    <3> QED
      BY <1>0, <2>1, <3>2, <3>3, AskerGoesOn DEF AskInv, AsksRecent
  <2> QED
    BY <1>3, <2>2, <2>3 DEF SE!FetchUsers
<1>4. ASSUME NEW c \in Askers, SE!StoreUsers(c) PROVE AskInv'
  <2>1. asking[c].pc = "store" /\ asking[c] \in AskerState /\ now' = now
        /\ seCache' = [fetched |-> asking[c].users, at |-> now, some |-> TRUE]
    BY <1>0, <1>4 DEF SE!StoreUsers, SE!Step
  <2>2. asking[c].users \in Nat /\ now <= asking[c].users + 1
    BY <1>0, <2>1 DEF AskInv, AsksRecent, AskerState
  <2> DEFINE s == [asking[c] EXCEPT !.pc = "got", !.since = now]
  <2>3. s \in AskerState /\ s.pc = "got" /\ s.users = asking[c].users /\ s.since = now
    BY <1>0, <2>1 DEF AskerState
  <2>4. asking' = [asking EXCEPT ![c] = s]
    BY <1>4 DEF SE!StoreUsers, SE!Step
  <2>5. seCache' \in [fetched : Nat, at : Nat, some : BOOLEAN] /\ seCache'.fetched = asking[c].users /\ seCache'.at = now
    BY <1>0, <2>1, <2>2
  <2>6. s.since <= s.users + Timeout /\ seCache'.at <= seCache'.fetched + 1 /\ seCache'.at <= now
    BY <1>0, <2>2, <2>3, <2>5
  <2> HIDE DEF s
  <2> QED
    BY <2>1, <2>3, <2>4, <2>5, <2>6, AskerGoesOn
<1>5. CASE SE!Tick
  <2>1. /\ now' = now + 1 /\ now < MaxTime /\ UNCHANGED <<asking, seCache>>
        /\ \A c \in Askers : asking[c].pc \in {"fetch", "store"} => now = asking[c].since
    BY <1>5 DEF SE!Tick
  <2>2. AskTypes'
    BY <1>0, <2>1 DEF AskTypes
  <2>3. seCache.at \in Nat /\ \A c \in Askers : asking[c].since \in Nat
    BY <1>0 DEF AskerState
  <2>4. AsksRecent'
    BY <1>0, <2>1, <2>3 DEF AskInv, AsksRecent
  <2> QED
    BY <2>2, <2>4 DEF AskInv
<1>6. CASE UNCHANGED SE!vars
  BY <1>1, <1>6 DEF SE!vars
<1> QED
  BY <1>1, <1>2, <1>3, <1>4, <1>5, <1>6 DEF SE!Next

LEMMA AskHolds == AskInv => SE!UsersRecent
<1> SUFFICES ASSUME AskInv, NEW c \in Askers, asking[c].pc = "got" PROVE asking[c].since - asking[c].users <= Timeout
  BY DEF SE!UsersRecent
<1>1. asking[c].since \in Nat /\ asking[c].users \in Nat /\ Timeout \in Nat
  BY FilesAssumption DEF AskInv, AskTypes, AskerState
<1> QED
  BY <1>1 DEF AskInv, AsksRecent

\* The types of a call.
LEMMA SessionStart == SE!Init => SE!TypeOK
<1> SUFFICES ASSUME SE!Init PROVE SE!TypeOK
  OBVIOUS
<1>1. seAt \in Nat
  <2>1. \A t \in SE!Starts : t \in Nat
    BY FilesAssumption DEF SE!Starts
  <2> QED
    BY <2>1 DEF SE!Init
<1>2. sePage \in Nat /\ seThreadPage \in Nat /\ now \in 0..MaxTime /\ seFaults \in 0..MaxFaults
  BY FilesAssumption DEF SE!Init
<1>3. \A c \in Askers : asking[c].pc = "idle"
  BY DEF SE!Init, SE!Idle
<1>4. sePc = "begin"
  BY DEF SE!Init
<1> QED
  BY <1>1, <1>2, <1>3, <1>4 DEF SE!TypeOK

LEMMA SessionKept == ASSUME SE!TypeOK, AskInv', [SE!Next]_(SE!vars) PROVE SE!TypeOK'
<1> DEFINE Point == sePc \in {"begin", "page", "threads", "replies", "process", "name", "list", "ok", "failed"}
           Numbers == sePage \in Nat /\ seThreadPage \in Nat /\ seAt \in Nat /\ seFaults \in 0..MaxFaults
<1>0. Point /\ Numbers /\ MaxFaults \in Nat
  BY FilesAssumption DEF SE!TypeOK
<1>1. ASSUME SE!Fails PROVE Point' /\ Numbers'
  BY <1>0, <1>1 DEF SE!Fails
<1>2. ASSUME SE!Dump PROVE Point' /\ Numbers'
  BY <1>0, <1>2 DEF SE!Dump
<1>3. ASSUME SE!DumpChannel PROVE Point' /\ Numbers'
  BY <1>0, <1>1, <1>3 DEF SE!DumpChannel
<1>4. ASSUME SE!PopulateThreads PROVE Point' /\ Numbers'
  BY <1>0, <1>1, <1>4 DEF SE!PopulateThreads
<1>5. ASSUME SE!RunProcessFuncs PROVE Point' /\ Numbers'
  BY <1>0, <1>1, <1>5 DEF SE!RunProcessFuncs
<1>6. ASSUME SE!DumpThread PROVE Point' /\ Numbers'
  BY <1>0, <1>1, <1>6 DEF SE!DumpThread
<1>7. ASSUME SE!GetChannelName PROVE Point' /\ Numbers'
  BY <1>0, <1>1, <1>7 DEF SE!GetChannelName
<1>8. ASSUME NEW l, SE!Listed(l) PROVE Point' /\ Numbers'
  BY <1>0, <1>1, <1>8 DEF SE!Listed
<1>9. ASSUME NEW c \in Askers, SE!GetUsers(c) \/ SE!FetchUsers(c) \/ SE!StoreUsers(c), UNCHANGED SE!dump
      PROVE Point' /\ Numbers'
  BY <1>0, <1>9 DEF SE!GetUsers, SE!FetchUsers, SE!StoreUsers, SE!dump
<1>10. ASSUME SE!Tick /\ UNCHANGED SE!dump PROVE Point' /\ Numbers'
  BY <1>0, <1>10 DEF SE!Tick, SE!dump
<1>11. ASSUME UNCHANGED SE!vars PROVE Point' /\ Numbers'
  BY <1>0, <1>11 DEF SE!vars, SE!dump
<1>12. Point' /\ Numbers'
  BY <1>2, <1>3, <1>4, <1>5, <1>6, <1>7, <1>8, <1>9, <1>10, <1>11
     DEF SE!Next, SE!GetChannels, SE!GetChannelMembers
<1>13. now' \in 0..MaxTime /\ \A c \in Askers : asking'[c].pc \in {"idle", "fetch", "store", "got", "failed"}
  BY DEF AskInv, AskTypes, AskerState
<1> QED
  BY <1>12, <1>13 DEF SE!TypeOK

-----------------------------------------------------------------------------
(* The lists of entities and their caches.                                 *)

\* The invariant of the caches of lists.
Keys0 == LI!Procs \cup {"none", "old"}
TaskState ==
  [pc : {"off", "load", "read", "fetch", "join", "create", "write", "done", "failed"}, n : 0..Entries,
   pos : 0..Entries, key : Keys0, ok : BOOLEAN, api : BOOLEAN]
CacheFile == [key : Keys0, at : [1..Entries -> Keys0], torn : BOOLEAN, fresh : BOOLEAN]
ListTypes ==
  /\ cmd \in [LI!Procs -> [pc : {"idle", "retrieve", "print", "ok", "failed"}, what : LI!Caches, flag : BOOLEAN]]
  /\ task \in [LI!Procs -> [LI!Caches -> TaskState]]
  /\ liFile \in [LI!Caches -> CacheFile]
  /\ clean \subseteq LI!Caches /\ faults \in 0..ListFaults

\* What a retrieval knows: ok is of a cache that is clean as it is read, or of the only writer; what
\* came from Slack is all there is.
Counts(t) ==
  /\ t.pc \in {"off", "load", "fetch", "join", "create", "failed"} => ~t.ok
  /\ t.pc \in {"off", "load", "read", "fetch"} => ~t.api
  /\ t.pc \in {"join", "create", "write"} => t.api
  /\ t.api => t.n = Entries
  /\ t.pc = "done" /\ t.ok => t.n = Entries
AloneAt(p, w) ==
  /\ \A q \in LI!Procs : task[q][w].pc = "write" => q = p
  /\ liFile[w].key = p /\ ~liFile[w].torn /\ w \notin clean
  /\ \A k \in 1..task[p][w].pos : liFile[w].at[k] = p
Untouched(w) ==
  /\ \A q \in LI!Procs : task[q][w].pc # "write"
  /\ liFile[w].key # "none" /\ ~liFile[w].torn /\ \A k \in 1..Entries : liFile[w].at[k] = liFile[w].key
Retrieved(p) ==
  cmd[p].pc \in {"print", "ok"} => task[p][cmd[p].what].pc = "done" /\ task[p]["users"].pc \in {"off", "done", "failed"}
Listings ==
  /\ \A p \in LI!Procs, w \in LI!Caches :
       /\ Counts(task[p][w])
       /\ task[p][w].pc = "write" /\ task[p][w].ok => AloneAt(p, w)
       /\ task[p][w].pc = "read" /\ task[p][w].ok => w \in clean /\ task[p][w].key = liFile[w].key
  /\ \A w \in clean : Untouched(w)
  /\ \A p \in LI!Procs : Retrieved(p)
ListInv == ListTypes /\ Listings

LEMMA ListConstants ==
  /\ Entries \in Nat /\ ListFaults \in Nat /\ "none" \notin LI!Procs
  /\ LI!Caches = {"users", "channels"}
  /\ LI!Off \in TaskState /\ LI!Off.pc = "off" /\ ~LI!Off.ok /\ ~LI!Off.api
  /\ LI!Absent \in CacheFile /\ ~LI!Absent.torn
  /\ \A k \in Keys0 : LI!Whole(k) \in CacheFile /\ LI!Whole(k).key = k /\ ~LI!Whole(k).torn
                      /\ \A j \in 1..Entries : LI!Whole(k).at[j] = k
<1>1. Entries \in Nat /\ ListFaults \in Nat /\ "none" \notin LI!Procs /\ LI!Caches = {"users", "channels"}
  BY FilesAssumption DEF LI!Procs, LI!Caches
<1>2. LI!Off \in TaskState /\ LI!Off.pc = "off" /\ ~LI!Off.ok /\ ~LI!Off.api
  BY <1>1 DEF LI!Off, LI!None, TaskState, Keys0
<1>3. LI!Absent \in CacheFile /\ ~LI!Absent.torn
  BY DEF LI!Absent, LI!None, CacheFile, Keys0
<1>4. \A k \in Keys0 : LI!Whole(k) \in CacheFile /\ LI!Whole(k).key = k /\ ~LI!Whole(k).torn
                      /\ \A j \in 1..Entries : LI!Whole(k).at[j] = k
  BY DEF LI!Whole, CacheFile
<1> QED
  BY <1>1, <1>2, <1>3, <1>4

LEMMA ListStart == LI!Init => ListInv
<1> SUFFICES ASSUME LI!Init PROVE ListInv
  OBVIOUS
<1> USE ListConstants
<1>1. \A p \in LI!Procs, w \in LI!Caches : task[p][w] = LI!Off
  BY DEF LI!Init
<1>2. \A p \in LI!Procs : cmd[p] = LI!Idle
  BY DEF LI!Init
<1>3. \A w \in LI!Caches : liFile[w] = IF w \in clean THEN LI!Whole("old") ELSE LI!Absent
  BY DEF LI!Init
<1>4. "old" \in Keys0 /\ "old" # "none"
  BY DEF Keys0
<1>5. ListTypes
  <2>1. cmd \in [LI!Procs -> [pc : {"idle", "retrieve", "print", "ok", "failed"}, what : LI!Caches, flag : BOOLEAN]]
    BY DEF LI!Init, LI!Idle
  <2>2. task \in [LI!Procs -> [LI!Caches -> TaskState]]
    BY DEF LI!Init
  <2>3. liFile \in [LI!Caches -> CacheFile]
    BY <1>4 DEF LI!Init
  <2>4. clean \subseteq LI!Caches /\ faults \in 0..ListFaults
    BY DEF LI!Init
  <2> QED
    BY <2>1, <2>2, <2>3, <2>4 DEF ListTypes
<1>6. \A p \in LI!Procs, w \in LI!Caches : Counts(task[p][w]) /\ task[p][w].pc = "off"
  BY <1>1 DEF Counts
<1>7. \A w \in clean : Untouched(w)
  BY <1>3, <1>4, <1>5, <1>6 DEF Untouched, ListTypes
<1>8. \A p \in LI!Procs : Retrieved(p)
  BY <1>2 DEF Retrieved, LI!Idle
<1> QED
  BY <1>5, <1>6, <1>7, <1>8 DEF ListInv, Listings

\* A retrieval goes on and touches no file.
LEMMA TaskGoesOn ==
  ASSUME ListInv, NEW p \in LI!Procs, NEW w \in LI!Caches, NEW t \in TaskState,
         task' = [task EXCEPT ![p][w] = t], UNCHANGED <<cmd, liFile, clean>>, faults' \in 0..ListFaults,
         task[p][w].pc \notin {"off", "done", "failed"}, t.pc # "write", Counts(t),
         t.pc = "read" /\ t.ok => w \in clean /\ t.key = liFile[w].key
  PROVE  ListInv'
<1>1. /\ task'[p][w] = t
      /\ \A q \in LI!Procs, v \in LI!Caches : <<q, v>> # <<p, w>> => task'[q][v] = task[q][v]
  BY DEF ListInv, ListTypes
<1>2. ListTypes'
  BY DEF ListInv, ListTypes
<1>3. ASSUME NEW q \in LI!Procs, NEW v \in LI!Caches
      PROVE  /\ Counts(task'[q][v])
             /\ task'[q][v].pc = "write" /\ task'[q][v].ok => AloneAt(q, v)'
             /\ task'[q][v].pc = "read" /\ task'[q][v].ok => v \in clean' /\ task'[q][v].key = liFile'[v].key
  <2>1. CASE <<q, v>> = <<p, w>>
    BY <1>1, <2>1
  <2>2. CASE <<q, v>> # <<p, w>>
    BY <1>1, <2>2 DEF ListInv, Listings, AloneAt
  <2> QED
    BY <2>1, <2>2
<1>4. \A v \in clean' : Untouched(v)'
  BY <1>1 DEF ListInv, ListTypes, Listings, Untouched
<1>5. ASSUME NEW q \in LI!Procs PROVE Retrieved(q)'
  <2>1. cmd[q].what \in LI!Caches /\ "users" \in LI!Caches /\ Retrieved(q)
    BY ListConstants DEF ListInv, ListTypes, Listings
  <2> QED
    BY <1>1, <2>1 DEF Retrieved
<1> QED
  BY <1>2, <1>3, <1>4, <1>5 DEF ListInv, Listings

LEMMA TaskShape ==
  ASSUME ListInv, NEW p \in LI!Procs, NEW w \in LI!Caches
  PROVE  task[p][w] \in TaskState /\ liFile[w] \in CacheFile /\ Counts(task[p][w]) /\ faults \in 0..ListFaults
BY DEF ListInv, ListTypes, Listings

LEMMA PointMoves ==
  ASSUME NEW t \in TaskState,
         NEW p \in {"off", "load", "read", "fetch", "join", "create", "write", "done", "failed"}
  PROVE  LET s == [t EXCEPT !.pc = p] IN
         s \in TaskState /\ s.pc = p /\ s.n = t.n /\ s.ok = t.ok /\ s.api = t.api /\ s.key = t.key /\ s.pos = t.pos
BY DEF TaskState

LEMMA ListLoadKept == ASSUME ListInv, NEW p \in LI!Procs, NEW w \in LI!Caches, LI!Load(p, w) PROVE ListInv'
<1>0. /\ task[p][w] \in TaskState /\ liFile[w] \in CacheFile /\ Counts(task[p][w]) /\ task[p][w].pc = "load"
      /\ UNCHANGED <<cmd, liFile, clean>> /\ faults' \in 0..ListFaults /\ Entries \in Nat
  BY TaskShape, ListConstants DEF LI!Load, LI!T
<1>1. CASE LI!Step(p, w, "fetch")
  <2> DEFINE t == [task[p][w] EXCEPT !.pc = "fetch"]
  <2>1. t \in TaskState /\ t.pc = "fetch" /\ Counts(t)
    BY <1>0, PointMoves DEF Counts
  <2>2. task' = [task EXCEPT ![p][w] = t]
    BY <1>1 DEF LI!Step, LI!Set, LI!T
  <2> HIDE DEF t
  <2> QED
    BY <1>0, <2>1, <2>2, TaskGoesOn
<1>2. CASE LI!Set(p, w, [LI!T(p, w) EXCEPT !.pc = "read", !.n = 0, !.key = liFile[w].key, !.ok = w \in clean])
  <2>a. task' = [task EXCEPT ![p][w] = [task[p][w] EXCEPT !.pc = "read", !.n = 0, !.key = liFile[w].key, !.ok = w \in clean]]
    BY <1>2 DEF LI!Set, LI!T
  <2>b. 0 \in 0..Entries /\ liFile[w].key \in Keys0
    BY <1>0 DEF CacheFile
  <2>c. ASSUME NEW b \in BOOLEAN, b <=> w \in clean,
               task' = [task EXCEPT ![p][w] = [task[p][w] EXCEPT !.pc = "read", !.n = 0, !.key = liFile[w].key, !.ok = b]]
        PROVE  ListInv'
    <3> DEFINE t == [task[p][w] EXCEPT !.pc = "read", !.n = 0, !.key = liFile[w].key, !.ok = b]
    <3>1. t \in TaskState
      BY <1>0, <2>b DEF TaskState
    <3>2. t.pc = "read" /\ t.key = liFile[w].key /\ t.ok = b /\ t.api = task[p][w].api
      BY <1>0 DEF TaskState
    <3>3. Counts(t)
      BY <1>0, <3>2 DEF Counts
    <3> HIDE DEF t
    <3>4. task' = [task EXCEPT ![p][w] = t]
      BY <2>c DEF t
    <3>5. task[p][w].pc \notin {"off", "done", "failed"} /\ t.pc # "write"
      BY <1>0, <3>2
    <3>6. t.pc = "read" /\ t.ok => w \in clean /\ t.key = liFile[w].key
      BY <2>c, <3>2
    <3> QED
      BY <1>0, <3>1, <3>3, <3>4, <3>5, <3>6, TaskGoesOn
  <2>1. CASE w \in clean
    <3>1. (w \in clean) = TRUE
      BY <2>1
    <3> QED
      BY <2>a, <2>c, <2>1, <3>1
  <2>2. CASE w \notin clean
    <3>1. (w \in clean) = FALSE
      BY <2>2
    <3> QED
      BY <2>a, <2>c, <2>2, <3>1
  <2> QED
    BY <2>1, <2>2
<1> QED
  BY <1>1, <1>2 DEF LI!Load

LEMMA ListReadKept == ASSUME ListInv, NEW p \in LI!Procs, NEW w \in LI!Caches, LI!Read(p, w) PROVE ListInv'
<1>0. /\ task[p][w] \in TaskState /\ liFile[w] \in CacheFile /\ Counts(task[p][w]) /\ task[p][w].pc = "read"
      /\ UNCHANGED <<cmd, liFile, clean>> /\ faults' \in 0..ListFaults /\ Entries \in Nat
  BY TaskShape, ListConstants DEF LI!Read, LI!T
<1> DEFINE n == task[p][w].n + 1
<1>1. n \in Nat /\ n >= 1 /\ n <= Entries + 1
  BY <1>0 DEF TaskState
<1>2. task[p][w].ok => w \in clean /\ task[p][w].key = liFile[w].key /\ \A k \in 1..Entries : liFile[w].at[k] = task[p][w].key
  BY <1>0 DEF ListInv, Listings, Untouched
<1>3. CASE n <= Entries /\ LI!Legible(p, w, n)
  <2> DEFINE t == [task[p][w] EXCEPT !.n = n]
  <2>1. t \in TaskState /\ t.pc = "read" /\ t.key = task[p][w].key /\ t.ok = task[p][w].ok /\ t.api = task[p][w].api
    BY <1>0, <1>1, <1>3 DEF TaskState
  <2>2. Counts(t)
    BY <1>0, <2>1 DEF Counts
  <2>3. task' = [task EXCEPT ![p][w] = t]
    BY <1>3 DEF LI!Read, LI!Set, LI!T
  <2> HIDE DEF t
  <2> QED
    BY <1>0, <1>2, <2>1, <2>2, <2>3, TaskGoesOn
<1>4. ASSUME ~(n <= Entries /\ LI!Legible(p, w, n)) PROVE ListInv'
  <2>1. task[p][w].ok => task[p][w].n = Entries
    BY <1>0, <1>1, <1>2, <1>4 DEF LI!Legible, LI!T, TaskState
  <2>2. ~task[p][w].ok \/ n = Entries + 1
    BY <2>1
  <2>3. PICK q \in {"done", "failed", "fetch"} :
          task' = [task EXCEPT ![p][w] = [task[p][w] EXCEPT !.pc = q]] /\ (task[p][w].ok => q = "done")
    <3> DEFINE ends == \A j \in n..Entries : liFile[w].at[j] = LI!None
    <3>1. IF ends /\ ~liFile[w].torn THEN LI!Step(p, w, "done")
          ELSE LI!Step(p, w, IF w = "users" THEN "failed" ELSE "fetch")
      BY <1>4 DEF LI!Read, LI!T
    <3>2. task[p][w].ok => ends /\ ~liFile[w].torn
      <4>1. task[p][w].ok => ~liFile[w].torn
        BY <1>2 DEF ListInv, Listings, Untouched
      <4>2. task[p][w].ok => n..Entries = {}
        BY <1>0, <1>1, <2>2
      <4> QED
        BY <4>1, <4>2
    <3> HIDE DEF ends
    <3> QED
      BY <3>1, <3>2 DEF LI!Step, LI!Set, LI!T
  <2> DEFINE t == [task[p][w] EXCEPT !.pc = q]
  <2>4. t \in TaskState /\ t.pc = q /\ t.ok = task[p][w].ok /\ t.api = task[p][w].api /\ t.n = task[p][w].n
    <3>1. q \in {"off", "load", "read", "fetch", "join", "create", "write", "done", "failed"}
      OBVIOUS
    <3> QED
      BY <1>0, <3>1 DEF TaskState
  <2>5. Counts(t)
    BY <1>0, <2>1, <2>3, <2>4 DEF Counts
  <2> HIDE DEF t
  <2>6. task' = [task EXCEPT ![p][w] = t]
    BY <2>3 DEF t
  <2> QED
    BY <1>0, <2>3, <2>4, <2>5, <2>6, TaskGoesOn
<1> QED
  BY <1>3, <1>4

LEMMA ListFetchKept == ASSUME ListInv, NEW p \in LI!Procs, NEW w \in LI!Caches, LI!Fetch(p, w) PROVE ListInv'
<1>0. /\ task[p][w] \in TaskState /\ Counts(task[p][w]) /\ task[p][w].pc = "fetch"
      /\ UNCHANGED <<cmd, liFile, clean>> /\ faults' \in 0..ListFaults /\ Entries \in Nat
  <2>1. faults \in 0..ListFaults /\ ListFaults \in Nat
    BY TaskShape, ListConstants
  <2>2. faults' = faults \/ (faults < ListFaults /\ faults' = faults + 1)
    BY DEF LI!Fetch, LI!Fault
  <2>3. faults' \in 0..ListFaults
    BY <2>1, <2>2
  <2>4. task[p][w].pc = "fetch" /\ UNCHANGED <<cmd, liFile, clean>>
    BY DEF LI!Fetch, LI!T
  <2> QED
    BY <2>3, <2>4, TaskShape, ListConstants
<1>1. CASE LI!Step(p, w, "failed")
  <2> DEFINE t == [task[p][w] EXCEPT !.pc = "failed"]
  <2>1. t \in TaskState /\ t.pc = "failed" /\ Counts(t)
    BY <1>0, PointMoves DEF Counts
  <2>2. task' = [task EXCEPT ![p][w] = t]
    BY <1>1 DEF LI!Step, LI!Set, LI!T
  <2> HIDE DEF t
  <2> QED
    BY <1>0, <2>1, <2>2, TaskGoesOn
<1>2. CASE LI!Set(p, w, [LI!T(p, w) EXCEPT !.pc = IF w = "users" THEN "create" ELSE "join", !.n = Entries, !.api = TRUE])
  <2>0. PICK q \in {"create", "join"} : q = IF w = "users" THEN "create" ELSE "join"
    OBVIOUS
  <2> DEFINE t == [task[p][w] EXCEPT !.pc = q, !.n = Entries, !.api = TRUE]
  <2>a. q \in {"off", "load", "read", "fetch", "join", "create", "write", "done", "failed"} /\ Entries \in 0..Entries
    BY <1>0
  <2>1. t \in TaskState
    BY <1>0, <2>a DEF TaskState
  <2>b. t.pc = q /\ t.n = Entries /\ t.api /\ t.ok = task[p][w].ok
    BY <1>0 DEF TaskState
  <2>2. Counts(t)
    BY <1>0, <2>b DEF Counts
  <2>3. task' = [task EXCEPT ![p][w] = t]
    BY <1>2, <2>0 DEF LI!Set, LI!T
  <2> HIDE DEF t
  <2>4. task[p][w].pc \notin {"off", "done", "failed"} /\ t.pc \notin {"write", "read"}
    BY <1>0, <2>b
  <2> QED
    BY <1>0, <2>1, <2>2, <2>3, <2>4, TaskGoesOn
<1> QED
  BY <1>1, <1>2 DEF LI!Fetch

LEMMA ListJoinKept == ASSUME ListInv, NEW p \in LI!Procs, LI!Join(p) PROVE ListInv'
<1>0. /\ "channels" \in LI!Caches /\ task[p]["channels"] \in TaskState /\ Counts(task[p]["channels"])
      /\ task[p]["channels"].pc = "join" /\ UNCHANGED <<cmd, liFile, clean>> /\ faults' \in 0..ListFaults
  BY TaskShape, ListConstants DEF LI!Join, LI!T
<1> DEFINE t == [task[p]["channels"] EXCEPT !.pc = "create"]
<1>a. t \in TaskState /\ t.pc = "create" /\ t.n = task[p]["channels"].n /\ t.ok = task[p]["channels"].ok
      /\ t.api = task[p]["channels"].api
  BY <1>0, PointMoves
<1>1. Counts(t)
  BY <1>0, <1>a DEF Counts
<1>2. task' = [task EXCEPT ![p]["channels"] = t]
  BY DEF LI!Join, LI!Step, LI!Set, LI!T
<1> HIDE DEF t
<1> QED
  BY <1>0, <1>a, <1>1, <1>2, TaskGoesOn

\* A command starts, or is killed, and its retrievals with it.
LEMMA TasksReset ==
  ASSUME ListInv, NEW p \in LI!Procs, NEW f \in [LI!Caches -> TaskState],
         \A w \in LI!Caches : f[w].pc \in {"off", "load"} /\ ~f[w].ok /\ ~f[w].api,
         task' = [task EXCEPT ![p] = f],
         NEW c \in [pc : {"idle", "retrieve", "print", "ok", "failed"}, what : LI!Caches, flag : BOOLEAN],
         c.pc \notin {"print", "ok"}, cmd' = [cmd EXCEPT ![p] = c],
         UNCHANGED <<liFile, clean>>, faults' \in 0..ListFaults
  PROVE  ListInv'
<1>1. /\ task'[p] = f /\ cmd'[p] = c
      /\ \A q \in LI!Procs : q # p => task'[q] = task[q] /\ cmd'[q] = cmd[q]
  BY DEF ListInv, ListTypes
<1>2. ListTypes'
  BY DEF ListInv, ListTypes
<1>3. ASSUME NEW q \in LI!Procs, NEW v \in LI!Caches
      PROVE  /\ Counts(task'[q][v])
             /\ task'[q][v].pc = "write" /\ task'[q][v].ok => AloneAt(q, v)'
             /\ task'[q][v].pc = "read" /\ task'[q][v].ok => v \in clean' /\ task'[q][v].key = liFile'[v].key
  <2>1. CASE q = p
    BY <1>1, <2>1 DEF Counts
  <2>2. CASE q # p
    <3>1. \A r \in LI!Procs : task'[r][v].pc = "write" => task[r][v].pc = "write"
      BY <1>1
    <3> QED
      BY <1>1, <2>2, <3>1 DEF ListInv, Listings, AloneAt
  <2> QED
    BY <2>1, <2>2
<1>4. ASSUME NEW v \in clean' PROVE Untouched(v)'
  <2>1. Untouched(v) /\ v \in LI!Caches
    BY <1>4 DEF ListInv, ListTypes, Listings
  <2>2. \A r \in LI!Procs : task'[r][v].pc # "write"
    BY <1>1, <2>1 DEF Untouched
  <2> QED
    BY <2>1, <2>2 DEF Untouched
<1>5. ASSUME NEW q \in LI!Procs PROVE Retrieved(q)'
  BY <1>1 DEF ListInv, Listings, Retrieved
<1> QED
  BY <1>2, <1>3, <1>4, <1>5 DEF ListInv, Listings

LEMMA ListFault == ASSUME ListInv, faults' = faults \/ LI!Fault PROVE faults' \in 0..ListFaults
<1>1. faults \in 0..ListFaults /\ ListFaults \in Nat
  BY ListConstants DEF ListInv, ListTypes
<1> QED
  BY <1>1 DEF LI!Fault

LEMMA ListCachedKept == ASSUME ListInv, NEW p \in LI!Procs, LI!ListCached(p) PROVE ListInv'
<1>1. PICK r \in Runs[p] :
        /\ cmd' = [cmd EXCEPT ![p] = [pc |-> "retrieve", what |-> r.what, flag |-> r.flag]]
        /\ task' = [task EXCEPT ![p] = [w \in LI!Caches |->
             IF w = r.what \/ r.resolve THEN [LI!Off EXCEPT !.pc = "load"] ELSE LI!Off]]
  BY DEF LI!ListCached
<1>2. r \in [what : {"users", "channels"}, flag : BOOLEAN, resolve : BOOLEAN]
  BY FilesAssumption DEF LI!Procs
<1> DEFINE c == [pc |-> "retrieve", what |-> r.what, flag |-> r.flag]
           l == [LI!Off EXCEPT !.pc = "load"]
           f == [w \in LI!Caches |-> IF w = r.what \/ r.resolve THEN l ELSE LI!Off]
<1>3. c \in [pc : {"idle", "retrieve", "print", "ok", "failed"}, what : LI!Caches, flag : BOOLEAN]
      /\ c.pc = "retrieve"
  BY <1>2, ListConstants
<1>4. l \in TaskState /\ l.pc = "load" /\ ~l.ok /\ ~l.api
  BY ListConstants, PointMoves
<1>5. faults' \in 0..ListFaults /\ UNCHANGED <<liFile, clean>>
  BY ListFault DEF LI!ListCached
<1> HIDE DEF l
<1>6. f \in [LI!Caches -> TaskState] /\ \A w \in LI!Caches : f[w].pc \in {"off", "load"} /\ ~f[w].ok /\ ~f[w].api
  BY <1>4, ListConstants
<1>7. cmd' = [cmd EXCEPT ![p] = c] /\ task' = [task EXCEPT ![p] = f]
  BY <1>1 DEF l
<1> HIDE DEF c, f
<1> QED
  BY <1>3, <1>5, <1>6, <1>7, TasksReset

LEMMA ListKillKept == ASSUME ListInv, NEW p \in LI!Procs, LI!Kill(p) PROVE ListInv'
<1> DEFINE c == [cmd[p] EXCEPT !.pc = "failed"]
           f == [w \in LI!Caches |-> LI!Off]
<1>1. c \in [pc : {"idle", "retrieve", "print", "ok", "failed"}, what : LI!Caches, flag : BOOLEAN] /\ c.pc = "failed"
  BY DEF ListInv, ListTypes
<1>2. f \in [LI!Caches -> TaskState] /\ \A w \in LI!Caches : f[w].pc \in {"off", "load"} /\ ~f[w].ok /\ ~f[w].api
  BY ListConstants
<1>3. faults' \in 0..ListFaults /\ UNCHANGED <<liFile, clean>>
  BY ListFault DEF LI!Kill
<1>4. cmd' = [cmd EXCEPT ![p] = c] /\ task' = [task EXCEPT ![p] = f]
  BY DEF LI!Kill
<1> HIDE DEF c, f
<1> QED
  BY <1>1, <1>2, <1>3, <1>4, TasksReset

\* A command goes on.
LEMMA CommandMoves ==
  ASSUME ListInv, NEW p \in LI!Procs, NEW x \in {"idle", "retrieve", "print", "ok", "failed"},
         cmd' = [cmd EXCEPT ![p].pc = x], UNCHANGED <<task, liFile, clean>>, faults' \in 0..ListFaults,
         x \in {"print", "ok"} =>
           task[p][cmd[p].what].pc = "done" /\ task[p]["users"].pc \in {"off", "done", "failed"}
  PROVE  ListInv'
<1>1. cmd'[p].what = cmd[p].what /\ cmd'[p].pc = x /\ \A q \in LI!Procs : q # p => cmd'[q] = cmd[q]
  BY DEF ListInv, ListTypes
<1>2. ListTypes'
  BY DEF ListInv, ListTypes
<1>3. \A q \in LI!Procs : Retrieved(q)'
  BY <1>1 DEF ListInv, Listings, Retrieved
<1> QED
  BY <1>2, <1>3 DEF ListInv, Listings, Counts, AloneAt, Untouched

LEMMA ListReturnsKept == ASSUME ListInv, NEW p \in LI!Procs, LI!Returns(p) PROVE ListInv'
<1>1. UNCHANGED <<task, liFile, clean>> /\ faults' \in 0..ListFaults
  BY ListFault DEF LI!Returns
<1>2. CASE cmd' = [cmd EXCEPT ![p].pc = "failed"]
  BY <1>1, <1>2, CommandMoves
<1>3. CASE /\ task[p][cmd[p].what].pc = "done" /\ task[p]["users"].pc \in {"off", "done", "failed"}
           /\ cmd' = [cmd EXCEPT ![p].pc = "print"]
  BY <1>1, <1>3, CommandMoves
<1> QED
  BY <1>2, <1>3 DEF LI!Returns, LI!T, LI!Ended

LEMMA ListSaveKept == ASSUME ListInv, NEW p \in LI!Procs, LI!SaveData(p) PROVE ListInv'
<1>1. UNCHANGED <<task, liFile, clean>> /\ faults' \in 0..ListFaults
  BY ListFault DEF LI!SaveData
<1>2. task[p][cmd[p].what].pc = "done" /\ task[p]["users"].pc \in {"off", "done", "failed"}
  BY DEF ListInv, Listings, Retrieved, LI!SaveData
<1>3. CASE cmd' = [cmd EXCEPT ![p].pc = "failed"]
  BY <1>1, <1>3, CommandMoves
<1>4. CASE cmd' = [cmd EXCEPT ![p].pc = "ok"]
  BY <1>1, <1>2, <1>4, CommandMoves
<1> QED
  BY <1>3, <1>4 DEF LI!SaveData

LEMMA ListExpireKept == ASSUME ListInv, NEW w \in LI!Caches, LI!Expire(w) PROVE ListInv'
<1>1. faults' \in 0..ListFaults /\ UNCHANGED <<cmd, task, clean>>
  BY ListFault DEF LI!Expire
<1>2. /\ liFile' \in [LI!Caches -> CacheFile]
      /\ \A v \in LI!Caches : /\ liFile'[v].key = liFile[v].key /\ liFile'[v].at = liFile[v].at
                              /\ liFile'[v].torn = liFile[v].torn
  BY DEF ListInv, ListTypes, LI!Expire, CacheFile
<1>3. ListTypes'
  BY <1>1, <1>2 DEF ListInv, ListTypes
<1>4. \A q \in LI!Procs, v \in LI!Caches : AloneAt(q, v) => AloneAt(q, v)'
  BY <1>1, <1>2 DEF AloneAt
<1>5. \A v \in clean' : Untouched(v)'
  BY <1>1, <1>2 DEF ListInv, ListTypes, Listings, Untouched
<1>6. \A q \in LI!Procs : Retrieved(q)'
  BY <1>1 DEF ListInv, Listings, Retrieved
<1>7. \A q \in LI!Procs, v \in LI!Caches :
        /\ Counts(task'[q][v])
        /\ task'[q][v].pc = "write" /\ task'[q][v].ok => AloneAt(q, v)'
        /\ task'[q][v].pc = "read" /\ task'[q][v].ok => v \in clean' /\ task'[q][v].key = liFile'[v].key
  BY <1>1, <1>2, <1>4 DEF ListInv, Listings
<1> QED
  BY <1>3, <1>5, <1>6, <1>7 DEF ListInv, Listings

\* A writer goes on.
LEMMA WriterMoves ==
  ASSUME ListInv, NEW p \in LI!Procs, NEW w \in LI!Caches, task[p][w].pc = "write",
         NEW t \in TaskState, task' = [task EXCEPT ![p][w] = t], t.pc \in {"write", "done"}, Counts(t),
         NEW g \in CacheFile, liFile' = [liFile EXCEPT ![w] = g], UNCHANGED cmd, faults' \in 0..ListFaults,
         t.pc = "write" /\ t.ok =>
           /\ \A q \in LI!Procs : task[q][w].pc = "write" => q = p
           /\ g.key = p /\ ~g.torn /\ \A k \in 1..t.pos : g.at[k] = p,
         \/ clean' = clean
         \/ /\ clean' = clean \cup {w} /\ t.pc = "done"
            /\ \A q \in LI!Procs : task[q][w].pc = "write" => q = p
            /\ g.key # "none" /\ ~g.torn /\ \A k \in 1..Entries : g.at[k] = g.key
  PROVE  ListInv'
<1>1. /\ task'[p][w] = t
      /\ \A q \in LI!Procs, v \in LI!Caches : <<q, v>> # <<p, w>> => task'[q][v] = task[q][v]
      /\ liFile'[w] = g /\ \A v \in LI!Caches : v # w => liFile'[v] = liFile[v]
  BY DEF ListInv, ListTypes
<1>2. ListTypes'
  BY DEF ListInv, ListTypes
<1>3. w \notin clean
  BY DEF ListInv, Listings, Untouched
<1>4. ASSUME NEW q \in LI!Procs, NEW v \in LI!Caches
      PROVE  /\ Counts(task'[q][v])
             /\ task'[q][v].pc = "write" /\ task'[q][v].ok => AloneAt(q, v)'
             /\ task'[q][v].pc = "read" /\ task'[q][v].ok => v \in clean' /\ task'[q][v].key = liFile'[v].key
  <2>1. CASE q = p /\ v = w
    <3>1. task'[q][v].pc = "write" /\ task'[q][v].ok => AloneAt(q, v)'
      <4> SUFFICES ASSUME t.pc = "write", t.ok PROVE AloneAt(p, w)'
        BY <1>1, <2>1
      <4>1. \A r \in LI!Procs : task'[r][w].pc = "write" => r = p
        BY <1>1
      <4> QED
        BY <1>1, <1>3, <4>1 DEF AloneAt
    <3> QED
      BY <1>1, <2>1, <3>1
  <2>2. CASE q # p /\ v = w
    <3>1. task'[q][w] = task[q][w] /\ (task[q][w].pc = "write" => ~task[q][w].ok) /\ (task[q][w].pc = "read" => ~task[q][w].ok)
      BY <1>1, <1>3, <2>2 DEF ListInv, Listings, AloneAt
    <3> QED
      BY <2>2, <3>1 DEF ListInv, Listings
  <2>3. CASE v # w
    <3>1. \A r \in LI!Procs : task'[r][v] = task[r][v]
      BY <1>1, <2>3
    <3>2. v \in clean <=> v \in clean'
      BY <2>3
    <3> QED
      BY <1>1, <2>3, <3>1, <3>2 DEF ListInv, Listings, AloneAt
  <2> QED
    BY <2>1, <2>2, <2>3
<1>5. ASSUME NEW v \in clean' PROVE Untouched(v)'
  <2>1. CASE v = w
    <3>1. \A q \in LI!Procs : task'[q][w].pc # "write"
      BY <1>1, <1>3, <1>5, <2>1
    <3> QED
      BY <1>1, <1>3, <1>5, <2>1, <3>1 DEF Untouched
  <2>2. CASE v # w
    <3>1. v \in clean /\ v \in LI!Caches /\ Untouched(v)
      BY <1>5, <2>2 DEF ListInv, ListTypes, Listings
    <3>2. \A r \in LI!Procs : task'[r][v] = task[r][v]
      BY <1>1, <2>2, <3>1
    <3> QED
      BY <1>1, <2>2, <3>1, <3>2 DEF Untouched
  <2> QED
    BY <2>1, <2>2
<1>6. ASSUME NEW q \in LI!Procs PROVE Retrieved(q)'
  <2>1. cmd[q].what \in LI!Caches /\ "users" \in LI!Caches /\ Retrieved(q)
    BY ListConstants DEF ListInv, ListTypes, Listings
  <2> QED
    BY <1>1, <2>1 DEF Retrieved
<1> QED
  BY <1>2, <1>4, <1>5, <1>6 DEF ListInv, Listings

LEMMA ListWriteKept == ASSUME ListInv, NEW p \in LI!Procs, NEW w \in LI!Caches, LI!WriteSlice(p, w) PROVE ListInv'
<1>0. /\ task[p][w] \in TaskState /\ liFile[w] \in CacheFile /\ Counts(task[p][w]) /\ task[p][w].pc = "write"
      /\ UNCHANGED cmd /\ faults' \in 0..ListFaults /\ Entries \in Nat
  BY TaskShape, ListFault, ListConstants DEF LI!WriteSlice, LI!Writes, LI!T
<1>1. task[p][w].ok => AloneAt(p, w)
  BY <1>0 DEF ListInv, Listings
<1> DEFINE old == task[p][w]
           n == old.pos + 1
<1>2. old \in TaskState /\ Counts(old) /\ old.pc = "write" /\ old.pos \in 0..Entries /\ n \in Nat /\ n - 1 = old.pos
  BY <1>0 DEF TaskState
<1>3. PICK x \in {"write", "done"}, y \in 0..Entries :
        /\ task' = [task EXCEPT ![p][w] = [old EXCEPT !.pc = x, !.pos = y]]
        /\ \/ /\ liFile' = [liFile EXCEPT ![w].at[n] = p]
              /\ \/ x = "write" /\ y = n /\ UNCHANGED clean
                 \/ x = "done" /\ n >= Entries /\ clean' = IF old.ok THEN clean \cup {w} ELSE clean
           \/ liFile' = [liFile EXCEPT ![w].torn = TRUE] /\ x = "done" /\ UNCHANGED clean
  <2>1. [old EXCEPT !.pc = "done"] = [old EXCEPT !.pc = "done", !.pos = old.pos]
        /\ [old EXCEPT !.pos = n] = [old EXCEPT !.pc = "write", !.pos = n]
    BY <1>2 DEF TaskState
  <2>2. n < Entries => n \in 0..Entries
    BY <1>0, <1>2
  <2>3. CASE liFile' = [liFile EXCEPT ![w].at[n] = p] /\ n < Entries /\ LI!Set(p, w, [old EXCEPT !.pos = n]) /\ UNCHANGED clean
    <3>1. task' = [task EXCEPT ![p][w] = [old EXCEPT !.pc = "write", !.pos = n]]
      BY <2>1, <2>3 DEF LI!Set
    <3> QED
      BY <2>2, <2>3, <3>1
  <2>4. CASE /\ liFile' = [liFile EXCEPT ![w].at[n] = p] /\ ~(n < Entries) /\ LI!Step(p, w, "done")
             /\ clean' = IF old.ok THEN clean \cup {w} ELSE clean
    <3>1. task' = [task EXCEPT ![p][w] = [old EXCEPT !.pc = "done", !.pos = old.pos]]
      BY <2>1, <2>4 DEF LI!Set, LI!Step, LI!T
    <3>2. n >= Entries
      BY <1>0, <1>2, <2>4
    <3> QED
      BY <1>2, <2>4, <3>1, <3>2
  <2>5. CASE liFile' = [liFile EXCEPT ![w].torn = TRUE] /\ LI!Step(p, w, "done") /\ UNCHANGED clean
    <3>1. task' = [task EXCEPT ![p][w] = [old EXCEPT !.pc = "done", !.pos = old.pos]]
      BY <2>1, <2>5 DEF LI!Set, LI!Step, LI!T
    <3> QED
      BY <1>2, <2>5, <3>1
  <2> QED
    BY <2>3, <2>4, <2>5 DEF LI!WriteSlice, LI!T
<1> DEFINE t == [old EXCEPT !.pc = x, !.pos = y]
<1>4. t \in TaskState
  BY <1>2 DEF TaskState
<1>5. t.pc = x /\ t.pos = y /\ t.ok = old.ok /\ t.api = old.api /\ t.n = old.n
  BY <1>2 DEF TaskState
<1>6. Counts(t)
  BY <1>2, <1>5 DEF Counts
<1> HIDE DEF t
<1>7. task' = [task EXCEPT ![p][w] = t]
  BY <1>3 DEF t
<1> HIDE DEF old
<1>8. p \in Keys0 /\ p # "none"
  BY ListConstants DEF Keys0
<1>9. old.ok => /\ \A q \in LI!Procs : task[q][w].pc = "write" => q = p
                /\ liFile[w].key = p /\ ~liFile[w].torn /\ \A k \in 1..old.pos : liFile[w].at[k] = p
  BY <1>1 DEF AloneAt, old
<1>10. CASE /\ liFile' = [liFile EXCEPT ![w].at[n] = p]
            /\ \/ x = "write" /\ y = n /\ UNCHANGED clean
               \/ x = "done" /\ n >= Entries /\ clean' = IF old.ok THEN clean \cup {w} ELSE clean
  <2> DEFINE g == [liFile[w] EXCEPT !.at[n] = p]
  <2>1. g \in CacheFile
    BY <1>0, <1>8 DEF CacheFile
  <2>2. g.key = liFile[w].key /\ g.torn = liFile[w].torn
    BY <1>0 DEF CacheFile
  <2>3. \A k \in 1..Entries : g.at[k] = IF k = n THEN p ELSE liFile[w].at[k]
    BY <1>0 DEF CacheFile
  <2>4. liFile' = [liFile EXCEPT ![w] = g]
    BY <1>10
  <2> HIDE DEF g
  <2>5. x = "write" /\ old.ok => \A k \in 1..y : g.at[k] = p
    <3> SUFFICES ASSUME x = "write", old.ok, NEW k \in 1..y PROVE g.at[k] = p
      OBVIOUS
    <3>1. y = n /\ y <= Entries
      BY <1>0, <1>10
    <3>2. k \in 1..Entries /\ (k = n \/ k \in 1..old.pos)
      BY <1>0, <1>2, <3>1
    <3> QED
      BY <1>9, <2>3, <3>2
  <2>6. x = "done" /\ old.ok => \A k \in 1..Entries : g.at[k] = p
    <3> SUFFICES ASSUME x = "done", old.ok, NEW k \in 1..Entries PROVE g.at[k] = p
      OBVIOUS
    <3>1. n >= Entries
      BY <1>10
    <3>2. k = n \/ k \in 1..old.pos
      BY <1>0, <1>2, <3>1
    <3> QED
      BY <1>9, <2>3, <3>2
  <2>7. t.pc = "write" /\ t.ok =>
           /\ \A q \in LI!Procs : task[q][w].pc = "write" => q = p
           /\ g.key = p /\ ~g.torn /\ \A k \in 1..t.pos : g.at[k] = p
    BY <1>5, <1>9, <2>2, <2>5
  <2>8. \/ clean' = clean
        \/ /\ clean' = clean \cup {w} /\ t.pc = "done"
           /\ \A q \in LI!Procs : task[q][w].pc = "write" => q = p
           /\ g.key # "none" /\ ~g.torn /\ \A k \in 1..Entries : g.at[k] = g.key
    <3>1. CASE clean' = clean
      BY <3>1
    <3>2. CASE x = "done" /\ old.ok /\ clean' = clean \cup {w}
      <4>1. g.key = p /\ ~g.torn /\ t.pc = "done" /\ g.key # "none"
        BY <1>5, <1>8, <1>9, <2>2, <3>2
      <4>2. \A q \in LI!Procs : task[q][w].pc = "write" => q = p
        BY <1>9, <3>2
      <4> QED
        BY <2>6, <3>2, <4>1, <4>2
    <3> QED
      BY <1>10, <3>1, <3>2
  <2>9. task[p][w].pc = "write" /\ t.pc \in {"write", "done"}
    BY <1>0, <1>5
  <2> QED
    BY <1>0, <1>4, <1>6, <1>7, <2>1, <2>4, <2>7, <2>8, <2>9, WriterMoves
<1>11. CASE liFile' = [liFile EXCEPT ![w].torn = TRUE] /\ x = "done" /\ UNCHANGED clean
  <2> DEFINE g == [liFile[w] EXCEPT !.torn = TRUE]
  <2>1. g \in CacheFile
    BY <1>0 DEF CacheFile
  <2>2. liFile' = [liFile EXCEPT ![w] = g]
    BY <1>11
  <2> HIDE DEF g
  <2>3. task[p][w].pc = "write" /\ t.pc \in {"write", "done"} /\ t.pc # "write" /\ clean' = clean
    BY <1>0, <1>5, <1>11
  <2>4. t.pc = "write" /\ t.ok =>
           /\ \A q \in LI!Procs : task[q][w].pc = "write" => q = p
           /\ g.key = p /\ ~g.torn /\ \A k \in 1..t.pos : g.at[k] = p
    BY <2>3
  <2> QED
    BY <1>0, <1>4, <1>6, <1>7, <2>1, <2>2, <2>3, <2>4, WriterMoves
<1> QED
  BY <1>3, <1>10, <1>11

LEMMA ListCreateKept == ASSUME ListInv, NEW p \in LI!Procs, NEW w \in LI!Caches, LI!Create(p, w) PROVE ListInv'
<1>0. /\ task[p][w] \in TaskState /\ Counts(task[p][w]) /\ task[p][w].pc = "create"
      /\ UNCHANGED cmd /\ faults' \in 0..ListFaults /\ Entries \in Nat
  BY TaskShape, ListFault, ListConstants DEF LI!Create, LI!T
<1>1. CASE LI!Step(p, w, "done") /\ UNCHANGED <<liFile, clean>>
  <2> DEFINE t == [task[p][w] EXCEPT !.pc = "done"]
  <2>1. t \in TaskState /\ t.pc = "done" /\ t.ok = task[p][w].ok /\ t.api = task[p][w].api /\ t.n = task[p][w].n
    BY <1>0, PointMoves
  <2>2. Counts(t)
    BY <1>0, <2>1 DEF Counts
  <2>3. task' = [task EXCEPT ![p][w] = t]
    BY <1>1 DEF LI!Step, LI!Set, LI!T
  <2> HIDE DEF t
  <2> QED
    BY <1>0, <1>1, <2>1, <2>2, <2>3, TaskGoesOn
<1>2. ASSUME NEW b \in BOOLEAN, b <=> ~\E r \in LI!Procs : task[r][w].pc = "write",
             liFile' = [liFile EXCEPT ![w] = [LI!Absent EXCEPT !.key = p, !.fresh = TRUE]],
             clean' = clean \ {w},
             task' = [q \in LI!Procs |-> [task[q] EXCEPT ![w] =
               IF q = p THEN [task[q][w] EXCEPT !.pc = "write", !.pos = 0, !.ok = b]
               ELSE [task[q][w] EXCEPT !.ok = FALSE]]]
      PROVE  ListInv'
  <2> DEFINE g == [LI!Absent EXCEPT !.key = p, !.fresh = TRUE]
  <2>1. g \in CacheFile /\ g.key = p /\ ~g.torn
    BY ListConstants DEF CacheFile, Keys0
  <2>2. liFile'[w] = g /\ (\A v \in LI!Caches : v # w => liFile'[v] = liFile[v]) /\ liFile' \in [LI!Caches -> CacheFile]
    BY <1>2, <2>1 DEF ListInv, ListTypes
  <2> DEFINE t == [task[p][w] EXCEPT !.pc = "write", !.pos = 0, !.ok = b]
             u(q) == [task[q][w] EXCEPT !.ok = FALSE]
  <2>a. 0 \in 0..Entries
    BY <1>0
  <2>3. t \in TaskState
    BY <1>0, <2>a DEF TaskState
  <2>4. t.pc = "write" /\ t.pos = 0 /\ t.ok = b /\ t.api = task[p][w].api /\ t.n = task[p][w].n
    BY <1>0 DEF TaskState
  <2>5. Counts(t)
    BY <1>0, <2>4 DEF Counts
  <2>6. \A q \in LI!Procs : u(q) \in TaskState /\ ~u(q).ok /\ u(q).pc = task[q][w].pc /\ Counts(u(q))
    <3> TAKE q \in LI!Procs
    <3>1. task[q][w] \in TaskState /\ Counts(task[q][w])
      BY TaskShape
    <3>2. u(q) \in TaskState /\ ~u(q).ok /\ u(q).pc = task[q][w].pc /\ u(q).n = task[q][w].n /\ u(q).api = task[q][w].api
      BY <3>1 DEF TaskState
    <3> QED
      BY <3>1, <3>2 DEF Counts
  <2> HIDE DEF t, u, g
  <2>7. task' = [q \in LI!Procs |-> [task[q] EXCEPT ![w] = IF q = p THEN t ELSE u(q)]]
    BY <1>2 DEF t, u
  <2>8. /\ task'[p][w] = t
        /\ \A q \in LI!Procs : q # p => task'[q][w] = u(q)
        /\ \A q \in LI!Procs, v \in LI!Caches : v # w => task'[q][v] = task[q][v]
    BY <2>7 DEF ListInv, ListTypes
  <2>9. task' \in [LI!Procs -> [LI!Caches -> TaskState]]
    <3>1. \A q \in LI!Procs : task[q] \in [LI!Caches -> TaskState] /\ (IF q = p THEN t ELSE u(q)) \in TaskState
      BY <2>3, <2>6 DEF ListInv, ListTypes
    <3> QED
      BY <2>7, <3>1
  <2>10. ListTypes'
    BY <1>0, <1>2, <2>2, <2>9 DEF ListInv, ListTypes
  <2>11. ASSUME NEW q \in LI!Procs, NEW v \in LI!Caches
        PROVE  /\ Counts(task'[q][v])
               /\ task'[q][v].pc = "write" /\ task'[q][v].ok => AloneAt(q, v)'
               /\ task'[q][v].pc = "read" /\ task'[q][v].ok => v \in clean' /\ task'[q][v].key = liFile'[v].key
    <3>1. CASE q = p /\ v = w
      <4>1. task'[q][v].ok => AloneAt(p, w)'
        <5> SUFFICES ASSUME b PROVE AloneAt(p, w)'
          BY <2>4, <2>8, <3>1
        <5>0. \A r \in LI!Procs : task[r][w].pc # "write"
          BY <1>2
        <5>1. \A r \in LI!Procs : task'[r][w].pc = "write" => r = p
          BY <2>6, <2>8, <5>0
        <5>2. liFile'[w].key = p /\ ~liFile'[w].torn /\ w \notin clean' /\ task'[p][w].pos = 0
          BY <1>2, <2>1, <2>2, <2>4, <2>8
        <5> QED
          BY <5>1, <5>2 DEF AloneAt
      <4> QED
        BY <2>4, <2>5, <2>8, <3>1, <4>1
    <3>2. CASE q # p /\ v = w
      BY <2>6, <2>8, <3>2
    <3>3. CASE v # w
      <4>1. \A r \in LI!Procs : task'[r][v] = task[r][v]
        BY <2>8, <3>3
      <4>2. v \in clean <=> v \in clean'
        BY <1>2, <3>3
      <4> QED
        BY <2>2, <3>3, <4>1, <4>2 DEF ListInv, Listings, AloneAt
    <3> QED
      BY <3>1, <3>2, <3>3
  <2>12. ASSUME NEW v \in clean' PROVE Untouched(v)'
    <3>1. v \in clean /\ v # w /\ v \in LI!Caches /\ Untouched(v)
      BY <1>2, <2>12 DEF ListInv, ListTypes, Listings
    <3>2. \A r \in LI!Procs : task'[r][v] = task[r][v]
      BY <2>8, <3>1
    <3> QED
      BY <2>2, <3>1, <3>2 DEF Untouched
  <2>13. ASSUME NEW q \in LI!Procs PROVE Retrieved(q)'
    <3>1. cmd[q].what \in LI!Caches /\ "users" \in LI!Caches /\ Retrieved(q)
      BY ListConstants DEF ListInv, ListTypes, Listings
    <3>2. \A v \in LI!Caches : task'[q][v].pc = task[q][v].pc \/ task[q][v].pc = "create"
      BY <1>0, <2>6, <2>8
    <3> QED
      BY <1>0, <3>1, <3>2 DEF Retrieved
  <2> QED
    BY <2>10, <2>11, <2>12, <2>13 DEF ListInv, Listings
<1>3. ASSUME liFile' = [liFile EXCEPT ![w] = [LI!Absent EXCEPT !.key = p, !.fresh = TRUE]],
             clean' = clean \ {w},
             task' = [q \in LI!Procs |-> [task[q] EXCEPT ![w] =
               IF q = p THEN [task[q][w] EXCEPT !.pc = "write", !.pos = 0,
                                                !.ok = ~\E r \in LI!Procs : task[r][w].pc = "write"]
               ELSE [task[q][w] EXCEPT !.ok = FALSE]]]
      PROVE  ListInv'
  <2>1. CASE \E r \in LI!Procs : task[r][w].pc = "write"
    <3>1. (~\E r \in LI!Procs : task[r][w].pc = "write") = FALSE
      BY <2>1
    <3> QED
      BY <1>2, <1>3, <2>1, <3>1
  <2>2. CASE ~\E r \in LI!Procs : task[r][w].pc = "write"
    <3>1. (~\E r \in LI!Procs : task[r][w].pc = "write") = TRUE
      BY <2>2
    <3> QED
      BY <1>2, <1>3, <2>2, <3>1
  <2> QED
    BY <2>1, <2>2
<1> QED
  BY <1>1, <1>3 DEF LI!Create, LI!T, LI!Writes

LEMMA ListKept == ListInv /\ [LI!Next]_(LI!vars) => ListInv'
<1> SUFFICES ASSUME ListInv, [LI!Next]_(LI!vars) PROVE ListInv'
  OBVIOUS
<1>1. CASE LI!Next
  BY <1>1, ListCachedKept, ListJoinKept, ListReturnsKept, ListSaveKept, ListKillKept, ListLoadKept, ListReadKept,
     ListFetchKept, ListCreateKept, ListWriteKept, ListExpireKept DEF LI!Next
<1>2. CASE UNCHANGED LI!vars
  BY <1>2 DEF LI!vars, ListInv, ListTypes, Listings, Counts, AloneAt, Untouched, Retrieved
<1> QED
  BY <1>1, <1>2

LEMMA ListHolds == ListInv => LI!TypeOK /\ LI!ListingIsWhole /\ LI!CleanIsLegible
<1> SUFFICES ASSUME ListInv PROVE LI!TypeOK /\ LI!ListingIsWhole /\ LI!CleanIsLegible
  OBVIOUS
<1>1. \A p \in LI!Procs, w \in LI!Caches : task[p][w] \in TaskState /\ Counts(task[p][w])
  BY TaskShape
<1>2. LI!TypeOK
  <2>1. \A p \in LI!Procs : cmd[p].pc \in {"idle", "retrieve", "print", "ok", "failed"}
    BY DEF ListInv, ListTypes
  <2>2. \A p \in LI!Procs, w \in LI!Caches : task[p][w].n \in 0..Entries /\ task[p][w].pos \in 0..Entries
    BY <1>1 DEF TaskState
  <2> QED
    BY <2>1, <2>2 DEF LI!TypeOK, LI!T, ListInv, ListTypes
<1>3. LI!ListingIsWhole
  <2>1. \A p \in LI!Procs : Retrieved(p)
    BY DEF ListInv, Listings
  <2> QED
    BY <1>1, <2>1 DEF LI!ListingIsWhole, LI!T, LI!Ended, Counts, Retrieved
<1>4. LI!CleanIsLegible
  BY DEF ListInv, Listings, Untouched, LI!CleanIsLegible, LI!None
<1> QED
  BY <1>2, <1>3, <1>4

-----------------------------------------------------------------------------
(* The collector of a chunk directory.                                     *)

Elems(s) == {s[k] : k \in 1..Len(s)}
OneEach(s) == \A k, l \in 1..Len(s) : s[k] = s[l] => k = l

LEMMA AppendOne ==
  ASSUME NEW S, NEW s \in Seq(S), NEW e \in S
  PROVE  /\ Append(s, e) \in Seq(S) /\ Len(Append(s, e)) = Len(s) + 1
         /\ Elems(Append(s, e)) = Elems(s) \cup {e}
         /\ OneEach(s) /\ e \notin Elems(s) => OneEach(Append(s, e))
<1>1. /\ Append(s, e) \in Seq(S) /\ Len(Append(s, e)) = Len(s) + 1 /\ Len(s) \in Nat
      /\ \A k \in 1..Len(s) : Append(s, e)[k] = s[k]
      /\ Append(s, e)[Len(s) + 1] = e
  OBVIOUS
<1>2. 1..(Len(s) + 1) = (1..Len(s)) \cup {Len(s) + 1} /\ Len(s) + 1 \notin 1..Len(s)
  BY <1>1
<1>3. Elems(Append(s, e)) = Elems(s) \cup {e}
  BY <1>1, <1>2 DEF Elems
<1>4. OneEach(s) /\ e \notin Elems(s) => OneEach(Append(s, e))
  BY <1>1, <1>2 DEF OneEach, Elems
<1> QED
  BY <1>1, <1>3, <1>4

LEMMA TakeOne ==
  ASSUME NEW S, NEW s \in Seq(S), s # <<>>
  PROVE  /\ Tail(s) \in Seq(S) /\ Len(Tail(s)) = Len(s) - 1 /\ Len(s) \in Nat
         /\ Head(s) \in Elems(s) /\ Elems(s) = Elems(Tail(s)) \cup {Head(s)}
         /\ OneEach(s) => OneEach(Tail(s)) /\ Head(s) \notin Elems(Tail(s))
<1>1. /\ Tail(s) \in Seq(S) /\ Len(Tail(s)) = Len(s) - 1 /\ Len(s) \in Nat \ {0}
      /\ Head(s) = s[1] /\ \A k \in 1..(Len(s) - 1) : Tail(s)[k] = s[k + 1]
  BY EmptySeq, HeadTailProperties
<1>2. Head(s) \in Elems(s)
  BY <1>1 DEF Elems
<1>3. Elems(s) = Elems(Tail(s)) \cup {Head(s)}
  <2>1. ASSUME NEW k \in 1..Len(s) PROVE s[k] \in Elems(Tail(s)) \cup {Head(s)}
    <3>1. k = 1 \/ (k - 1 \in 1..(Len(s) - 1) /\ k = (k - 1) + 1)
      BY <1>1
    <3>2. k - 1 \in 1..(Len(s) - 1) => Tail(s)[k - 1] = s[k]
      BY <1>1, <3>1
    <3> QED
      BY <1>1, <3>1, <3>2 DEF Elems
  <2>2. ASSUME NEW k \in 1..Len(Tail(s)) PROVE Tail(s)[k] \in Elems(s)
    <3>1. k + 1 \in 1..Len(s) /\ Tail(s)[k] = s[k + 1]
      BY <1>1
    <3> QED
      BY <3>1 DEF Elems
  <2> QED
    BY <1>2, <2>1, <2>2 DEF Elems
<1>4. ASSUME OneEach(s) PROVE OneEach(Tail(s)) /\ Head(s) \notin Elems(Tail(s))
  <2>1. \A k \in 1..Len(Tail(s)) : k + 1 \in 1..Len(s) /\ Tail(s)[k] = s[k + 1] /\ k + 1 # 1
    BY <1>1
  <2>2. 1 \in 1..Len(s)
    BY <1>1
  <2>3. OneEach(Tail(s))
    <3> SUFFICES ASSUME NEW k \in 1..Len(Tail(s)), NEW l \in 1..Len(Tail(s)), Tail(s)[k] = Tail(s)[l] PROVE k = l
      BY DEF OneEach
    <3>1. k + 1 = l + 1
      BY <1>4, <2>1 DEF OneEach
    <3> QED
      BY <3>1
  <2>4. Head(s) \notin Elems(Tail(s))
    BY <1>1, <1>4, <2>1, <2>2 DEF Elems, OneEach
  <2> QED
    BY <2>3, <2>4
<1> QED
  BY <1>1, <1>2, <1>3, <1>4

\* The invariant of the collector: where the files are that the walk is done with.
Walked == {CO!Order[k] : k \in 1..at}
Carried(pcs) == {coWorker[w].file : w \in {v \in Collectors : coWorker[v].pc \in pcs}}
CollectTypes ==
  /\ collection \in Collections /\ walk \in {"next", "send", "failed", "left"} /\ at \in 0..Len(CO!Order)
  /\ fileC \in Seq(CO!Files) /\ Len(fileC) <= Cardinality(Collectors)
  /\ errC \in {<<>>, <<"nil">>, <<"error">>}
  /\ coWorker \in [Collectors -> [pc : {"recv", "result", "close", "left"}, file : CO!Files \cup {CO!NoFile}]]
  /\ \A w \in Collectors : coWorker[w].pc \in {"result", "close"} => coWorker[w].file \in CO!Files
  /\ coAll \in Seq(CO!Files) /\ coHandles \subseteq CO!Files
  /\ status \in {"running", "ok", "error", "cancelled"}
\* Each file that was walked over is in one place, or was passed over; an error forgets the file it is of.
Split ==
  /\ Elems(fileC) \cup Carried({"result"}) \cup Elems(coAll) \subseteq Walked \ CO!Broken
  /\ status # "error" => Walked \ CO!Broken \subseteq Elems(fileC) \cup Carried({"result"}) \cup Elems(coAll)
  /\ OneEach(fileC) /\ OneEach(coAll)
  /\ Elems(fileC) \cap Carried({"result"}) = {} /\ Elems(fileC) \cap Elems(coAll) = {}
  /\ Carried({"result"}) \cap Elems(coAll) = {}
  /\ \A v, w \in Collectors :
       coWorker[v].pc = "result" /\ coWorker[w].pc = "result" /\ coWorker[v].file = coWorker[w].file => v = w
  /\ Elems(coAll) \cap CO!Failing = {} /\ Walked \cap CO!Unreadable = {}
\* In which order things end.
Ends ==
  /\ walk = "send" => at < Len(CO!Order) /\ CO!Order[at + 1] \notin CO!Unreadable \cup CO!Broken
  /\ fileOpen <=> walk # "left"
  /\ errC # <<>> => walk = "left"
  /\ errC = <<"nil">> => at = Len(CO!Order)
  /\ \A w \in Collectors : coWorker[w].pc = "left" => fileC = <<>> /\ walk = "left"
  /\ ~resultsOpen => fileC = <<>> /\ \A w \in Collectors : coWorker[w].pc = "left"
  /\ status = "ok" => walk = "left" /\ at = Len(CO!Order) /\ ~resultsOpen
\* What is open: the files passed over, and those on their way.
OnTheWay == {CO!Order[k] : k \in {l \in {at + 1} : walk = "send"}}
Open == coHandles \subseteq CO!Broken \cup Elems(fileC) \cup Carried({"result", "close"}) \cup OnTheWay
CollectInv == CollectTypes /\ Split /\ Ends /\ Open

LEMMA CollectConstants ==
  ASSUME collection \in Collections
  PROVE  /\ CO!Order \in Seq(CO!Files) /\ OneEach(CO!Order) /\ CO!Files = Elems(CO!Order) /\ Len(CO!Order) \in Nat
         /\ CO!Unreadable \subseteq CO!Files /\ CO!Broken \subseteq CO!Files /\ CO!Failing \subseteq CO!Files
         /\ CO!Broken \cap (CO!Unreadable \cup CO!Failing) = {}
<1>1. /\ collection.order \in Seq({collection.order[k] : k \in DOMAIN collection.order})
      /\ \A k, l \in DOMAIN collection.order : collection.order[k] = collection.order[l] => k = l
      /\ collection.unreadable \cup collection.broken \cup collection.failing
           \subseteq {collection.order[k] : k \in DOMAIN collection.order}
      /\ collection.broken \cap (collection.unreadable \cup collection.failing) = {}
  BY FilesAssumption
<1>2. DOMAIN collection.order = 1..Len(collection.order) /\ Len(collection.order) \in Nat
  BY <1>1
<1> QED
  BY <1>1, <1>2 DEF CO!Order, CO!Files, CO!Unreadable, CO!Broken, CO!Failing, Elems, OneEach

LEMMA Room == CO!Cardinality(Collectors) = Cardinality(Collectors) /\ Cardinality(Collectors) \in Nat
              /\ (Collectors = {} => Cardinality(Collectors) = 0)
<1>1. IsFiniteSet(Collectors)
  BY FilesAssumption
<1>2. Cardinality(Collectors) \in Nat /\ (Collectors = {} => Cardinality(Collectors) = 0)
  BY <1>1, FS_CardinalityType, FS_EmptySet
<1>3. CO!Cardinality(Collectors) = Cardinality(Collectors)
  BY DEF CO!Cardinality, Cardinality
<1> QED
  BY <1>2, <1>3

LEMMA CollectStart == CO!Init => CollectInv
<1> SUFFICES ASSUME CO!Init PROVE CollectInv
  OBVIOUS
<1>1. collection \in Collections /\ Len(CO!Order) \in Nat
  BY CollectConstants DEF CO!Init
<1>2. /\ walk = "next" /\ at = 0 /\ fileC = <<>> /\ fileOpen = TRUE /\ errC = <<>> /\ resultsOpen = TRUE
      /\ coAll = <<>> /\ status = "running" /\ coHandles = {}
      /\ coWorker = [w \in Collectors |-> CO!Waiting]
  BY DEF CO!Init
<1>3. \A w \in Collectors : coWorker[w].pc = "recv"
  BY <1>2 DEF CO!Waiting
<1>4. Elems(fileC) = {} /\ Elems(coAll) = {} /\ OneEach(fileC) /\ OneEach(coAll) /\ Walked = {} /\ Len(fileC) = 0
  BY <1>2 DEF Elems, OneEach, Walked
<1>5. Carried({"result"}) = {} /\ Carried({"result", "close"}) = {}
  BY <1>3 DEF Carried
<1>6. CollectTypes
  BY <1>1, <1>2, <1>4, Room, EmptySeq DEF CollectTypes, CO!Waiting
<1>7. Split
  BY <1>3, <1>4, <1>5 DEF Split
<1>8. Ends
  BY <1>2, <1>3 DEF Ends
<1>9. Open
  BY <1>2 DEF Open
<1> QED
  BY <1>6, <1>7, <1>8, <1>9 DEF CollectInv

LEMMA SameDirectory ==
  ASSUME UNCHANGED collection
  PROVE  /\ CO!Order' = CO!Order /\ CO!Files' = CO!Files /\ CO!Broken' = CO!Broken
         /\ CO!Unreadable' = CO!Unreadable /\ CO!Failing' = CO!Failing
BY DEF CO!Order, CO!Files, CO!Broken, CO!Unreadable, CO!Failing

\* The file the walk comes to is new.
LEMMA NextFile ==
  ASSUME CollectInv, at < Len(CO!Order)
  PROVE  /\ at + 1 \in 1..Len(CO!Order) /\ at + 1 \in 0..Len(CO!Order)
         /\ CO!Order[at + 1] \in CO!Files /\ CO!Order[at + 1] \notin Walked
         /\ {CO!Order[k] : k \in 1..(at + 1)} = Walked \cup {CO!Order[at + 1]}
<1>1. at \in 0..Len(CO!Order) /\ Len(CO!Order) \in Nat /\ OneEach(CO!Order) /\ CO!Files = Elems(CO!Order)
  BY CollectConstants DEF CollectInv, CollectTypes
<1>2. at + 1 \in 1..Len(CO!Order) /\ at + 1 \in 0..Len(CO!Order) /\ 1..(at + 1) = (1..at) \cup {at + 1}
      /\ \A k \in 1..at : k \in 1..Len(CO!Order) /\ k # at + 1
  BY <1>1
<1> QED
  BY <1>1, <1>2 DEF Walked, Elems, OneEach

LEMMA NotOkYet == ASSUME CollectInv, walk # "left" PROVE status # "ok" /\ \A w \in Collectors : coWorker[w].pc # "left"
BY DEF CollectInv, Ends

LEMMA WalkFileKept == ASSUME CollectInv, CO!WalkFile, UNCHANGED collection PROVE CollectInv'
<1> DEFINE f == CO!Order[at + 1]
<1>0. /\ walk = "next" /\ at < Len(CO!Order)
      /\ UNCHANGED <<collection, fileC, fileOpen, errC, coWorker, resultsOpen, coAll, status>>
      /\ f \in CO!Files /\ f \notin Walked /\ at + 1 \in 0..Len(CO!Order)
  BY NextFile DEF CO!WalkFile
<1>1. Carried({"result"})' = Carried({"result"}) /\ Carried({"result", "close"})' = Carried({"result", "close"})
  BY <1>0 DEF Carried
<1>2. \A w \in Collectors : coWorker[w].pc # "left"
  BY <1>0, NotOkYet
<1>3. CollectInv
  OBVIOUS
<1>4. status # "ok" /\ errC = <<>>
  BY <1>0, NotOkYet DEF CollectInv, Ends
<1>5. CASE f \in CO!Unreadable /\ walk' = "failed" /\ UNCHANGED <<at, coHandles>>
  <2>1. Walked' = Walked
    BY <1>0, <1>5, SameDirectory DEF Walked
  <2>2. CollectTypes'
    BY <1>0, <1>5, SameDirectory DEF CollectInv, CollectTypes
  <2>3. Split'
    BY <1>0, <1>1, <2>1, SameDirectory DEF CollectInv, Split
  <2>4. Ends'
    BY <1>0, <1>2, <1>4, <1>5 DEF CollectInv, Ends
  <2>5. Open'
    BY <1>0, <1>1, <1>5, SameDirectory DEF CollectInv, Open, OnTheWay
  <2> QED
    BY <2>2, <2>3, <2>4, <2>5 DEF CollectInv
<1>6. CASE f \in CO!Broken /\ at' = at + 1 /\ coHandles' = coHandles \union {f} /\ UNCHANGED walk
  <2>1. Walked' = Walked \cup {f}
    BY <1>0, <1>6, NextFile, SameDirectory DEF Walked
  <2>2. CollectTypes'
    BY <1>0, <1>6, SameDirectory DEF CollectInv, CollectTypes
  <2>3. Split'
    <3>1. f \notin CO!Unreadable
      BY <1>6, CollectConstants DEF CollectInv, CollectTypes
    <3>2. Walked' \ CO!Broken = Walked \ CO!Broken /\ Walked' \cap CO!Unreadable = Walked \cap CO!Unreadable
      BY <1>6, <2>1, <3>1
    <3> QED
      BY <1>0, <1>1, <3>2, SameDirectory DEF CollectInv, Split
  <2>4. Ends'
    BY <1>0, <1>2, <1>4, <1>6, NextFile DEF CollectInv, Ends
  <2>5. Open'
    BY <1>0, <1>1, <1>6, SameDirectory DEF CollectInv, Open, OnTheWay
  <2> QED
    BY <2>2, <2>3, <2>4, <2>5 DEF CollectInv
<1>7. CASE f \notin CO!Unreadable \union CO!Broken /\ walk' = "send" /\ coHandles' = coHandles \union {f} /\ UNCHANGED at
  <2>1. Walked' = Walked
    BY <1>0, <1>7, SameDirectory DEF Walked
  <2>2. CollectTypes'
    BY <1>0, <1>7, SameDirectory DEF CollectInv, CollectTypes
  <2>3. Split'
    BY <1>0, <1>1, <2>1, SameDirectory DEF CollectInv, Split
  <2>4. Ends'
    BY <1>0, <1>2, <1>4, <1>7, SameDirectory DEF CollectInv, Ends
  <2>5. Open'
    <3>1. f \in OnTheWay' /\ OnTheWay = {}
      BY <1>0, <1>7, SameDirectory DEF OnTheWay
    <3> QED
      BY <1>0, <1>1, <1>7, <3>1, SameDirectory DEF CollectInv, Open
  <2> QED
    BY <2>2, <2>3, <2>4, <2>5 DEF CollectInv
<1> QED
  BY <1>5, <1>6, <1>7 DEF CO!WalkFile

LEMMA WalkSendKept == ASSUME CollectInv, CO!WalkSend, UNCHANGED collection PROVE CollectInv'
<1> DEFINE f == CO!Order[at + 1]
<1>0. /\ walk = "send" /\ at < Len(CO!Order) /\ f \notin CO!Unreadable \cup CO!Broken
      /\ Len(fileC) < Cardinality(Collectors)
      /\ fileC' = Append(fileC, f) /\ at' = at + 1 /\ walk' = "next"
      /\ UNCHANGED <<collection, fileOpen, errC, coWorker, resultsOpen, coAll, status, coHandles>>
  BY Room DEF CO!WalkSend, CollectInv, Ends
<1>1. f \in CO!Files /\ f \notin Walked /\ at + 1 \in 0..Len(CO!Order) /\ Walked' = Walked \cup {f}
  BY <1>0, NextFile, SameDirectory DEF Walked
<1>2. fileC \in Seq(CO!Files) /\ Len(fileC) \in Nat
  BY DEF CollectInv, CollectTypes
<1>3. /\ fileC' \in Seq(CO!Files) /\ Len(fileC') = Len(fileC) + 1 /\ Elems(fileC') = Elems(fileC) \cup {f}
      /\ OneEach(fileC) /\ f \notin Elems(fileC) => OneEach(fileC')
  BY <1>0, <1>1, <1>2, AppendOne
<1>4. Elems(fileC)' = Elems(fileC') /\ (OneEach(fileC)' <=> OneEach(fileC'))
  BY DEF Elems, OneEach
<1>5. Carried({"result"})' = Carried({"result"}) /\ Carried({"result", "close"})' = Carried({"result", "close"})
  BY <1>0 DEF Carried
<1>6. status # "ok" /\ errC = <<>> /\ \A w \in Collectors : coWorker[w].pc # "left"
  BY <1>0, NotOkYet DEF CollectInv, Ends
<1>7. resultsOpen
  <2> SUFFICES ASSUME ~resultsOpen PROVE FALSE
    OBVIOUS
  <2>1. Collectors = {}
    BY <1>6 DEF CollectInv, Ends
  <2> QED
    BY <1>0, <1>2, <2>1, Room
<1>8. CollectTypes'
  BY <1>0, <1>1, <1>2, <1>3, Room, SameDirectory DEF CollectInv, CollectTypes
<1>9. Split'
  <2>1. f \notin Elems(fileC) /\ f \notin Carried({"result"}) /\ f \notin Elems(coAll)
    BY <1>1 DEF CollectInv, Split
  <2>2. Elems(coAll)' = Elems(coAll) /\ (OneEach(coAll)' <=> OneEach(coAll))
    BY <1>0
  <2> QED
    BY <1>0, <1>1, <1>3, <1>4, <1>5, <2>1, <2>2, SameDirectory DEF CollectInv, Split
<1>10. Ends'
  BY <1>0, <1>6, <1>7 DEF CollectInv, Ends
<1>11. Open'
  <2>1. OnTheWay = {f}
    BY <1>0 DEF OnTheWay
  <2> QED
    BY <1>0, <1>3, <1>4, <1>5, <2>1, SameDirectory DEF CollectInv, Open
<1> QED
  BY <1>8, <1>9, <1>10, <1>11 DEF CollectInv

\* Nothing is carried elsewhere.
LEMMA CollectTells ==
  ASSUME CollectInv, UNCHANGED <<collection, at, fileC, coWorker, coAll, coHandles>>,
         walk # "send", walk' # "send", walk' \in {"next", "send", "failed", "left"},
         errC' \in {<<>>, <<"nil">>, <<"error">>}, status' \in {"running", "ok", "error", "cancelled"},
         status = "error" => status' = "error", Ends'
  PROVE  CollectInv'
<1>1. CollectTypes'
  BY SameDirectory DEF CollectInv, CollectTypes
<1>2. Split'
  <2>1. /\ Walked' = Walked /\ Carried({"result"})' = Carried({"result"})
        /\ Elems(fileC)' = Elems(fileC) /\ Elems(coAll)' = Elems(coAll)
        /\ (OneEach(fileC)' <=> OneEach(fileC)) /\ (OneEach(coAll)' <=> OneEach(coAll))
    BY SameDirectory DEF Walked, Carried, Elems, OneEach
  <2>2. status' # "error" => status # "error"
    OBVIOUS
  <2> QED
    BY <2>1, <2>2, SameDirectory DEF CollectInv, Split
<1>3. Open'
  BY SameDirectory DEF CollectInv, Open, OnTheWay, Carried, Elems
<1> QED
  BY <1>1, <1>2, <1>3 DEF CollectInv

LEMMA WalkEndKept == ASSUME CollectInv, CO!WalkEnd, UNCHANGED collection PROVE CollectInv'
<1>1. /\ walk \in {"failed", "next"} /\ walk' = "left" /\ fileOpen' = FALSE
      /\ errC' \in {<<"nil">>, <<"error">>} /\ (errC' = <<"nil">> => at = Len(CO!Order))
      /\ UNCHANGED <<collection, at, fileC, coWorker, resultsOpen, coAll, status, coHandles>>
  BY DEF CO!WalkEnd
<1>2. status # "ok" /\ \A w \in Collectors : coWorker[w].pc # "left"
  BY <1>1, NotOkYet
<1>3. Ends'
  BY <1>1, <1>2, SameDirectory DEF CollectInv, Ends
<1> QED
  BY <1>1, <1>3, CollectTells DEF CollectInv, CollectTypes

LEMMA CloseResultsKept == ASSUME CollectInv, CO!CloseResults, UNCHANGED collection PROVE CollectInv'
<1>1. /\ \A w \in Collectors : coWorker[w].pc = "left"
      /\ resultsOpen' = FALSE
      /\ UNCHANGED <<collection, walk, at, fileC, fileOpen, errC, coWorker, coAll, status, coHandles>>
  BY DEF CO!CloseResults
<1>2. fileC = <<>>
  <2>1. CASE Collectors = {}
    <3>1. Len(fileC) <= 0 /\ Len(fileC) \in Nat /\ fileC \in Seq(CO!Files)
      BY <2>1, Room DEF CollectInv, CollectTypes
    <3> QED
      BY <3>1, EmptySeq
  <2>2. CASE Collectors # {}
    BY <1>1, <2>2 DEF CollectInv, Ends
  <2> QED
    BY <2>1, <2>2
<1>3. Ends'
  BY <1>1, <1>2, SameDirectory DEF CollectInv, Ends
<1>4. CollectTypes'
  BY <1>1, SameDirectory DEF CollectInv, CollectTypes
<1>5. /\ Walked' = Walked /\ Carried({"result"})' = Carried({"result"}) /\ OnTheWay' = OnTheWay
      /\ Carried({"result", "close"})' = Carried({"result", "close"})
      /\ CO!Failing' = CO!Failing /\ CO!Broken' = CO!Broken /\ CO!Unreadable' = CO!Unreadable
  BY <1>1, SameDirectory DEF Walked, Carried, OnTheWay
<1>6. Split /\ Open
  BY DEF CollectInv
<1>7. Split'
  BY <1>1, <1>5, <1>6 DEF Split, Elems, OneEach
<1>8. Open'
  BY <1>1, <1>5, <1>6 DEF Open, Elems
<1> QED
  BY <1>3, <1>4, <1>7, <1>8 DEF CollectInv

LEMMA CollectReturnsKept ==
  ASSUME CollectInv, CO!Finish \/ CO!SeeCancel \/ CO!Cancel, UNCHANGED collection PROVE CollectInv'
<1>1. UNCHANGED <<collection, walk, at, fileC, fileOpen, coWorker, resultsOpen, coAll, coHandles>>
  BY DEF CO!Finish, CO!SeeCancel, CO!Cancel
<1>2. /\ errC' \in {<<>>, <<"nil">>, <<"error">>} /\ status' \in {"running", "ok", "error", "cancelled"}
      /\ errC' = errC \/ errC' = <<>>
      /\ status' = "ok" => status = "ok" \/ (errC = <<"nil">> /\ ~resultsOpen)
      /\ status = "error" => status' = "error"
  <2>1. errC \in {<<>>, <<"nil">>, <<"error">>} /\ status \in {"running", "ok", "error", "cancelled"}
    BY DEF CollectInv, CollectTypes
  <2>2. CASE CO!Finish
    BY <2>1, <2>2 DEF CO!Finish
  <2>3. CASE CO!SeeCancel
    BY <2>1, <2>3 DEF CO!SeeCancel
  <2>4. CASE CO!Cancel
    BY <2>1, <2>4 DEF CO!Cancel
  <2> QED
    BY <2>2, <2>3, <2>4
<1>3. Ends'
  BY <1>1, <1>2, SameDirectory, SMTT(30) DEF CollectInv, Ends
<1>4. CollectTypes'
  BY <1>1, <1>2, SameDirectory DEF CollectInv, CollectTypes
<1>5. Split'
  <2>1. /\ Walked' = Walked /\ Carried({"result"})' = Carried({"result"})
        /\ Elems(fileC)' = Elems(fileC) /\ Elems(coAll)' = Elems(coAll)
        /\ (OneEach(fileC)' <=> OneEach(fileC)) /\ (OneEach(coAll)' <=> OneEach(coAll))
    BY <1>1, SameDirectory DEF Walked, Carried, Elems, OneEach
  <2>2. status' # "error" => status # "error"
    BY <1>2
  <2> QED
    BY <1>1, <2>1, <2>2, SameDirectory DEF CollectInv, Split
<1>6. Open'
  BY <1>1, SameDirectory DEF CollectInv, Open, OnTheWay, Carried, Elems
<1> QED
  BY <1>3, <1>4, <1>5, <1>6 DEF CollectInv

\* What the workers hold, when one of them moves.
LEMMA CarriedMoves ==
  ASSUME CollectInv, NEW w \in Collectors,
         NEW new \in [pc : {"recv", "result", "close", "left"}, file : CO!Files \cup {CO!NoFile}],
         coWorker' = [coWorker EXCEPT ![w] = new]
  PROVE  /\ coWorker'[w] = new /\ \A v \in Collectors : v # w => coWorker'[v] = coWorker[v]
         /\ coWorker' \in [Collectors -> [pc : {"recv", "result", "close", "left"}, file : CO!Files \cup {CO!NoFile}]]
BY DEF CollectInv, CollectTypes

LEMMA WorkerTakeKept == ASSUME CollectInv, NEW w \in Collectors, CO!WorkerTake(w), UNCHANGED collection PROVE CollectInv'
<1> DEFINE f == Head(fileC)
           new == [pc |-> "result", file |-> f]
<1>0. /\ coWorker[w].pc = "recv" /\ fileC # <<>> /\ fileC' = Tail(fileC)
      /\ coWorker' = [coWorker EXCEPT ![w] = new]
      /\ UNCHANGED <<collection, walk, at, fileOpen, errC, resultsOpen, coAll, status, coHandles>>
  BY DEF CO!WorkerTake
<1>1. fileC \in Seq(CO!Files) /\ Len(fileC) <= Cardinality(Collectors) /\ Cardinality(Collectors) \in Nat
  BY Room DEF CollectInv, CollectTypes
<1>2. /\ fileC' \in Seq(CO!Files) /\ Len(fileC') = Len(fileC) - 1 /\ Len(fileC) \in Nat /\ f \in CO!Files
      /\ f \in Elems(fileC) /\ Elems(fileC) = Elems(fileC') \cup {f}
      /\ OneEach(fileC) => OneEach(fileC') /\ f \notin Elems(fileC')
  BY <1>0, <1>1, TakeOne, HeadTailProperties
<1>3. Elems(fileC)' = Elems(fileC') /\ (OneEach(fileC)' <=> OneEach(fileC'))
  BY DEF Elems, OneEach
<1>4. /\ coWorker'[w] = new /\ \A v \in Collectors : v # w => coWorker'[v] = coWorker[v]
      /\ coWorker' \in [Collectors -> [pc : {"recv", "result", "close", "left"}, file : CO!Files \cup {CO!NoFile}]]
  <2>1. new \in [pc : {"recv", "result", "close", "left"}, file : CO!Files \cup {CO!NoFile}]
    BY <1>2
  <2> HIDE DEF new
  <2> QED
    BY <1>0, <2>1, CarriedMoves
<1>5. new.pc = "result" /\ new.file = f
  OBVIOUS
<1> HIDE DEF new, f
<1>6. Carried({"result"})' = Carried({"result"}) \cup {f}
      /\ Carried({"result", "close"})' = Carried({"result", "close"}) \cup {f}
  BY <1>0, <1>4, <1>5 DEF Carried
<1>7. f \notin Carried({"result"}) /\ f \notin Elems(coAll) /\ f \notin Elems(fileC')
  BY <1>2 DEF CollectInv, Split
<1>8. (\A v \in Collectors : coWorker[v].pc # "left") /\ resultsOpen /\ status # "ok"
  BY <1>0 DEF CollectInv, Ends
<1>9. CollectTypes'
  BY <1>0, <1>1, <1>2, <1>4, <1>5, Room, SameDirectory DEF CollectInv, CollectTypes
<1>10. Split'
  <2>1. Walked' = Walked /\ Elems(coAll)' = Elems(coAll) /\ (OneEach(coAll)' <=> OneEach(coAll))
    BY <1>0, SameDirectory DEF Walked
  <2>2. \A u, v \in Collectors :
         coWorker'[u].pc = "result" /\ coWorker'[v].pc = "result" /\ coWorker'[u].file = coWorker'[v].file => u = v
    BY <1>4, <1>5, <1>7 DEF CollectInv, Split, Carried
  <2> QED
    BY <1>0, <1>2, <1>3, <1>6, <1>7, <2>1, <2>2, SameDirectory DEF CollectInv, Split
<1>11. Ends'
  BY <1>0, <1>4, <1>5, <1>8, SameDirectory DEF CollectInv, Ends
<1>12. Open'
  <2>1. OnTheWay' = OnTheWay
    BY <1>0, SameDirectory DEF OnTheWay
  <2> QED
    BY <1>0, <1>2, <1>3, <1>6, <2>1, SameDirectory DEF CollectInv, Open
<1> QED
  BY <1>9, <1>10, <1>11, <1>12 DEF CollectInv

LEMMA WorkerCloseKept == ASSUME CollectInv, NEW w \in Collectors, CO!WorkerClose(w), UNCHANGED collection PROVE CollectInv'
<1>0. /\ coWorker[w].pc = "close" /\ coHandles' = coHandles \ {coWorker[w].file}
      /\ coWorker' = [coWorker EXCEPT ![w] = CO!Waiting]
      /\ UNCHANGED <<collection, walk, at, fileC, fileOpen, errC, resultsOpen, coAll, status>>
  BY DEF CO!WorkerClose
<1>1. CO!Waiting \in [pc : {"recv", "result", "close", "left"}, file : CO!Files \cup {CO!NoFile}] /\ CO!Waiting.pc = "recv"
  BY DEF CO!Waiting
<1>2. /\ coWorker'[w].pc = "recv" /\ \A v \in Collectors : v # w => coWorker'[v] = coWorker[v]
      /\ coWorker' \in [Collectors -> [pc : {"recv", "result", "close", "left"}, file : CO!Files \cup {CO!NoFile}]]
  BY <1>0, <1>1, CarriedMoves
<1>3. /\ Carried({"result"})' = Carried({"result"})
      /\ Carried({"result", "close"}) \subseteq Carried({"result", "close"})' \cup {coWorker[w].file}
  BY <1>0, <1>2 DEF Carried
<1>4. Elems(fileC)' = Elems(fileC) /\ Elems(coAll)' = Elems(coAll) /\ Walked' = Walked /\ OnTheWay' = OnTheWay
      /\ (OneEach(fileC)' <=> OneEach(fileC)) /\ (OneEach(coAll)' <=> OneEach(coAll))
  BY <1>0, SameDirectory DEF Walked, OnTheWay
<1>5. CollectTypes'
  BY <1>0, <1>2, SameDirectory DEF CollectInv, CollectTypes
<1>6. Split'
  <2>1. \A u, v \in Collectors :
         coWorker'[u].pc = "result" /\ coWorker'[v].pc = "result" /\ coWorker'[u].file = coWorker'[v].file => u = v
    BY <1>2 DEF CollectInv, Split
  <2> QED
    BY <1>0, <1>3, <1>4, <2>1, SameDirectory DEF CollectInv, Split
<1>7. Ends'
  <2>1. resultsOpen
    BY <1>0 DEF CollectInv, Ends
  <2> QED
    BY <1>0, <1>2, <2>1, SameDirectory DEF CollectInv, Ends
<1>8. Open'
  BY <1>0, <1>3, <1>4, SameDirectory DEF CollectInv, Open
<1> QED
  BY <1>5, <1>6, <1>7, <1>8 DEF CollectInv

LEMMA WorkerLeaveKept == ASSUME CollectInv, NEW w \in Collectors, CO!WorkerLeave(w), UNCHANGED collection PROVE CollectInv'
<1>0. /\ coWorker[w].pc = "recv" /\ fileC = <<>> /\ walk = "left"
      /\ coWorker' = [coWorker EXCEPT ![w] = CO!Left]
      /\ UNCHANGED <<collection, walk, at, fileC, fileOpen, errC, resultsOpen, coAll, status, coHandles>>
  BY DEF CO!WorkerLeave, CollectInv, Ends
<1>1. CO!Left \in [pc : {"recv", "result", "close", "left"}, file : CO!Files \cup {CO!NoFile}] /\ CO!Left.pc = "left"
  BY DEF CO!Left
<1>2. /\ coWorker'[w].pc = "left" /\ \A v \in Collectors : v # w => coWorker'[v] = coWorker[v]
      /\ coWorker' \in [Collectors -> [pc : {"recv", "result", "close", "left"}, file : CO!Files \cup {CO!NoFile}]]
  BY <1>0, <1>1, CarriedMoves
<1>3. /\ Carried({"result"})' = Carried({"result"}) /\ Carried({"result", "close"})' = Carried({"result", "close"})
  BY <1>0, <1>2 DEF Carried
<1>4. Elems(fileC)' = Elems(fileC) /\ Elems(coAll)' = Elems(coAll) /\ Walked' = Walked /\ OnTheWay' = OnTheWay
      /\ (OneEach(fileC)' <=> OneEach(fileC)) /\ (OneEach(coAll)' <=> OneEach(coAll))
  BY <1>0, SameDirectory DEF Walked, OnTheWay
<1>5. CollectTypes'
  BY <1>0, <1>2, SameDirectory DEF CollectInv, CollectTypes
<1>6. Split'
  <2>1. \A u, v \in Collectors :
         coWorker'[u].pc = "result" /\ coWorker'[v].pc = "result" /\ coWorker'[u].file = coWorker'[v].file => u = v
    BY <1>2 DEF CollectInv, Split
  <2> QED
    BY <1>0, <1>3, <1>4, <2>1, SameDirectory DEF CollectInv, Split
<1>7. Ends'
  BY <1>0, <1>2, SameDirectory DEF CollectInv, Ends
<1>8. Open'
  BY <1>0, <1>3, <1>4, SameDirectory DEF CollectInv, Open
<1> QED
  BY <1>5, <1>6, <1>7, <1>8 DEF CollectInv

LEMMA GatherKept == ASSUME CollectInv, NEW w \in Collectors, CO!Gather(w), UNCHANGED collection PROVE CollectInv'
<1> DEFINE f == coWorker[w].file
           new == [coWorker[w] EXCEPT !.pc = "close"]
<1>0. /\ status = "running" /\ coWorker[w].pc = "result" /\ coWorker' = [coWorker EXCEPT ![w] = new]
      /\ UNCHANGED <<collection, walk, at, fileC, fileOpen, errC, resultsOpen, coHandles>>
  BY DEF CO!Gather
<1>1. f \in CO!Files
  BY <1>0 DEF CollectInv, CollectTypes
<1>2. /\ new \in [pc : {"recv", "result", "close", "left"}, file : CO!Files \cup {CO!NoFile}]
      /\ new.pc = "close" /\ new.file = f
  BY DEF CollectInv, CollectTypes
<1> HIDE DEF new
<1>3. /\ coWorker'[w] = new /\ \A v \in Collectors : v # w => coWorker'[v] = coWorker[v]
      /\ coWorker' \in [Collectors -> [pc : {"recv", "result", "close", "left"}, file : CO!Files \cup {CO!NoFile}]]
  BY <1>0, <1>2, CarriedMoves
<1>4. /\ Carried({"result"}) = Carried({"result"})' \cup {f} /\ f \notin Carried({"result"})'
      /\ Carried({"result", "close"})' = Carried({"result", "close"})
  <2>1. \A v \in Collectors : v # w /\ coWorker[v].pc = "result" => coWorker[v].file # f
    BY <1>0 DEF CollectInv, Split
  <2> QED
    BY <1>0, <1>2, <1>3, <2>1 DEF Carried
<1>5. Elems(fileC)' = Elems(fileC) /\ Walked' = Walked /\ OnTheWay' = OnTheWay /\ (OneEach(fileC)' <=> OneEach(fileC))
  BY <1>0, SameDirectory DEF Walked, OnTheWay
<1>6. coAll \in Seq(CO!Files) /\ f \notin Elems(coAll) /\ f \notin Elems(fileC) /\ f \in Walked \ CO!Broken
  BY <1>4 DEF CollectInv, CollectTypes, Split
<1>7. /\ coAll' \in Seq(CO!Files) /\ OneEach(coAll)' /\ status' \in {"running", "error"}
      /\ \/ f \in CO!Failing /\ status' = "error" /\ Elems(coAll)' = Elems(coAll)
         \/ f \notin CO!Failing /\ status' = "running" /\ Elems(coAll)' = Elems(coAll) \cup {f}
  <2>1. CASE f \in CO!Failing
    <3>1. status' = "error" /\ coAll' = coAll
      BY <2>1 DEF CO!Gather
    <3> QED
      BY <1>6, <2>1, <3>1 DEF CollectInv, Split
  <2>2. CASE f \notin CO!Failing
    <3>1. status' = "running" /\ coAll' = Append(coAll, f)
      BY <1>0, <2>2 DEF CO!Gather
    <3>2. coAll' \in Seq(CO!Files) /\ Elems(coAll') = Elems(coAll) \cup {f} /\ OneEach(coAll')
      BY <1>1, <1>6, <3>1, AppendOne DEF CollectInv, Split
    <3>3. Elems(coAll)' = Elems(coAll') /\ (OneEach(coAll)' <=> OneEach(coAll'))
      BY DEF Elems, OneEach
    <3> QED
      BY <2>2, <3>1, <3>2, <3>3
  <2> QED
    BY <2>1, <2>2
<1> HIDE DEF f
<1>8. CollectTypes'
  <2>1. \A v \in Collectors : coWorker'[v].pc \in {"result", "close"} => coWorker'[v].file \in CO!Files
    BY <1>1, <1>2, <1>3 DEF CollectInv, CollectTypes
  <2> QED
    BY <1>0, <1>3, <1>7, <2>1, SameDirectory DEF CollectInv, CollectTypes
<1>9. Split'
  <2>1. \A u, v \in Collectors :
         coWorker'[u].pc = "result" /\ coWorker'[v].pc = "result" /\ coWorker'[u].file = coWorker'[v].file => u = v
    BY <1>2, <1>3 DEF CollectInv, Split
  <2> QED
    BY <1>0, <1>4, <1>5, <1>6, <1>7, <2>1, SameDirectory DEF CollectInv, Split
<1>10. Ends'
  <2>1. resultsOpen
    BY <1>0 DEF CollectInv, Ends
  <2> QED
    BY <1>0, <1>2, <1>3, <1>7, <2>1, SameDirectory DEF CollectInv, Ends
<1>11. Open'
  BY <1>0, <1>4, <1>5, SameDirectory DEF CollectInv, Open
<1> QED
  BY <1>8, <1>9, <1>10, <1>11 DEF CollectInv

LEMMA CollectKept == CollectInv /\ [CO!Next]_(CO!vars) => CollectInv'
<1> SUFFICES ASSUME CollectInv, [CO!Next]_(CO!vars) PROVE CollectInv'
  OBVIOUS
<1>1. CASE CO!Next
  BY <1>1, WalkFileKept, WalkSendKept, WalkEndKept, WorkerTakeKept, WorkerCloseKept, WorkerLeaveKept,
     CloseResultsKept, GatherKept, CollectReturnsKept DEF CO!Next, CO!Walker, CO!Worker, CO!Caller
<1>2. CASE UNCHANGED CO!vars
  <2>0. UNCHANGED <<collection, walk, at, fileC, fileOpen, errC, coWorker, resultsOpen, coAll, status, coHandles>>
    BY <1>2 DEF CO!vars
  <2>1. /\ Walked' = Walked /\ Carried({"result"})' = Carried({"result"}) /\ OnTheWay' = OnTheWay
        /\ Carried({"result", "close"})' = Carried({"result", "close"})
        /\ Elems(fileC)' = Elems(fileC) /\ Elems(coAll)' = Elems(coAll)
        /\ (OneEach(fileC)' <=> OneEach(fileC)) /\ (OneEach(coAll)' <=> OneEach(coAll))
    BY <2>0, SameDirectory DEF Walked, Carried, OnTheWay, Elems, OneEach
  <2>2. CollectTypes'
    BY <2>0, SameDirectory DEF CollectInv, CollectTypes
  <2>3. Split'
    BY <2>0, <2>1, SameDirectory DEF CollectInv, Split
  <2>4. Ends'
    BY <2>0, SameDirectory DEF CollectInv, Ends
  <2>5. Open'
    BY <2>0, <2>1, SameDirectory DEF CollectInv, Open
  <2> QED
    BY <2>2, <2>3, <2>4, <2>5 DEF CollectInv
<1> QED
  BY <1>1, <1>2

LEMMA CollectHolds == CollectInv => CO!TypeOK /\ CO!OkMeansAll
<1> SUFFICES ASSUME CollectInv PROVE CO!TypeOK /\ CO!OkMeansAll
  OBVIOUS
<1>0. collection \in Collections
  BY DEF CollectInv, CollectTypes
<1>1. CO!TypeOK
  <2>1. errC \in Seq({"nil", "error"})
    <3>1. <<"nil">> \in Seq({"nil", "error"}) /\ <<"error">> \in Seq({"nil", "error"}) /\ <<>> \in Seq({"nil", "error"})
      OBVIOUS
    <3> QED
      BY <3>1 DEF CollectInv, CollectTypes
  <2> QED
    BY <2>1, Room DEF CO!TypeOK, CollectInv, CollectTypes
<1>2. ASSUME status = "ok" PROVE CO!OkMeansAll
  <2>1. /\ walk = "left" /\ at = Len(CO!Order) /\ fileC = <<>>
        /\ \A w \in Collectors : coWorker[w].pc = "left"
    BY <1>2 DEF CollectInv, Ends
  <2>2. Walked = CO!Files /\ Elems(fileC) = {}
    BY <2>1 DEF Walked, CO!Files, Elems
  <2>3. Carried({"result"}) = {} /\ Carried({"result", "close"}) = {} /\ OnTheWay = {}
    BY <2>1 DEF Carried, OnTheWay
  <2>4. /\ Elems(coAll) = CO!Files \ CO!Broken /\ OneEach(coAll)
        /\ Elems(coAll) \cap CO!Failing = {} /\ CO!Files \cap CO!Unreadable = {}
    BY <1>2, <2>2, <2>3 DEF CollectInv, Split
  <2>5. CO!Unreadable \cup CO!Failing = {}
    BY <1>0, <2>4, CollectConstants
  <2>6. coHandles \subseteq CO!Broken
    BY <2>2, <2>3 DEF CollectInv, Open
  <2> QED
    BY <2>1, <2>4, <2>5, <2>6 DEF CO!OkMeansAll, Elems, OneEach
<1> QED
  BY <1>1, <1>2 DEF CO!OkMeansAll

-----------------------------------------------------------------------------
(* The types of chunk files, exports and archives.                         *)

(* The types of the chunk files. *)
ClientShape(q) == q = [pc |-> q.pc, file |-> q.file, id |-> q.id, at |-> q.at] /\ q.pc \in {"idle", "seek", "decode"}
ChunkTypes ==
  /\ dir \in [FileIds -> Seq(ChunkSet)] /\ sealed \in BOOLEAN
  /\ cfHolder \in [FileIds -> Clients \cup {CF!Nobody}]
  /\ DOMAIN client = Clients /\ \A c \in Clients : ClientShape(client[c])

LEMMA ChunkStart == CF!Init => ChunkTypes
<1> SUFFICES ASSUME CF!Init PROVE ChunkTypes
  OBVIOUS
<1>1. \A c \in Clients : client[c] = CF!Idle
  BY DEF CF!Init
<1>2. ClientShape(CF!Idle)
  BY DEF ClientShape, CF!Idle
<1>3. DOMAIN client = Clients /\ dir = [f \in FileIds |-> <<>>] /\ sealed = FALSE
      /\ cfHolder = [f \in FileIds |-> CF!Nobody]
  BY DEF CF!Init
<1>4. <<>> \in Seq(ChunkSet)
  OBVIOUS
<1> QED
  BY <1>1, <1>2, <1>3, <1>4 DEF ChunkTypes

\* A client moves.
LEMMA ClientMoves ==
  ASSUME ChunkTypes, NEW c \in Clients, NEW q, ClientShape(q), client' = [client EXCEPT ![c] = q],
         UNCHANGED <<dir, sealed>>, cfHolder' \in [FileIds -> Clients \cup {CF!Nobody}]
  PROVE  ChunkTypes'
<1>1. client'[c] = q /\ \A d \in Clients : d # c => client'[d] = client[d]
  BY DEF ChunkTypes
<1>2. \A d \in Clients : ClientShape(client'[d])
  BY <1>1 DEF ChunkTypes
<1>3. DOMAIN client' = Clients
  BY DEF ChunkTypes
<1> QED
  BY <1>2, <1>3 DEF ChunkTypes, ClientShape

LEMMA ChunkKept == ChunkTypes /\ [CF!Next]_(CF!vars) => ChunkTypes'
<1> SUFFICES ASSUME ChunkTypes, [CF!Next]_(CF!vars) PROVE ChunkTypes'
  OBVIOUS
<1>0. cfHolder \in [FileIds -> Clients \cup {CF!Nobody}]
  BY DEF ChunkTypes
<1>1. CASE CF!Record
  <2>1. PICK c \in ChunkSet : dir' = [dir EXCEPT ![c.file] = Append(@, c)]
    BY <1>1 DEF CF!Record
  <2>2. c.file \in FileIds /\ dir[c.file] \in Seq(ChunkSet)
    BY FilesAssumption DEF ChunkTypes
  <2>3. Append(dir[c.file], c) \in Seq(ChunkSet)
    BY <2>2
  <2>4. dir' \in [FileIds -> Seq(ChunkSet)]
    BY <2>1, <2>2, <2>3 DEF ChunkTypes
  <2> QED
    BY <1>1, <2>4 DEF CF!Record, ChunkTypes, ClientShape
<1>2. CASE CF!Seal
  BY <1>2 DEF CF!Seal, ChunkTypes, ClientShape
<1>3. ASSUME NEW c \in Clients, CF!PlayerNext(c) PROVE ChunkTypes'
  <2>1. PICK f \in FileIds : \E id \in CF!IndexOf(f) :
          client' = [client EXCEPT ![c] =
            [pc |-> "seek", file |-> f, id |-> id, at |-> CF!Offsets(f, id)[pointer[f][id] + 1]]]
    BY <1>3 DEF CF!PlayerNext
  <2>a. PICK id \in CF!IndexOf(f) :
          client' = [client EXCEPT ![c] =
            [pc |-> "seek", file |-> f, id |-> id, at |-> CF!Offsets(f, id)[pointer[f][id] + 1]]]
    BY <2>1
  <2> DEFINE q == [pc |-> "seek", file |-> f, id |-> id, at |-> CF!Offsets(f, id)[pointer[f][id] + 1]]
  <2>2. ClientShape(q)
    BY DEF ClientShape
  <2>3. client' = [client EXCEPT ![c] = q] /\ UNCHANGED <<dir, sealed, cfHolder>>
    BY <1>3, <2>a DEF CF!PlayerNext
  <2> HIDE DEF q
  <2> QED
    BY <1>0, <2>2, <2>3, ClientMoves
<1>4. ASSUME NEW c \in Clients, CF!ReadAny(c) PROVE ChunkTypes'
  <2>1. PICK f \in FileIds : \E o \in 1..Len(dir[f]) :
          client' = [client EXCEPT ![c] = [pc |-> "seek", file |-> f, id |-> <<"none", "none", 0>>, at |-> o]]
    BY <1>4 DEF CF!ReadAny
  <2>a. PICK o \in 1..Len(dir[f]) :
          client' = [client EXCEPT ![c] = [pc |-> "seek", file |-> f, id |-> <<"none", "none", 0>>, at |-> o]]
    BY <2>1
  <2> DEFINE q == [pc |-> "seek", file |-> f, id |-> <<"none", "none", 0>>, at |-> o]
  <2>2. ClientShape(q)
    BY DEF ClientShape
  <2>3. client' = [client EXCEPT ![c] = q] /\ UNCHANGED <<dir, sealed, cfHolder>>
    BY <1>4, <2>a DEF CF!ReadAny
  <2> HIDE DEF q
  <2> QED
    BY <1>0, <2>2, <2>3, ClientMoves
<1>5. ASSUME NEW c \in Clients, CF!Seek(c) PROVE ChunkTypes'
  <2> DEFINE q == [client[c] EXCEPT !.pc = "decode"]
  <2>1. ClientShape(client[c])
    BY DEF ChunkTypes
  <2>2. ClientShape(q)
    BY <2>1 DEF ClientShape
  <2>3. client' = [client EXCEPT ![c] = q] /\ UNCHANGED <<dir, sealed>>
    BY <1>5 DEF CF!Seek
  <2>4. cfHolder' \in [FileIds -> Clients \cup {CF!Nobody}]
    BY <1>0, <1>5 DEF CF!Seek
  <2> HIDE DEF q
  <2> QED
    BY <2>2, <2>3, <2>4, ClientMoves
<1>6. ASSUME NEW c \in Clients, CF!Decode(c) PROVE ChunkTypes'
  <2>1. ClientShape(CF!Idle)
    BY DEF ClientShape, CF!Idle
  <2>2. client' = [client EXCEPT ![c] = CF!Idle] /\ UNCHANGED <<dir, sealed>>
    BY <1>6 DEF CF!Decode
  <2>3. cfHolder' \in [FileIds -> Clients \cup {CF!Nobody}]
    BY <1>0, <1>6 DEF CF!Decode
  <2> QED
    BY <2>1, <2>2, <2>3, ClientMoves
<1>7. ASSUME NEW f \in FileIds, CF!Reset(f) PROVE ChunkTypes'
  BY <1>7 DEF CF!Reset, ChunkTypes, ClientShape
<1>8. CASE UNCHANGED CF!vars
  BY <1>8 DEF CF!vars, ChunkTypes, ClientShape
<1> QED
  BY <1>1, <1>2, <1>3, <1>4, <1>5, <1>6, <1>7, <1>8 DEF CF!Next

LEMMA ChunkHolds == ChunkTypes => CF!TypeOK
BY DEF ChunkTypes, ClientShape, CF!TypeOK

(* The types of the requests of an export. *)
RequestShape(q) ==
  /\ DOMAIN q = {"pc", "file", "msg", "seen", "thread", "answer", "walk", "alone"}
  /\ q.pc \in {"idle", "note", "load", "store", "set", "list", "answered", "failed"}
  /\ q.thread \in ES!Threads \cup {0} /\ q.file \in Nat /\ q.msg \in Nat /\ q.seen \in Seq(0..Len(Days))
  /\ q.pc \in {"load", "store", "set"} => q.file \in 1..Len(Days)
  /\ q.pc = "note" => q.file >= 1 /\ q.msg >= 1
ExportTypes ==
  /\ cache \in [ES!Keys -> Seq(0..Len(Days))]
  /\ DOMAIN req = Requests /\ \A r \in Requests : RequestShape(req[r])

LEMMA DaysShape ==
  /\ Len(Days) \in Nat /\ ES!Keys = ES!Threads \cup {0} /\ ES!Channel0 = 0 /\ ES!Absent \in Seq(0..Len(Days))
  /\ \A f \in 1..Len(Days) : Len(Days[f]) \in Nat /\
       \A m \in 1..Len(Days[f]) : Days[f][m].thread \in ES!Threads \cup {0}
<1>1. PICK S : Days \in Seq(Seq(S))
  BY FilesAssumption
<1>2. Len(Days) \in Nat
  BY <1>1
<1>3. ASSUME NEW f \in 1..Len(Days) PROVE Len(Days[f]) \in Nat
  <2>1. Days[f] \in Seq(S)
    BY <1>1, <1>2, ElementOfSeq
  <2> QED
    BY <2>1
<1>4. \A f \in 1..Len(Days) : \A m \in 1..Len(Days[f]) : Days[f][m].thread \in ES!Threads \cup {0}
  <2> SUFFICES ASSUME NEW f \in 1..Len(Days), NEW m \in 1..Len(Days[f]), Days[f][m].thread # 0
               PROVE  Days[f][m].thread \in ES!Threads
    OBVIOUS
  <2>1. Days[f][m].thread \in {Days[f][k].thread : k \in 1..Len(Days[f])}
    OBVIOUS
  <2>2. Days[f][m].thread \in UNION {{Days[g][k].thread : k \in 1..Len(Days[g])} : g \in 1..Len(Days)}
    BY <2>1
  <2> QED
    BY <2>2 DEF ES!Threads
<1>5. ES!Absent \in Seq(0..Len(Days))
  <2>1. 0 \in 0..Len(Days)
    BY <1>2
  <2> QED
    BY <2>1 DEF ES!Absent
<1> QED
  BY <1>2, <1>3, <1>4, <1>5 DEF ES!Keys, ES!Channel0

LEMMA IdleRequest == RequestShape(ES!Idle)
<1>1. <<>> \in Seq(0..Len(Days))
  BY DaysShape
<1> QED
  BY <1>1 DEF RequestShape, ES!Idle

LEMMA ExportStart == ES!Init => ExportTypes
<1> SUFFICES ASSUME ES!Init PROVE ExportTypes
  OBVIOUS
<1>1. DOMAIN req = Requests /\ \A r \in Requests : req[r] = ES!Idle
  BY DEF ES!Init
<1>2. cache \in [ES!Keys -> Seq(0..Len(Days))]
  BY DaysShape DEF ES!Init
<1> QED
  BY <1>1, <1>2, IdleRequest DEF ExportTypes

\* A request moves.
LEMMA RequestMoves ==
  ASSUME ExportTypes, NEW r \in Requests, NEW q, RequestShape(q), req' = [req EXCEPT ![r] = q],
         cache' \in [ES!Keys -> Seq(0..Len(Days))]
  PROVE  ExportTypes'
<1>1. req'[r] = q /\ \A s \in Requests : s # r => req'[s] = req[s]
  BY DEF ExportTypes
<1>2. \A s \in Requests : RequestShape(req'[s])
  BY <1>1 DEF ExportTypes
<1>3. DOMAIN req' = Requests
  BY DEF ExportTypes
<1> QED
  BY <1>2, <1>3 DEF ExportTypes, RequestShape

\* One begins, and others are not alone any more.
LEMMA RequestBegins ==
  ASSUME ExportTypes, NEW r \in Requests, NEW q, RequestShape(q), req' = ES!Crowd(r, q), UNCHANGED cache
  PROVE  ExportTypes'
<1>1. DOMAIN req' = Requests
  BY DEF ES!Crowd
<1>2. ASSUME NEW s \in Requests PROVE RequestShape(req'[s])
  <2>1. RequestShape(req[s])
    BY DEF ExportTypes
  <2> DEFINE t == [req[s] EXCEPT !.alone = FALSE]
  <2>2. RequestShape(t)
    BY <2>1 DEF RequestShape
  <2>3. req'[s] = q \/ req'[s] = t \/ req'[s] = req[s]
    BY DEF ES!Crowd
  <2> HIDE DEF t
  <2> QED
    BY <2>1, <2>2, <2>3
<1> QED
  BY <1>1, <1>2 DEF ExportTypes, RequestShape

LEMMA NoteKept == ASSUME ExportTypes, NEW r \in Requests, ES!NoteMessage(r) PROVE ExportTypes'
<1> DEFINE q == req[r]
<1>0. RequestShape(q) /\ q.pc = "note" /\ cache \in [ES!Keys -> Seq(0..Len(Days))]
  BY DEF ExportTypes, ES!NoteMessage
<1>1. /\ q.file \in Nat /\ q.msg \in Nat /\ q.file >= 1 /\ q.msg >= 1
      /\ q.file + 1 \in Nat /\ q.msg + 1 \in Nat /\ q.file + 1 >= 1 /\ q.msg + 1 >= 1
  BY <1>0 DEF RequestShape
<1>2. CASE req' = [req EXCEPT ![r] = [q EXCEPT !.pc = "answered", !.answer = ES!Answer(ES!All, 0)]] /\ UNCHANGED cache
  <2> DEFINE t == [q EXCEPT !.pc = "answered", !.answer = ES!Answer(ES!All, 0)]
  <2>1. RequestShape(t)
    BY <1>0 DEF RequestShape
  <2>2. req' = [req EXCEPT ![r] = t]
    BY <1>2
  <2> HIDE DEF t, q
  <2> QED
    BY <1>0, <1>2, <2>1, <2>2, RequestMoves
<1>3. CASE req' = [req EXCEPT ![r] = [q EXCEPT !.pc = "failed"]] /\ UNCHANGED cache
  <2> DEFINE t == [q EXCEPT !.pc = "failed"]
  <2>1. RequestShape(t)
    BY <1>0 DEF RequestShape
  <2>2. req' = [req EXCEPT ![r] = t]
    BY <1>3
  <2> HIDE DEF t, q
  <2> QED
    BY <1>0, <1>3, <2>1, <2>2, RequestMoves
<1>4. CASE req' = [req EXCEPT ![r] = [q EXCEPT !.file = q.file + 1, !.msg = 1]] /\ UNCHANGED cache
  <2> DEFINE t == [q EXCEPT !.file = q.file + 1, !.msg = 1]
  <2>1. RequestShape(t)
    BY <1>0, <1>1 DEF RequestShape
  <2>2. req' = [req EXCEPT ![r] = t]
    BY <1>4
  <2> HIDE DEF t, q
  <2> QED
    BY <1>0, <1>4, <2>1, <2>2, RequestMoves
<1>5. CASE req' = [req EXCEPT ![r] = ES!Forth(q)] /\ UNCHANGED cache
  <2>1. RequestShape(ES!Forth(q))
    BY <1>0, <1>1 DEF RequestShape, ES!Forth
  <2> HIDE DEF q
  <2> QED
    BY <1>0, <1>5, <2>1, RequestMoves
<1>6. ASSUME q.file <= Len(Days), q.msg <= Len(Days[q.file]),
             cache' = IF cache[ES!Channel0] = ES!Absent THEN [cache EXCEPT ![ES!Channel0] = <<>>] ELSE cache,
             req' = [req EXCEPT ![r] = [q EXCEPT !.pc = "load", !.thread = Days[q.file][q.msg].thread]]
      PROVE  ExportTypes'
  <2> DEFINE t == [q EXCEPT !.pc = "load", !.thread = Days[q.file][q.msg].thread]
  <2>1. q.file \in 1..Len(Days)
    BY <1>1, <1>6, DaysShape
  <2>2. Days[q.file][q.msg].thread \in ES!Threads \cup {0}
    BY <1>1, <1>6, <2>1, DaysShape, SMTT(30)
  <2>3. RequestShape(t)
    BY <1>0, <2>1, <2>2 DEF RequestShape
  <2>4. req' = [req EXCEPT ![r] = t]
    BY <1>6
  <2>5. cache' \in [ES!Keys -> Seq(0..Len(Days))]
    <3>1. <<>> \in Seq(0..Len(Days))
      BY DaysShape
    <3> QED
      BY <1>0, <1>6, <3>1
  <2> HIDE DEF t, q
  <2> QED
    BY <2>3, <2>4, <2>5, RequestMoves
<1> QED
  BY <1>2, <1>3, <1>4, <1>5, <1>6 DEF ES!NoteMessage

LEMMA CacheSteps == ASSUME ExportTypes, NEW r \in Requests, ES!Load(r) \/ ES!Store(r) \/ ES!Set(r) PROVE ExportTypes'
<1> DEFINE q == req[r]
<1>0. RequestShape(q) /\ q.pc \in {"load", "store", "set"} /\ cache \in [ES!Keys -> Seq(0..Len(Days))]
  BY DEF ExportTypes, ES!Load, ES!Store, ES!Set
<1>1. /\ q.file \in 1..Len(Days) /\ q.file \in 0..Len(Days) /\ q.msg \in Nat /\ q.msg + 1 \in Nat
      /\ q.seen \in Seq(0..Len(Days)) /\ q.thread \in ES!Keys
  BY <1>0, DaysShape DEF RequestShape
<1>2. RequestShape(ES!Forth(q))
  <2>1. q.msg \in Nat /\ q.msg + 1 >= 1 /\ q.file >= 1
    BY <1>1, DaysShape
  <2> QED
    BY <1>0, <1>1, <2>1 DEF RequestShape, ES!Forth
<1>3. CASE req' = [req EXCEPT ![r] = ES!Forth(q)] /\ cache' \in [ES!Keys -> Seq(0..Len(Days))]
  <2> HIDE DEF q
  <2> QED
    BY <1>2, <1>3, RequestMoves
<1>4. CASE req' = [req EXCEPT ![r] = [q EXCEPT !.pc = "store"]] /\ UNCHANGED cache
  <2> DEFINE t == [q EXCEPT !.pc = "store"]
  <2>1. RequestShape(t)
    BY <1>0, <1>1 DEF RequestShape
  <2>2. req' = [req EXCEPT ![r] = t]
    BY <1>4
  <2> HIDE DEF t, q
  <2> QED
    BY <1>0, <1>4, <2>1, <2>2, RequestMoves
<1>5. CASE req' = [req EXCEPT ![r] = [q EXCEPT !.pc = "set", !.seen = cache[q.thread]]] /\ UNCHANGED cache
  <2> DEFINE t == [q EXCEPT !.pc = "set", !.seen = cache[q.thread]]
  <2>0. cache[q.thread] \in Seq(0..Len(Days))
    BY <1>0, <1>1
  <2>1. RequestShape(t)
    BY <1>0, <1>1, <2>0 DEF RequestShape
  <2>2. req' = [req EXCEPT ![r] = t]
    BY <1>5
  <2> HIDE DEF t, q
  <2> QED
    BY <1>0, <1>5, <2>1, <2>2, RequestMoves
<1>6. CASE ES!Load(r)
  BY <1>0, <1>3, <1>4, <1>5, <1>6 DEF ES!Load
<1>7. ASSUME NEW l \in Seq(0..Len(Days)), cache' = [cache EXCEPT ![q.thread] = l]
      PROVE  cache' \in [ES!Keys -> Seq(0..Len(Days))]
  BY <1>0, <1>7
<1>8. <<q.file>> \in Seq(0..Len(Days)) /\ Append(q.seen, q.file) \in Seq(0..Len(Days))
  BY <1>1
<1>9. CASE ES!Store(r)
  BY <1>3, <1>7, <1>8, <1>9 DEF ES!Store
<1>10. CASE ES!Set(r)
  BY <1>3, <1>7, <1>8, <1>10 DEF ES!Set
<1> QED
  BY <1>6, <1>9, <1>10

LEMMA ExportKept == ExportTypes /\ [ES!Next]_(ES!vars) => ExportTypes'
<1> SUFFICES ASSUME ExportTypes, [ES!Next]_(ES!vars) PROVE ExportTypes'
  OBVIOUS
<1>0. cache \in [ES!Keys -> Seq(0..Len(Days))]
  BY DEF ExportTypes
<1>1. ASSUME NEW r \in Requests, ES!BeginMessages(r) PROVE ExportTypes'
  <2> DEFINE q == [ES!Idle EXCEPT !.pc = "note", !.file = 1, !.msg = 1, !.alone = ES!Alone(r)]
  <2>1. RequestShape(q)
    BY IdleRequest DEF RequestShape
  <2>2. req' = ES!Crowd(r, q) /\ UNCHANGED cache
    BY <1>1 DEF ES!BeginMessages
  <2> HIDE DEF q
  <2> QED
    BY <2>1, <2>2, RequestBegins
<1>2. ASSUME NEW r \in Requests, ES!BeginThread(r) PROVE ExportTypes'
  <2>1. PICK t \in ES!Threads :
          req' = ES!Crowd(r, [ES!Idle EXCEPT !.pc = "list", !.thread = t, !.alone = ES!Alone(r),
            !.walk = IF cache[ES!Channel0] # ES!Absent /\ cache[t] # ES!Absent THEN cache[t] ELSE ES!All])
    BY <1>2 DEF ES!BeginThread
  <2> DEFINE q == [ES!Idle EXCEPT !.pc = "list", !.thread = t, !.alone = ES!Alone(r),
            !.walk = IF cache[ES!Channel0] # ES!Absent /\ cache[t] # ES!Absent THEN cache[t] ELSE ES!All]
  <2>2. RequestShape(q)
    BY IdleRequest DEF RequestShape
  <2>3. req' = ES!Crowd(r, q) /\ UNCHANGED cache
    BY <1>2, <2>1 DEF ES!BeginThread
  <2> HIDE DEF q
  <2> QED
    BY <2>2, <2>3, RequestBegins
<1>3. ASSUME NEW r \in Requests, ES!ReadList(r) PROVE ExportTypes'
  <2> DEFINE t == [req[r] EXCEPT !.pc = "failed"]
             u == [req[r] EXCEPT !.pc = "answered", !.answer = ES!Answer(req[r].walk, req[r].thread)]
  <2>0. RequestShape(req[r])
    BY DEF ExportTypes
  <2>1. RequestShape(t) /\ RequestShape(u)
    BY <2>0 DEF RequestShape
  <2>2. (req' = [req EXCEPT ![r] = t] \/ req' = [req EXCEPT ![r] = u]) /\ UNCHANGED cache
    BY <1>3 DEF ES!ReadList
  <2> HIDE DEF t, u
  <2> QED
    BY <1>0, <2>1, <2>2, RequestMoves
<1>4. CASE UNCHANGED ES!vars
  BY <1>4 DEF ES!vars, ExportTypes, RequestShape
<1> QED
  BY <1>1, <1>2, <1>3, <1>4, NoteKept, CacheSteps DEF ES!Next

LEMMA ExportHolds == ExportTypes => ES!TypeOK
BY DEF ExportTypes, RequestShape, ES!TypeOK

(* The types of an archive: what its index and its files name are channels. *)
IndexKinds == {"public", "private", "mpim", "im"}
ArchiveTypes ==
  /\ plan \in Plans /\ phase \in {"writing", "written", "stopped", "open", "refused"}
  /\ DOMAIN index = IndexKinds
  /\ \A kind \in IndexKinds : \A e \in index[kind] : e[1] \in DOMAIN Kind
  /\ \A d \in disk : d[1] = "json" => d[2][1] \in DOMAIN Kind
  /\ source.type \in {"none", "dump", "export", "chunk", "database"}
  /\ source.files \subseteq disk /\ DOMAIN channels \subseteq DOMAIN Kind

LEMMA ArchiveStart == SO!Init => ArchiveTypes
<1> SUFFICES ASSUME SO!Init PROVE ArchiveTypes
  OBVIOUS
<1>1. plan \in Plans /\ phase = "writing" /\ index = SO!NoIndex /\ source = SO!NoSource /\ channels = <<>>
      /\ disk = IF plan.format = "database" THEN {<<"slackdump.sqlite">>} ELSE {}
  BY DEF SO!Init
<1>2. DOMAIN index = IndexKinds /\ \A kind \in IndexKinds : index[kind] = {}
  BY <1>1 DEF SO!NoIndex, IndexKinds
<1>3. \A d \in disk : d[1] # "json"
  BY <1>1
<1>4. source.type = "none" /\ source.files = {}
  BY <1>1 DEF SO!NoSource
<1>5. DOMAIN channels = {}
  BY <1>1
<1> QED
  BY <1>1, <1>2, <1>3, <1>4, <1>5 DEF ArchiveTypes

\* A path is written.
LEMMA PathWritten ==
  ASSUME ArchiveTypes, NEW d, d[1] = "json" => d[2][1] \in DOMAIN Kind, SO!Write(d)
  PROVE  ArchiveTypes'
BY DEF SO!Write, ArchiveTypes

LEMMA PathsTell ==
  ASSUME ArchiveTypes, NEW k \in plan.convs
  PROVE  /\ k[1] \in DOMAIN Kind
         /\ SO!PathOf(k)[1] = "json" => SO!PathOf(k)[2][1] \in DOMAIN Kind
         /\ \A f : plan.storage # "none" => SO!FilePath(k, f)[1] # "json"
<1>1. /\ k[1] \in DOMAIN Kind /\ plan.format \in {"dump", "export", "chunk", "database"}
      /\ plan.storage \in {"dump", "standard", "mattermost", "old", "none"}
  BY FilesAssumption DEF ArchiveTypes
<1>2. SO!PathOf(k)[1] = "json" => SO!PathOf(k)[2][1] \in DOMAIN Kind
  <2>1. CASE plan.format = "dump"
    <3>1. SO!PathOf(k) = <<"json", k>> \/ SO!PathOf(k) = <<"named", k>>
      BY <2>1 DEF SO!PathOf
    <3> QED
      BY <1>1, <3>1
  <2>2. CASE plan.format = "export"
    BY <2>2 DEF SO!PathOf
  <2>3. CASE plan.format = "chunk"
    BY <2>3 DEF SO!PathOf
  <2>4. CASE plan.format = "database"
    BY <2>4 DEF SO!PathOf
  <2> QED
    BY <1>1, <2>1, <2>2, <2>3, <2>4
<1>3. ASSUME NEW f, plan.storage # "none" PROVE SO!FilePath(k, f)[1] # "json"
  <2>1. CASE plan.storage = "mattermost"
    BY <2>1 DEF SO!FilePath
  <2>2. CASE plan.storage = "old"
    BY <2>2 DEF SO!FilePath
  <2>3. CASE plan.storage = "standard"
    BY <2>3 DEF SO!FilePath
  <2>4. CASE plan.storage = "dump"
    BY <2>4 DEF SO!FilePath
  <2> QED
    BY <1>1, <1>3, <2>1, <2>2, <2>3, <2>4
<1> QED
  BY <1>1, <1>2, <1>3

LEMMA MarshalKept == ASSUME ArchiveTypes, SO!Marshal PROVE ArchiveTypes'
<1>1. PICK n \in 0..Len(SO!IndexFiles) :
       /\ index' = [kind \in DOMAIN index |->
            IF \E i \in 1..n : SO!IndexFiles[i] = kind
            THEN {SO!MakeExportIndex(c) : c \in {x \in SO!ChannelsOf(plan.convs) : Kind[x] = kind}} ELSE {}]
       /\ disk' = IF n > 0 THEN disk \cup {<<"channels.json">>} ELSE disk
       /\ phase' = IF n = Len(SO!IndexFiles) THEN "written" ELSE "stopped"
  BY DEF SO!Marshal
<1>2. UNCHANGED <<plan, source, channels>>
  BY DEF SO!Marshal
<1>3. \A c \in SO!ChannelsOf(plan.convs) : SO!MakeExportIndex(c)[1] \in DOMAIN Kind
  <2>1. \A c \in SO!ChannelsOf(plan.convs) : c \in DOMAIN Kind
    BY PathsTell DEF SO!ChannelsOf
  <2>2. \A c \in SO!ChannelsOf(plan.convs) : SO!MakeExportIndex(c)[1] = c
    BY DEF SO!MakeExportIndex
  <2> QED
    BY <2>1, <2>2
<1>4. DOMAIN index' = IndexKinds
  BY <1>1 DEF ArchiveTypes
<1>5. ASSUME NEW kind \in IndexKinds, NEW e \in index'[kind] PROVE e[1] \in DOMAIN Kind
  <2>1. \E c \in SO!ChannelsOf(plan.convs) : e = SO!MakeExportIndex(c)
    BY <1>1, <1>5 DEF ArchiveTypes
  <2> QED
    BY <1>3, <2>1
<1>6. \A d \in disk' : d[1] = "json" => d[2][1] \in DOMAIN Kind
  BY <1>1 DEF ArchiveTypes
<1>7. source'.files \subseteq disk' /\ phase' \in {"written", "stopped"}
  BY <1>1, <1>2 DEF ArchiveTypes
<1> QED
  BY <1>2, <1>4, <1>5, <1>6, <1>7 DEF ArchiveTypes

LEMMA LoadKept == ASSUME ArchiveTypes, SO!Load PROVE ArchiveTypes'
<1>0. UNCHANGED <<plan, disk, index>>
  BY DEF SO!Load
<1>1. CASE phase' = "refused" /\ UNCHANGED <<source, channels>>
  BY <1>0, <1>1 DEF ArchiveTypes
<1>2. CASE SO!SrcType # "unknown" /\ ~UNCHANGED <<source, channels>>
  <2>0. SO!SrcType \in {"dump", "chunk", "export", "database"}
    BY <1>2 DEF SO!SrcType
  <2>1. phase' = "open"
    BY <1>2 DEF SO!Load
  <2>2. source'.type \in {"none", "dump", "export", "chunk", "database"} /\ source'.files \subseteq disk
    <3>1. source' = IF SO!SrcType = "dump"
                    THEN [type |-> "dump", storage |-> "dump", files |-> SO!DumpFiles]
                    ELSE [type |-> SO!SrcType, storage |-> SO!LoadStorage.storage, files |-> SO!LoadStorage.files]
      BY <1>2 DEF SO!Load
    <3>2. SO!DumpFiles \subseteq disk /\ SO!LoadStorage.files \subseteq disk
      BY DEF SO!DumpFiles, SO!LoadStorage, SO!StdFiles
    <3> QED
      BY <2>0, <3>1, <3>2
  <2>3. SO!ChannelsOf(plan.convs) \subseteq DOMAIN Kind
    BY PathsTell DEF SO!ChannelsOf
  <2>4. DOMAIN channels' \subseteq DOMAIN Kind
    <3>1. CASE SO!SrcType = "dump"
      <4>1. channels' = SO!DumpChannels
        BY <1>2, <3>1 DEF SO!Load
      <4>2. {d[2][1] : d \in {q \in disk : q[1] = "json"}} \subseteq DOMAIN Kind
        BY DEF ArchiveTypes
      <4> QED
        BY <2>3, <4>1, <4>2 DEF SO!DumpChannels
    <3>2. CASE SO!SrcType = "export"
      <4>1. PICK me : channels' = SO!Restore(me)
        BY <1>2, <3>2 DEF SO!Load
      <4>2. DOMAIN channels' = {e[1] : e \in UNION {index[kind] : kind \in DOMAIN index}}
        BY <4>1 DEF SO!Restore
      <4> QED
        BY <4>2 DEF ArchiveTypes
    <3>3. CASE SO!SrcType \in {"chunk", "database"}
      <4>1. channels' = [c \in SO!ChannelsOf(plan.convs) |-> SO!Known(c)]
        BY <1>2, <3>3 DEF SO!Load
      <4> QED
        BY <2>3, <4>1
    <3> QED
      BY <2>0, <3>1, <3>2, <3>3
  <2> QED
    BY <1>0, <2>1, <2>2, <2>4 DEF ArchiveTypes
<1>3. CASE phase' = "open" /\ UNCHANGED <<source, channels>>
  BY <1>0, <1>3 DEF ArchiveTypes
<1> QED
  BY <1>1, <1>2, <1>3 DEF SO!Load

LEMMA ArchiveKept == ArchiveTypes /\ [SO!Next]_(SO!vars) => ArchiveTypes'
<1> SUFFICES ASSUME ArchiveTypes, [SO!Next]_(SO!vars) PROVE ArchiveTypes'
  OBVIOUS
<1>1. CASE SO!WriteChannels
  <2>1. SO!Write(<<"channels.json">>)
    BY <1>1 DEF SO!WriteChannels
  <2>2. <<"channels.json">>[1] # "json"
    OBVIOUS
  <2> QED
    BY <2>1, <2>2, PathWritten
<1>2. ASSUME NEW k \in plan.convs, SO!Convert(k) PROVE ArchiveTypes'
  BY <1>2, PathsTell, PathWritten DEF SO!Convert
<1>3. ASSUME NEW k \in plan.convs, NEW f \in SO!AllFiles(k), SO!Download(k, f) PROVE ArchiveTypes'
  BY <1>3, PathsTell, PathWritten DEF SO!Download
<1>4. CASE SO!Finish
  <2>1. disk' = disk \/ disk' = disk \cup {<<"workspace.json.gz">>}
    BY <1>4 DEF SO!Finish
  <2>2. <<"workspace.json.gz">>[1] # "json"
    OBVIOUS
  <2>3. disk \subseteq disk' /\ \A d \in disk' : d[1] = "json" => d[2][1] \in DOMAIN Kind
    BY <2>1, <2>2 DEF ArchiveTypes
  <2> QED
    BY <1>4, <2>3 DEF SO!Finish, ArchiveTypes
<1>5. CASE SO!Stop
  BY <1>5 DEF SO!Stop, ArchiveTypes
<1>6. CASE UNCHANGED SO!vars
  BY <1>6 DEF SO!vars, ArchiveTypes
<1> QED
  BY <1>1, <1>2, <1>3, <1>4, <1>5, <1>6, MarshalKept, LoadKept DEF SO!Next

LEMMA ArchiveHolds == ArchiveTypes => SO!TypeOK
BY DEF ArchiveTypes, IndexKinds, SO!TypeOK, SO!Channels

-----------------------------------------------------------------------------
(* The theorems about all parts.                                           *)

FilesInv ==
  /\ IInv /\ RetryInv /\ ManagerInv /\ AskInv /\ SE!TypeOK /\ ListInv /\ CollectInv
  /\ ChunkTypes /\ ExportTypes /\ ArchiveTypes

LEMMA FilesInvariance == FilesSpec => []FilesInv
<1>1. FilesInit => FilesInv
  BY FilesStart, InitIInv, RetryStart, ManagerStart, AskStart, SessionStart, ListStart, CollectStart,
     ChunkStart, ExportStart, ArchiveStart DEF FilesInv
<1>2. FilesInv /\ [FilesNext]_allVars => FilesInv'
  <2> SUFFICES ASSUME FilesInv, [FilesNext]_allVars PROVE FilesInv'
    OBVIOUS
  <2>1. /\ [Next]_vars /\ [RT!Next]_(RT!vars) /\ [FM!Next]_(FM!vars) /\ [CO!Next]_(CO!vars)
        /\ [CF!Next]_(CF!vars) /\ [ES!Next]_(ES!vars) /\ [SO!Next]_(SO!vars) /\ [LI!Next]_(LI!vars)
        /\ [SE!Next]_(SE!vars)
    BY FilesSteps
  <2>2. IInv'
    BY <2>1, StepKept DEF FilesInv
  <2>3. RetryInv' /\ ManagerInv' /\ AskInv'
    BY <2>1, RetryKept, ManagerKept, AskKept DEF FilesInv
  <2>4. SE!TypeOK'
    BY <2>1, <2>3, SessionKept DEF FilesInv
  <2>5. ListInv' /\ CollectInv'
    BY <2>1, ListKept, CollectKept DEF FilesInv
  <2>6. ChunkTypes' /\ ExportTypes' /\ ArchiveTypes'
    BY <2>1, ChunkKept, ExportKept, ArchiveKept DEF FilesInv
  <2> QED
    BY <2>2, <2>3, <2>4, <2>5, <2>6 DEF FilesInv
<1> QED
  BY <1>1, <1>2, PTL DEF FilesSpec

\* The variables of the downloader, the retries, the file manager, the collector, the chunk files, the
\* exports, the archives, the lists and the library's calls keep their types: no index leaves its
\* sequence, no handle its numbers, no cache names a file there is not.
THEOREM FilesAreTyped == FilesSpec => []FilesTypeOK
<1>1. FilesInv => FilesTypeOK
  <2> SUFFICES ASSUME FilesInv PROVE FilesTypeOK
    OBVIOUS
  <2>0. Types
    BY DEF FilesInv, IInv
  <2>1. TypeOK
    <3>1. hand \in Seq(Files) /\ Len(hand) <= 1
      <4>1. CASE hand = <<>>
        BY <4>1
      <4>2. ASSUME NEW f \in Files, hand = <<f>> PROVE hand \in Seq(Files) /\ Len(hand) <= 1
        BY <4>2
      <4> QED
        BY <2>0, <4>1, <4>2 DEF Types
    <3>2. ASSUME NEW w \in Workers
          PROVE  /\ worker[w].pc \in {"gone", "recv", "fetch", "copy"}
                 /\ worker[w].file \in Files \union {NoFile} /\ worker[w].tries \in 0..Retries
      <4>1. worker[w] \in WorkerState
        BY <2>0 DEF Types
      <4> DEFINE tmps == Seq({<<Url[f], k>> : f \in Files, k \in 1..2})
      <4>2. worker[w] \in [pc : {"gone", "recv", "fetch", "copy"}, file : Files \union {NoFile},
                           tries : 0..Retries, tmp : tmps, pos : 0..2]
        BY <4>1 DEF WorkerState
      <4> HIDE DEF tmps
      <4> QED
        BY <4>2
    <3>3. \A c \in Callers : caller[c].pc \in {"idle", "sending"} /\ caller[c].todo \in Seq(Files \union Invalid)
      BY <2>0 DEF Types
    <3> QED
      BY <2>0, <3>1, <3>2, <3>3 DEF Types, TypeOK
  <2>2. RT!TypeOK /\ FM!TypeOK /\ CO!TypeOK /\ SE!TypeOK
    BY ManagerHolds, CollectHolds DEF FilesInv, RetryInv
  <2>3. CF!TypeOK /\ ES!TypeOK /\ SO!TypeOK /\ LI!TypeOK
    BY ChunkHolds, ExportHolds, ArchiveHolds, ListHolds DEF FilesInv
  <2> QED
    BY <2>1, <2>2, <2>3 DEF FilesTypeOK
<1> QED
  BY <1>1, FilesInvariance, PTL

\* WithRetry (internal/network/network.go) calls Slack again no sooner than Slack asked for and the network
\* no sooner than a second after an error, waits no shorter than after the same error before and no longer
\* than it may, and gives up for a reason only; unless it is given more than 34 attempts, the number of
\* which the wait after the network's errors overflows.
THEOREM RetriesArePatient == ASSUME MaxAttempts <= 34 PROVE FilesSpec => []RetriesPatiently
<1>1. FilesInv => RetriesPatiently
  BY RetryPatient DEF FilesInv
<1> QED
  BY <1>1, FilesInvariance, PTL

\* A chunk directory is collected whole or an error returned, and when it is whole no goroutine is left and
\* no file open but those passed over (collectAll of internal/chunk/directory.go); a file the file manager has opened is open, and its index whole, as long as
\* it is read (filemgr.go); the users in memory are no older than they may be (user_cache.go); and a list is
\* everything there is if its cache was written to the end by one process (internal/cache).
THEOREM SharedIsWhole == FilesSpec => []SharedWhole
<1>1. FilesInv => SharedWhole
  BY ManagerHolds, CollectHolds, AskHolds, ListHolds DEF FilesInv, SharedWhole
<1> QED
  BY <1>1, FilesInvariance, PTL

=============================================================================
