---------------------------- MODULE Backends_proofs ----------------------------
(***************************************************************************)
(* Proofs about the processors behind a stream and the database, for any   *)
(* channels, threads, pages and requests.                                  *)
(***************************************************************************)
EXTENDS MCBackends, FiniteSetTheorems, TLAPS

-----------------------------------------------------------------------------
(* The calls of a stream.                                                  *)

\* A page of the same entity.
AtPage(k, p) == [kind |-> k.kind, id |-> k.id, page |-> p]

LEMMA PagesForm ==
  ASSUME NEW c \in Channels
  PROVE  /\ Len(Pages[c]) \in Nat \ {0} /\ DOMAIN Pages[c] = 1..Len(Pages[c])
         /\ \A p \in 1..Len(Pages[c]) :
              /\ Pages[c][p] \in Seq(Threads) /\ Len(Pages[c][p]) \in Nat
              /\ DOMAIN Pages[c][p] = 1..Len(Pages[c][p])
              /\ \A i \in 1..Len(Pages[c][p]) : Pages[c][p][i] \in Threads /\ Home[Pages[c][p][i]] = c
<1>1. Pages[c] \in Seq(Seq(Threads)) /\ Pages[c] # <<>>
  BY CallsAssumption
<1>2. Len(Pages[c]) \in Nat \ {0} /\ DOMAIN Pages[c] = 1..Len(Pages[c])
  BY <1>1
<1>3. ASSUME NEW p \in 1..Len(Pages[c])
      PROVE  /\ Pages[c][p] \in Seq(Threads) /\ Len(Pages[c][p]) \in Nat
             /\ DOMAIN Pages[c][p] = 1..Len(Pages[c][p])
             /\ \A i \in 1..Len(Pages[c][p]) : Pages[c][p][i] \in Threads /\ Home[Pages[c][p][i]] = c
  <2>1. Pages[c][p] \in Seq(Threads)
    BY <1>1, <1>2
  <2>2. Len(Pages[c][p]) \in Nat /\ DOMAIN Pages[c][p] = 1..Len(Pages[c][p])
    BY <2>1
  <2>3. \A i \in 1..Len(Pages[c][p]) : Pages[c][p][i] \in Threads
    BY <2>1
  <2>4. \A i \in 1..Len(Pages[c][p]) : Home[Pages[c][p][i]] = c
    BY <1>2, <2>2, CallsAssumption
  <2> QED
    BY <2>1, <2>2, <2>3, <2>4
<1> QED
  BY <1>2, <1>3

\* A thread that was found is on a page of its channel.
LEMMA FoundForm ==
  ASSUME NEW t \in Found
  PROVE  /\ t \in Threads /\ Home[t] \in Channels
         /\ \E p \in 1..Len(Pages[Home[t]]) : \E i \in 1..Len(Pages[Home[t]][p]) : Pages[Home[t]][p][i] = t
<1>1. PICK c \in Channels : \E p \in DOMAIN Pages[c] : t \in ThreadsOn(c, p)
  BY DEF Found
<1>2. PICK p \in DOMAIN Pages[c] : t \in ThreadsOn(c, p)
  BY <1>1
<1>3. PICK i \in DOMAIN Pages[c][p] : t = Pages[c][p][i]
  BY <1>2 DEF ThreadsOn
<1>4. /\ p \in 1..Len(Pages[c]) /\ i \in 1..Len(Pages[c][p])
      /\ Pages[c][p][i] \in Threads /\ Home[Pages[c][p][i]] = c
  BY <1>2, <1>3, PagesForm
<1>5. t \in Threads /\ Home[t] = c
  BY <1>3, <1>4
<1> QED
  BY <1>3, <1>4, <1>5

LEMMA ThreadPages == \A t \in Threads : Replies[t] \in Nat \ {0}
BY CallsAssumption

LEMMA CallForm ==
  ASSUME NEW k \in Call
  PROVE  /\ k.page \in Nat /\ k = AtPage(k, k.page) /\ k # NoCall
         /\ \/ k.kind = "channel" /\ k.id \in Channels /\ k.page \in 0..Len(Pages[k.id])
            \/ k.kind = "thread" /\ k.id \in Found /\ k.page \in 1..Replies[k.id]
            \/ k.kind = "only" /\ k.id \in Direct /\ k.page \in 0..Replies[k.id]
<1>1. CASE k \in PageCalls("channel", Channels, 0)
  <2>1. PICK c \in Channels : \E p \in 0..Len(Pages[c]) : k = [kind |-> "channel", id |-> c, page |-> p]
    BY <1>1 DEF PageCalls, PagesOf
  <2>2. PICK p \in 0..Len(Pages[c]) : k = [kind |-> "channel", id |-> c, page |-> p]
    BY <2>1
  <2> QED
    BY <2>2, PagesForm DEF AtPage, NoCall
<1>2. CASE k \in PageCalls("thread", Found, 1)
  <2>1. PICK t \in Found : \E p \in 1..Replies[t] : k = [kind |-> "thread", id |-> t, page |-> p]
    BY <1>2 DEF PageCalls, PagesOf
  <2>2. PICK p \in 1..Replies[t] : k = [kind |-> "thread", id |-> t, page |-> p]
    BY <2>1
  <2> QED
    BY <2>2, FoundForm, ThreadPages DEF AtPage, NoCall
<1>3. CASE k \in PageCalls("only", Direct, 0)
  <2>1. PICK t \in Direct : \E p \in 0..Replies[t] : k = [kind |-> "only", id |-> t, page |-> p]
    BY <1>3 DEF PageCalls, PagesOf
  <2>2. PICK p \in 0..Replies[t] : k = [kind |-> "only", id |-> t, page |-> p]
    BY <2>1
  <2>3. t \in Threads
    BY CallsAssumption
  <2> QED
    BY <2>2, <2>3, ThreadPages DEF AtPage, NoCall
<1> QED
  BY <1>1, <1>2, <1>3 DEF Call

\* The same record is made from the same parts.
LEMMA CallMade ==
  /\ \A c \in Channels : \A p \in 0..Len(Pages[c]) : [kind |-> "channel", id |-> c, page |-> p] \in Call
  /\ \A t \in Found : \A p \in 1..Replies[t] : [kind |-> "thread", id |-> t, page |-> p] \in Call
  /\ \A t \in Direct : \A p \in 0..Replies[t] : [kind |-> "only", id |-> t, page |-> p] \in Call
<1>1. \A c \in Channels : \A p \in 0..Len(Pages[c]) :
        [kind |-> "channel", id |-> c, page |-> p] \in PageCalls("channel", Channels, 0)
  BY DEF PageCalls, PagesOf
<1>2. \A t \in Found : \A p \in 1..Replies[t] :
        [kind |-> "thread", id |-> t, page |-> p] \in PageCalls("thread", Found, 1)
  BY DEF PageCalls, PagesOf
<1>3. \A t \in Direct : \A p \in 0..Replies[t] :
        [kind |-> "only", id |-> t, page |-> p] \in PageCalls("only", Direct, 0)
  BY DEF PageCalls, PagesOf
<1> QED
  BY <1>1, <1>2, <1>3 DEF Call

LEMMA CallParts ==
  ASSUME NEW k \in Call
  PROVE  /\ PagesOf(k.kind, k.id) \in Nat \ {0} /\ FirstPage(k.kind) \in 0..1
         /\ k.page \in FirstPage(k.kind)..PagesOf(k.kind, k.id)
         /\ Target(k) \in Targets /\ WorkerOf(k) \in Workers /\ HomeOf(k) \in Channels
         /\ Following(k) = AtPage(k, k.page + 1) /\ Preceding(k) = AtPage(k, k.page - 1)
         /\ \A p \in FirstPage(k.kind)..PagesOf(k.kind, k.id) : AtPage(k, p) \in Call
         /\ NumThreads(k) \in Nat
<1>1. /\ k.page \in Nat /\ k = [kind |-> k.kind, id |-> k.id, page |-> k.page]
      /\ \/ k.kind = "channel" /\ k.id \in Channels /\ k.page \in 0..Len(Pages[k.id])
         \/ k.kind = "thread" /\ k.id \in Found /\ k.page \in 1..Replies[k.id]
         \/ k.kind = "only" /\ k.id \in Direct /\ k.page \in 0..Replies[k.id]
  BY CallForm DEF AtPage
<1>2. Following(k) = AtPage(k, k.page + 1) /\ Preceding(k) = AtPage(k, k.page - 1)
  BY <1>1 DEF Following, Preceding, AtPage
<1>3. CASE k.kind = "channel"
  <2>1. k.id \in Channels /\ k.page \in 0..Len(Pages[k.id]) /\ Len(Pages[k.id]) \in Nat \ {0}
    BY <1>1, <1>3, PagesForm
  <2>2. NumThreads(k) \in Nat
    BY <1>3, <2>1, PagesForm DEF NumThreads, IsPage
  <2>3. \A p \in 0..Len(Pages[k.id]) : AtPage(k, p) \in Call
    BY <1>3, <2>1, CallMade DEF AtPage
  <2> QED
    BY <1>2, <1>3, <2>1, <2>2, <2>3 DEF PagesOf, FirstPage, Target, Targets, WorkerOf, Workers, HomeOf
<1>4. CASE k.kind = "thread"
  <2>1. k.id \in Found /\ k.page \in 1..Replies[k.id] /\ Replies[k.id] \in Nat \ {0} /\ Home[k.id] \in Channels
    BY <1>1, <1>4, FoundForm, ThreadPages
  <2>2. NumThreads(k) \in Nat
    BY <1>4 DEF NumThreads
  <2>3. \A p \in 1..Replies[k.id] : AtPage(k, p) \in Call
    BY <1>4, <2>1, CallMade DEF AtPage
  <2> QED
    BY <1>2, <1>4, <2>1, <2>2, <2>3 DEF PagesOf, FirstPage, Target, Targets, WorkerOf, Workers, HomeOf
<1>5. CASE k.kind = "only"
  <2>1. k.id \in Direct /\ k.page \in 0..Replies[k.id] /\ Replies[k.id] \in Nat \ {0} /\ Home[k.id] \in Channels
    BY <1>1, <1>5, ThreadPages, CallsAssumption
  <2>2. NumThreads(k) \in Nat
    BY <1>5 DEF NumThreads
  <2>3. \A p \in 0..Replies[k.id] : AtPage(k, p) \in Call
    BY <1>5, <2>1, CallMade DEF AtPage
  <2> QED
    BY <1>2, <1>5, <2>1, <2>2, <2>3 DEF PagesOf, FirstPage, Target, Targets, WorkerOf, Workers, HomeOf
<1> QED
  BY <1>1, <1>3, <1>4, <1>5

-----------------------------------------------------------------------------
(* Counting the threads on the pages.                                      *)

\* What a function reaches from a finite set is finite, and no more.
LEMMA Reached ==
  ASSUME NEW A, IsFiniteSet(A), NEW g, DOMAIN g = A, NEW B, \A b \in B : \E a \in A : b = g[a]
  PROVE  IsFiniteSet(B) /\ Cardinality(B) \in Nat /\ Cardinality(A) \in Nat /\ Cardinality(B) <= Cardinality(A)
<1> DEFINE all_ == {g[a] : a \in A}
           h == [a \in A |-> g[a]]
<1>1. h \in Surjection(A, all_)
  BY DEF Surjection
<1>2. IsFiniteSet(all_) /\ Cardinality(all_) <= Cardinality(A)
  BY <1>1, FS_Surjection
<1>3. B \in SUBSET all_
  OBVIOUS
<1>4. IsFiniteSet(B) /\ Cardinality(B) <= Cardinality(all_)
  BY <1>2, <1>3, FS_Subset
<1>5. Cardinality(B) \in Nat /\ Cardinality(A) \in Nat /\ Cardinality(all_) \in Nat
  BY <1>2, <1>4, FS_CardinalityType
<1> QED
  BY <1>2, <1>4, <1>5

\* The pages of a channel in a set of calls count finitely many threads.
LEMMA SlotsFinite ==
  ASSUME NEW f, NEW S, \A k \in S : k \in Call /\ k.kind = "channel" /\ k.id = f /\ k.page > 0
  PROVE  IsFiniteSet(Slots(S)) /\ Cardinality(Slots(S)) \in Nat
<1>1. CASE S = {}
  <2>1. Slots(S) = {}
    BY <1>1 DEF Slots
  <2> QED
    BY <2>1, FS_EmptySet
<1>2. CASE S # {}
  <2>1. f \in Channels /\ Len(Pages[f]) \in Nat
    <3>1. PICK k \in S : k \in Call /\ k.kind = "channel" /\ k.id = f
      BY <1>2
    <3> QED
      BY <3>1, CallForm, PagesForm
  <2> DEFINE call == [p \in 1..Len(Pages[f]) |-> [kind |-> "channel", id |-> f, page |-> p]]
  <2>2. ASSUME NEW k \in S
        PROVE  \E p \in 1..Len(Pages[f]) : k = call[p]
    <3>1. k.page \in 1..Len(Pages[f]) /\ k = AtPage(k, k.page)
      BY CallForm
    <3> QED
      BY <3>1 DEF AtPage
  <2>3. IsFiniteSet(1..Len(Pages[f]))
    BY <2>1, FS_Interval
  <2>4. IsFiniteSet(S)
    <3> HIDE DEF call
    <3>1. DOMAIN call = 1..Len(Pages[f])
      BY DEF call
    <3> QED
      BY <2>2, <2>3, <3>1, Reached
  <2> DEFINE row == [k \in S |-> {<<k, i>> : i \in 1..NumThreads(k)}]
             rowsOf == {{<<k, i>> : i \in 1..NumThreads(k)} : k \in S}
  <2>5. IsFiniteSet(rowsOf)
    <3>1. \A b \in rowsOf : \E a \in S : b = row[a]
      OBVIOUS
    <3>2. DOMAIN row = S
      OBVIOUS
    <3> HIDE DEF row, rowsOf
    <3> QED
      BY <2>4, <3>1, <3>2, Reached
  <2>6. ASSUME NEW k \in S
        PROVE  IsFiniteSet({<<k, i>> : i \in 1..NumThreads(k)})
    <3> DEFINE place == [i \in 1..NumThreads(k) |-> <<k, i>>]
               these == {<<k, i>> : i \in 1..NumThreads(k)}
    <3>1. NumThreads(k) \in Nat
      BY CallParts
    <3>2. IsFiniteSet(1..NumThreads(k))
      BY <3>1, FS_Interval
    <3>3. \A b \in these : \E a \in 1..NumThreads(k) : b = place[a]
      OBVIOUS
    <3>4. DOMAIN place = 1..NumThreads(k)
      OBVIOUS
    <3> DEFINE dom == 1..NumThreads(k)
    <3>5. IsFiniteSet(dom) /\ DOMAIN place = dom /\ (\A b \in these : \E a \in dom : b = place[a])
      BY <3>2, <3>3, <3>4
    <3>6. IsFiniteSet(these)
      <4> HIDE DEF place, these, dom
      <4> QED
        BY <3>5, Reached
    <3> QED
      BY <3>6
  <2>7. IsFiniteSet(UNION rowsOf)
    <3>1. \A s \in rowsOf : IsFiniteSet(s)
      BY <2>6
    <3> HIDE DEF rowsOf
    <3> QED
      BY <2>5, <3>1, FS_UNION
  <2> QED
    BY <2>7, FS_CardinalityType DEF Slots
<1> QED
  BY <1>1, <1>2

\* One page more counts its threads more.
LEMMA SlotsAdd ==
  ASSUME NEW f, NEW S, \A x \in S : x \in Call /\ x.kind = "channel" /\ x.id = f /\ x.page > 0,
         NEW k \in Call, k \notin S, k.kind = "channel", k.id = f, k.page > 0
  PROVE  Cardinality(Slots(S \cup {k})) = Cardinality(Slots(S)) + NumThreads(k)
<1> DEFINE place == [i \in 1..NumThreads(k) |-> <<k, i>>]
           these == {<<k, i>> : i \in 1..NumThreads(k)}
<1>1. NumThreads(k) \in Nat
  BY CallParts
<1>2. IsFiniteSet(1..NumThreads(k)) /\ Cardinality(1..NumThreads(k)) = NumThreads(k)
  BY <1>1, FS_Interval
<1>3. place \in Bijection(1..NumThreads(k), these)
  <2>1. place \in [1..NumThreads(k) -> these]
    OBVIOUS
  <2>2. \A i, j \in 1..NumThreads(k) : place[i] = place[j] => i = j
    OBVIOUS
  <2>3. \A x \in these : \E i \in 1..NumThreads(k) : place[i] = x
    OBVIOUS
  <2> HIDE DEF place, these
  <2> QED
    BY <2>1, <2>2, <2>3 DEF Bijection, Injection, Surjection, IsInjective
<1>4. IsFiniteSet(these) /\ Cardinality(these) = NumThreads(k)
  <2>1. ExistsBijection(1..NumThreads(k), these)
    BY <1>3 DEF ExistsBijection
  <2> HIDE DEF these
  <2> QED
    BY <1>2, <2>1, FS_Bijection
<1>5. IsFiniteSet(Slots(S)) /\ Cardinality(Slots(S)) \in Nat
  BY SlotsFinite
<1>6. Slots(S \cup {k}) = Slots(S) \cup these
  BY DEF Slots
<1>7. Slots(S) \cap these = {}
  BY DEF Slots
<1>8. Cardinality({}) = 0
  BY FS_EmptySet
<1> HIDE DEF these
<1>9. Cardinality(Slots(S) \cup these) = Cardinality(Slots(S)) + Cardinality(these) - 0
  BY <1>4, <1>5, <1>7, <1>8, FS_Union
<1>10. Cardinality(Slots(S) \cup these) = Cardinality(Slots(S)) + NumThreads(k)
  BY <1>1, <1>4, <1>5, <1>9
<1> QED
  BY <1>6, <1>10

-----------------------------------------------------------------------------
(* The directory backend.                                                  *)

\* The pages before a call are done, and so is the channel page that announced its thread.
Before(k, done) == \A p \in FirstPage(k.kind)..k.page - 1 : AtPage(k, p) \in done
InTurn(k, done) == Before(k, done) /\ (k.kind = "thread" => Announced(k.id, done))

LEMMA InTurnStays ==
  ASSUME NEW done, NEW more, done \subseteq more, NEW k, InTurn(k, done)
  PROVE  InTurn(k, more)
BY DEF InTurn, Before, Announced

\* A worker's next call is in turn.
LEMMA ReadyInTurn ==
  ASSUME NEW w \in Workers, NEW k \in Call, NEW done, NEW bad, Ready(w, k, done, bad),
         \A x \in done : InTurn(x, done)
  PROVE  InTurn(k, done) /\ k \notin done \cup bad /\ WorkerOf(k) = w
<1>1. /\ WorkerOf(k) = w /\ k \notin done \cup bad
      /\ k.page > FirstPage(k.kind) => Preceding(k) \in done
      /\ k.kind = "thread" => Announced(k.id, done)
  BY DEF Ready
<1>2. k.page \in Nat /\ FirstPage(k.kind) \in 0..1 /\ k.page >= FirstPage(k.kind) /\ Preceding(k) = AtPage(k, k.page - 1)
  BY CallForm, CallParts
<1>3. ASSUME NEW p \in FirstPage(k.kind)..k.page - 1
      PROVE  AtPage(k, p) \in done
  <2>1. AtPage(k, k.page - 1) \in done
    BY <1>1, <1>2
  <2>2. CASE p = k.page - 1
    BY <2>1, <2>2
  <2>3. CASE p # k.page - 1
    <3> DEFINE x == AtPage(k, k.page - 1)
    <3>1. Before(x, done) /\ x.kind = k.kind /\ x.id = k.id /\ x.page = k.page - 1
      BY <2>1 DEF InTurn, AtPage
    <3>2. p \in FirstPage(x.kind)..x.page - 1
      BY <1>2, <2>3, <3>1
    <3>3. AtPage(x, p) \in done
      BY <3>1, <3>2 DEF Before
    <3> QED
      BY <3>1, <3>3 DEF AtPage
  <2> QED
    BY <2>2, <2>3
<1> QED
  BY <1>1, <1>3 DEF InTurn, Before

\* A call that has got its file.
HasFile(k) ==
  k \in called \/ \E w \in Workers : cur[w] = k /\ pc[w] \notin {"idle", "files", "recorder"}

Over(f) == \A k \in CallsOf(f) : Ended(k)

DirBusy ==
  \A w \in Workers :
    IF pc[w] = "idle" THEN cur[w] = NoCall
    ELSE cur[w] \in Call /\ WorkerOf(cur[w]) = w /\ cur[w] \notin called \cup failed
DirAtEnd ==
  \A w \in Workers : pc[w] \in {"dec", "check", "unregister", "transform"} =>
    IsLast(cur[w]) /\ cur[w].page > 0 /\ cur[w] \in written
DirOrder ==
  /\ called \subseteq written
  /\ \A k \in called : InTurn(k, called)
  /\ \A w \in Workers : pc[w] # "idle" => InTurn(cur[w], called)
DirKnown ==
  /\ tracked \cap finished = {}
  /\ \A k \in Call : HasFile(k) => Target(k) \in tracked \cup finished
  /\ \A w \in Workers : pc[w] = "transform" => Target(cur[w]) \in finished
DirWhole ==
  failed = {} =>
    /\ \A f \in finished : Over(f)
    /\ \A w \in Workers : HandsOver(w) => Over(Target(cur[w]))

DirInv == TypeOK /\ DirBusy /\ DirAtEnd /\ DirOrder /\ DirKnown /\ DirWhole /\ CountIsOutstanding

\* The channel pages that are counted for a file.
LEMMA CountedForm ==
  ASSUME NEW f
  PROVE  \A k \in Counted(f) : k \in Call /\ k.kind = "channel" /\ k.id = f /\ k.page > 0
BY DEF Counted

\* An ended call is in turn, and so are all pages of its entity before it.
LEMMA EndedInTurn ==
  ASSUME DirInv, NEW k \in Call, Ended(k)
  PROVE  InTurn(k, called)
BY DEF DirInv, DirOrder, Ended, Past

\* Every thread that has ended has a place of its own on a page that is counted.
ThreadAt(f) ==
  [s \in Slots(Counted(f)) |->
     [kind |-> "thread", id |-> Pages[f][s[1].page][s[2]], page |-> Replies[Pages[f][s[1].page][s[2]]]]]

LEMMA ThreadsPlaced ==
  ASSUME DirInv, NEW f
  PROVE  /\ \A k \in EndedThreads(f) : \E s \in Slots(Counted(f)) : k = ThreadAt(f)[s]
         /\ IsFiniteSet(Slots(Counted(f))) /\ Cardinality(Slots(Counted(f))) \in Nat
         /\ IsFiniteSet(EndedThreads(f)) /\ Cardinality(EndedThreads(f)) \in Nat
         /\ Cardinality(EndedThreads(f)) <= Cardinality(Slots(Counted(f)))
<1>1. ASSUME NEW k \in EndedThreads(f)
      PROVE  \E s \in Slots(Counted(f)) : k = ThreadAt(f)[s]
  <2>1. k \in Call /\ k.kind = "thread" /\ Target(k) = f /\ IsLast(k) /\ Ended(k)
    BY DEF EndedThreads
  <2>2. k.id \in Found /\ k = [kind |-> "thread", id |-> k.id, page |-> Replies[k.id]] /\ Home[k.id] = f
    BY <2>1, CallForm DEF AtPage, IsLast, PagesOf, Target
  <2>3. PICK c \in called : c.kind = "channel" /\ IsPage(c) /\ k.id \in ThreadsOn(c.id, c.page)
    BY <2>1, EndedInTurn DEF InTurn, Announced
  <2>4. c \in Call /\ c.page > 0
    BY <2>3 DEF DirInv, TypeOK, IsPage
  <2>5. c.id \in Channels /\ c.page \in 1..Len(Pages[c.id])
    BY <2>3, <2>4, CallForm
  <2>6. PICK i \in DOMAIN Pages[c.id][c.page] : k.id = Pages[c.id][c.page][i]
    BY <2>3 DEF ThreadsOn
  <2>7. c.id = f /\ i \in 1..Len(Pages[c.id][c.page])
    BY <2>2, <2>5, <2>6, PagesForm
  <2>8. c \in Counted(f)
    BY <2>3, <2>4, <2>7 DEF Counted
  <2>9. NumThreads(c) = Len(Pages[f][c.page])
    BY <2>3, <2>4, <2>7 DEF NumThreads, IsPage
  <2>10. <<c, i>> \in Slots(Counted(f))
    BY <2>7, <2>8, <2>9 DEF Slots
  <2> QED
    BY <2>2, <2>6, <2>7, <2>10 DEF ThreadAt
<1>2. IsFiniteSet(Slots(Counted(f))) /\ Cardinality(Slots(Counted(f))) \in Nat
  BY CountedForm, SlotsFinite
<1>3. DOMAIN ThreadAt(f) = Slots(Counted(f))
  BY DEF ThreadAt
<1> QED
  BY <1>1, <1>2, <1>3, Reached

\* A file with nothing left to come is over.
LEMMA ZeroIsOver ==
  ASSUME DirInv, failed = {}, NEW f \in tracked, count[f] <= 0
  PROVE  Over(f)
<1>1. f \in Targets /\ count[f] \in Int
  BY DEF DirInv, TypeOK
<1>2. count[f] = (IF OwnEnd(f) THEN 0 ELSE 1) + Cardinality(Slots(Counted(f))) - Cardinality(EndedThreads(f))
  BY DEF DirInv, CountIsOutstanding
<1>3. /\ IsFiniteSet(Slots(Counted(f))) /\ Cardinality(Slots(Counted(f))) \in Nat
      /\ Cardinality(EndedThreads(f)) \in Nat /\ Cardinality(EndedThreads(f)) <= Cardinality(Slots(Counted(f)))
  BY ThreadsPlaced
<1> DEFINE threadAt == ThreadAt(f)
<1>4. \A k \in EndedThreads(f) : \E s \in Slots(Counted(f)) : k = threadAt[s]
  BY ThreadsPlaced
<1>5. OwnEnd(f)
  BY <1>1, <1>2, <1>3
<1>6. PICK own \in Call : Target(own) = f /\ own.kind # "thread" /\ IsLast(own) /\ own.page > 0 /\ Ended(own)
  BY <1>5 DEF OwnEnd
<1>7. own.id = f /\ Before(own, called) /\ own.page = PagesOf(own.kind, f)
  BY <1>6, EndedInTurn DEF InTurn, Target, IsLast
<1>8. ASSUME NEW k \in Call, k.kind # "thread", Target(k) = f
      PROVE  Ended(k)
  <2>1. k.id = f /\ k.kind = own.kind
    BY <1>6, <1>7, <1>8, CallForm, CallsAssumption DEF Target
  <2>2. k = AtPage(own, k.page) /\ own = AtPage(own, own.page) /\ k.page \in FirstPage(own.kind)..own.page
    BY <1>6, <1>7, <1>8, <2>1, CallForm, CallParts DEF AtPage
  <2>3. CASE k.page = own.page
    BY <1>6, <2>2, <2>3
  <2>4. CASE k.page # own.page
    BY <1>7, <2>2, <2>4, CallParts DEF Before, Ended
  <2> QED
    BY <2>3, <2>4
<1>9. ASSUME NEW k \in Call, k.kind = "thread", Target(k) = f
      PROVE  Ended(k)
  <2> DEFINE end == AtPage(k, Replies[k.id])
  <2>1. /\ k.id \in Found /\ Home[k.id] = f /\ f \in Channels /\ k.page \in 1..Replies[k.id]
        /\ Replies[k.id] \in Nat \ {0} /\ k = AtPage(k, k.page)
    BY <1>9, CallForm, FoundForm, ThreadPages DEF Target
  <2>2. end \in Call /\ end.kind = "thread" /\ end.id = k.id /\ end.page = Replies[k.id] /\ Target(end) = f /\ IsLast(end)
    BY <1>9, <2>1, CallMade DEF AtPage, Target, IsLast, PagesOf
  \* Its place is on a page of the channel that has been counted.
  <2>3. PICK p \in 1..Len(Pages[f]) : \E i \in 1..Len(Pages[f][p]) : Pages[f][p][i] = k.id
    BY <2>1, FoundForm
  <2>4. PICK i \in 1..Len(Pages[f][p]) : Pages[f][p][i] = k.id
    BY <2>3
  <2> DEFINE c == [kind |-> "channel", id |-> f, page |-> p]
             slot == <<c, i>>
  <2>5. c \in Call /\ c.kind = "channel" /\ c.id = f /\ c.page = p /\ p > 0
    BY <2>1, CallMade, PagesForm
  <2>6. Ended(c)
    BY <1>8, <2>5 DEF Target
  <2>7. c \in Counted(f)
    BY <2>5, <2>6 DEF Ended, Past, Counted
  <2>8. NumThreads(c) = Len(Pages[f][p])
    BY <2>5 DEF NumThreads, IsPage
  <2>9. slot \in Slots(Counted(f)) /\ threadAt[slot] = end
    <3>1. slot \in Slots(Counted(f))
      BY <2>7, <2>8 DEF Slots
    <3> QED
      BY <3>1, <1>9, <2>4, <2>5 DEF AtPage, ThreadAt
  <2>10. Ended(end)
    <3>1. SUFFICES ASSUME ~Ended(end) PROVE FALSE
      OBVIOUS
    <3> DEFINE others == Slots(Counted(f)) \ {slot}
               elsewhere == [s \in others |-> threadAt[s]]
    <3>2. IsFiniteSet(others) /\ Cardinality(others) = Cardinality(Slots(Counted(f))) - 1
      <4> HIDE DEF slot
      <4> QED
        BY <1>3, <2>9, FS_RemoveElement
    <3>3. ASSUME NEW e \in EndedThreads(f)
          PROVE  \E s \in others : e = elsewhere[s]
      <4>1. PICK s \in Slots(Counted(f)) : e = threadAt[s]
        BY <1>4
      <4>2. e # end
        BY <3>1 DEF EndedThreads
      <4> HIDE DEF slot, threadAt, end
      <4>3. s # slot
        BY <2>9, <4>1, <4>2
      <4> QED
        BY <4>1, <4>3
    <3>4. DOMAIN elsewhere = others
      OBVIOUS
    <3>5. Cardinality(EndedThreads(f)) \in Nat /\ Cardinality(EndedThreads(f)) <= Cardinality(others)
      <4> HIDE DEF others, elsewhere
      <4> QED
        BY <3>2, <3>3, <3>4, Reached
    <3> HIDE DEF others
    <3> QED
      BY <1>1, <1>2, <1>3, <1>5, <3>2, <3>5
  <2>11. InTurn(end, called)
    BY <2>2, <2>10, EndedInTurn
  <2>12. CASE k.page = Replies[k.id]
    BY <2>1, <2>10, <2>12
  <2>13. CASE k.page # Replies[k.id]
    <3>1. k.page \in FirstPage(end.kind)..end.page - 1
      BY <2>1, <2>2, <2>13 DEF FirstPage
    <3>2. AtPage(end, k.page) \in called
      BY <2>11, <3>1 DEF InTurn, Before
    <3>3. AtPage(end, k.page) = k
      BY <2>1, <2>2, <1>9 DEF AtPage
    <3> QED
      BY <3>2, <3>3 DEF Ended
  <2> QED
    BY <2>12, <2>13
<1> QED
  BY <1>8, <1>9 DEF Over, CallsOf

\* A call in progress is that of no other worker.
LEMMA InProgress ==
  ASSUME DirInv, NEW w \in Workers, pc[w] # "idle"
  PROVE  /\ cur[w] \in Call /\ cur[w] # NoCall /\ WorkerOf(cur[w]) = w /\ cur[w] \notin called \cup failed
         /\ InTurn(cur[w], called) /\ Target(cur[w]) \in Targets /\ HomeOf(cur[w]) \in Targets
         /\ \A v \in Workers \ {w} : cur[v] # cur[w]
<1>1. cur[w] \in Call /\ WorkerOf(cur[w]) = w /\ cur[w] \notin called \cup failed /\ InTurn(cur[w], called)
  BY DEF DirInv, DirBusy, DirOrder
<1>2. cur[w] # NoCall /\ Target(cur[w]) \in Targets /\ HomeOf(cur[w]) \in Targets
  BY <1>1, CallForm, CallParts DEF Targets
<1>3. ASSUME NEW v \in Workers \ {w}
      PROVE  cur[v] # cur[w]
  <2>1. pc[v] = "idle" => cur[v] = NoCall
    BY DEF DirInv, DirBusy
  <2>2. pc[v] # "idle" => WorkerOf(cur[v]) = v
    BY DEF DirInv, DirBusy
  <2> QED
    BY <1>1, <1>2, <2>1, <2>2
<1> QED
  BY <1>1, <1>2, <1>3

Points == {"idle", "files", "recorder", "add", "write", "dec", "check", "unregister", "transform"}

LEMMA Went ==
  ASSUME DirInv, NEW w \in Workers, NEW l \in Points, Goto(w, l)
  PROVE  pc' \in [Workers -> Points] /\ pc'[w] = l /\ \A v \in Workers \ {w} : pc'[v] = pc[v]
BY DEF DirInv, TypeOK, Goto, Points

LEMMA Came ==
  ASSUME DirInv, NEW w \in Workers, Return(w)
  PROVE  /\ pc' \in [Workers -> Points] /\ cur' \in [Workers -> Call \cup {NoCall}]
         /\ pc'[w] = "idle" /\ cur'[w] = NoCall
         /\ \A v \in Workers \ {w} : pc'[v] = pc[v] /\ cur'[v] = cur[v]
<1>1. pc' \in [Workers -> Points] /\ pc'[w] = "idle" /\ \A v \in Workers \ {w} : pc'[v] = pc[v]
  BY Went DEF Return, Points
<1> QED
  BY <1>1 DEF Return, DirInv, TypeOK

\* A count is still right when the same calls have ended and as many threads are counted.
LEMMA CountKept ==
  ASSUME DirInv, NEW f \in tracked, failed = {}, count'[f] = count[f],
         \A x \in Call : Ended(x)' <=> Ended(x),
         Slots(Counted(f)') = Slots(Counted(f))
  PROVE  count'[f] = (IF OwnEnd(f)' THEN 0 ELSE 1) + Cardinality(Slots(Counted(f)')) - Cardinality(EndedThreads(f)')
<1>1. OwnEnd(f)' <=> OwnEnd(f)
  BY DEF OwnEnd
<1>2. EndedThreads(f)' = EndedThreads(f)
  BY DEF EndedThreads
<1> QED
  BY <1>1, <1>2 DEF DirInv, CountIsOutstanding

LEMMA DirInitInv == ASSUME Init PROVE DirInv
<1>1. /\ pc = [w \in Workers |-> "idle"] /\ cur = [w \in Workers |-> NoCall]
      /\ called = {} /\ written = {} /\ tracked = {} /\ finished = {} /\ failed = {} /\ stopped = FALSE
      /\ count \in [Targets -> Int] /\ transformed \in [Targets -> Nat]
  BY DEF Init
<1>3. TypeOK
  BY <1>1 DEF TypeOK
<1>4. DirBusy /\ DirAtEnd
  BY <1>1 DEF DirBusy, DirAtEnd
<1>2. DirOrder /\ DirKnown /\ DirWhole /\ CountIsOutstanding
  BY DEF Init, DirOrder, DirKnown, DirWhole, CountIsOutstanding, HasFile, HandsOver, Workers
<1> QED
  BY <1>2, <1>3, <1>4 DEF DirInv

LEMMA BeginKept == ASSUME DirInv, NEW w \in Workers, Begin(w) PROVE DirInv'
<1>1. PICK k \in Call : /\ Ready(w, k, called, failed)
                        /\ cur' = [cur EXCEPT ![w] = k]
                        /\ Goto(w, IF RecordFiles /\ k.page > 0 /\ k.id \in WithFiles THEN "files" ELSE "recorder")
  BY DEF Begin
<1>2. /\ pc[w] = "idle"
      /\ UNCHANGED <<called, tracked, count, finished, written, transformed, failed, stopped>>
  BY DEF Begin
<1>3. InTurn(k, called) /\ k \notin called \cup failed /\ WorkerOf(k) = w
  BY <1>1, ReadyInTurn DEF DirInv, DirOrder
<1>4. /\ pc' \in [Workers -> Points] /\ pc'[w] \in {"files", "recorder"}
      /\ \A v \in Workers \ {w} : pc'[v] = pc[v]
  BY <1>1, Went DEF Points
<1>5. cur' \in [Workers -> Call \cup {NoCall}] /\ cur'[w] = k /\ \A v \in Workers \ {w} : cur'[v] = cur[v]
  BY <1>1 DEF DirInv, TypeOK
<1>6. \A x \in Call : (Ended(x)' <=> Ended(x)) /\ (HasFile(x)' <=> HasFile(x))
  BY <1>2, <1>4, <1>5 DEF Ended, Past, HasFile
<1>7. \A f : Counted(f)' = Counted(f)
  BY <1>2, <1>4, <1>5 DEF Counted, DirInv, DirBusy, NoCall
<1>8. TypeOK'
  BY <1>2, <1>4, <1>5 DEF DirInv, TypeOK, Points
<1>9. DirBusy' /\ DirAtEnd'
  BY <1>2, <1>3, <1>4, <1>5 DEF DirInv, DirBusy, DirAtEnd
<1>10. DirOrder'
  BY <1>2, <1>3, <1>4, <1>5 DEF DirInv, DirOrder
<1>11. DirKnown'
  BY <1>2, <1>4, <1>5, <1>6 DEF DirInv, DirKnown
<1>12. DirWhole'
  <2>1. \A v \in Workers : HandsOver(v)' => v # w /\ HandsOver(v) /\ cur'[v] = cur[v]
    BY <1>4, <1>5 DEF HandsOver
  <2>2. \A f : Over(f) => Over(f)'
    BY <1>6 DEF Over, CallsOf
  <2> QED
    BY <1>2, <2>1, <2>2 DEF DirInv, DirWhole, Over
<1>13. CountIsOutstanding'
  BY <1>2, <1>6, <1>7, CountKept DEF CountIsOutstanding
<1> QED
  BY <1>8, <1>9, <1>10, <1>11, <1>12, <1>13 DEF DirInv

\* A worker that finds or makes the file of its call; l is where it goes on.
LEMMA RecorderKept ==
  ASSUME DirInv, NEW w \in Workers, NEW g \in Targets, NEW l \in {"recorder", "add", "write"}, Recorder(w, g, l),
         pc[w] \in {"files", "recorder"}, l # "recorder" => g = Target(cur[w]),
         l = "write" => NumThreads(cur[w]) = 0,
         UNCHANGED <<called, finished, written, transformed, stopped>>
  PROVE  DirInv'
<1>1. PICK k \in Call : k = cur[w]
  BY InProgress
<1>2. /\ k \notin called \cup failed /\ WorkerOf(k) = w /\ InTurn(k, called)
      /\ \A v \in Workers \ {w} : cur[v] # k
  BY <1>1, InProgress
<1>3. CASE g \notin tracked /\ g \in finished
  <2>1. failed' = failed \cup {k} /\ Return(w) /\ UNCHANGED <<tracked, count>>
    BY <1>1, <1>3 DEF Recorder
  <2>2. /\ pc' \in [Workers -> Points] /\ cur' \in [Workers -> Call \cup {NoCall}]
        /\ pc'[w] = "idle" /\ cur'[w] = NoCall
        /\ \A v \in Workers \ {w} : pc'[v] = pc[v] /\ cur'[v] = cur[v]
    BY <2>1, Came
  <2>3. TypeOK'
    BY <2>1, <2>2 DEF DirInv, TypeOK, Points
  <2>4. DirBusy' /\ DirAtEnd'
    BY <1>2, <2>1, <2>2 DEF DirInv, DirBusy, DirAtEnd
  <2>5. DirOrder'
    BY <2>1, <2>2 DEF DirInv, DirOrder
  <2>6. \A x \in Call : HasFile(x)' => HasFile(x)
    BY <2>1, <2>2 DEF HasFile
  <2>7. DirKnown'
    BY <2>1, <2>2, <2>6 DEF DirInv, DirKnown
  <2> QED
    BY <2>1, <2>3, <2>4, <2>5, <2>7 DEF DirInv, DirWhole, CountIsOutstanding
<1>4. CASE ~(g \notin tracked /\ g \in finished)
  <2>1. /\ Goto(w, l) /\ UNCHANGED <<cur, failed>>
        /\ \/ g \in tracked /\ UNCHANGED <<tracked, count>>
           \/ g \notin tracked \cup finished /\ tracked' = tracked \cup {g} /\ count' = [count EXCEPT ![g] = 1]
    BY <1>4 DEF Recorder
  <2>2. pc' \in [Workers -> Points] /\ pc'[w] = l /\ \A v \in Workers \ {w} : pc'[v] = pc[v]
    BY <2>1, Went DEF Points
  <2>3. \A x \in Call : Ended(x)' <=> Ended(x)
    BY <2>1, <2>2 DEF Ended, Past
  <2>4. \A x \in Call : HasFile(x)' <=> HasFile(x) \/ (x = k /\ l # "recorder")
    BY <1>1, <2>1, <2>2 DEF HasFile
  <2>5. ASSUME NEW f
        PROVE  Slots(Counted(f)') = Slots(Counted(f))
    <3>1. Counted(f)' = Counted(f) \/ (l = "write" /\ Counted(f)' = Counted(f) \cup {k})
      BY <1>1, <1>2, <2>1, <2>2 DEF Counted
    <3>2. l = "write" => NumThreads(k) = 0
      BY <1>1
    <3>3. ASSUME NEW S, NumThreads(k) = 0
          PROVE  Slots(S \cup {k}) = Slots(S)
      BY <3>3 DEF Slots
    <3> QED
      BY <3>1, <3>2, <3>3
  <2>6. TypeOK'
    BY <2>1, <2>2 DEF DirInv, TypeOK, Points
  <2>7. DirBusy' /\ DirAtEnd'
    BY <2>1, <2>2 DEF DirInv, DirBusy, DirAtEnd
  <2>8. DirOrder'
    BY <2>1, <2>2 DEF DirInv, DirOrder
  <2>9. DirKnown'
    BY <1>1, <2>1, <2>2, <2>4 DEF DirInv, DirKnown
  <2>10. DirWhole'
    <3>1. \A v \in Workers : HandsOver(v)' => HandsOver(v)
      BY <2>1, <2>2 DEF HandsOver
    <3>2. \A f : Over(f) => Over(f)'
      BY <2>3 DEF Over, CallsOf
    <3> QED
      BY <2>1, <3>1, <3>2 DEF DirInv, DirWhole, Over
  <2>11. CountIsOutstanding'
    <3> SUFFICES ASSUME failed' = {}, NEW f \in tracked'
                 PROVE  count'[f] = (IF OwnEnd(f)' THEN 0 ELSE 1) + Cardinality(Slots(Counted(f)'))
                                      - Cardinality(EndedThreads(f)')
      BY DEF CountIsOutstanding
    <3>1. CASE f \in tracked
      <4>1. count'[f] = count[f]
        BY <2>1, <3>1 DEF DirInv, TypeOK
      <4> QED
        BY <2>1, <2>3, <2>5, <3>1, <4>1, CountKept
    <3>2. CASE f \notin tracked
      <4>1. f = g /\ g \notin tracked \cup finished /\ count'[f] = 1
        BY <2>1, <3>2 DEF DirInv, TypeOK
      <4>2. \A x \in Call : HasFile(x) => Target(x) # f
        BY <4>1 DEF DirInv, DirKnown
      <4>3. \A x \in Call : Ended(x) => HasFile(x)
        BY DEF Ended, Past, HasFile
      <4>4. ~OwnEnd(f)' /\ EndedThreads(f)' = {}
        BY <2>3, <4>2, <4>3 DEF OwnEnd, EndedThreads
      <4>5. Counted(f) = {}
        <5>1. SUFFICES ASSUME NEW x \in Counted(f) PROVE FALSE
          OBVIOUS
        <5>2. x \in Call /\ x.kind = "channel" /\ x.id = f
          BY DEF Counted
        <5>3. x # NoCall
          BY <5>2, CallForm
        <5>4. HasFile(x)
          BY <5>2, <5>3 DEF Counted, HasFile, DirInv, DirBusy
        <5> QED
          BY <4>2, <5>2, <5>4 DEF Target
      <4>6. Slots(Counted(f)') = {}
        BY <2>5, <4>5 DEF Slots
      <4> QED
        BY <4>1, <4>4, <4>6, FS_EmptySet
    <3> QED
      BY <3>1, <3>2
  <2> QED
    BY <2>6, <2>7, <2>8, <2>9, <2>10, <2>11 DEF DirInv
<1> QED
  BY <1>3, <1>4

LEMMA RecordFileChunkKept == ASSUME DirInv, NEW w \in Workers, RecordFileChunk(w) PROVE DirInv'
<1>1. pc[w] = "files" /\ FilesFileID(cur[w]) \in Targets
  BY InProgress DEF RecordFileChunk, FilesFileID
<1>2. Recorder(w, FilesFileID(cur[w]), "recorder") /\ UNCHANGED <<called, finished, written, transformed, stopped>>
  BY DEF RecordFileChunk
<1> QED
  BY <1>1, <1>2, RecorderKept

LEMMA GetRecorderKept == ASSUME DirInv, NEW w \in Workers, GetRecorder(w) PROVE DirInv'
<1> DEFINE l == IF NumThreads(cur[w]) > 0 THEN "add" ELSE "write"
<1>1. /\ pc[w] = "recorder" /\ Target(cur[w]) \in Targets /\ Recorder(w, Target(cur[w]), l)
      /\ UNCHANGED <<called, finished, written, transformed, stopped>>
  BY InProgress DEF GetRecorder
<1>2. NumThreads(cur[w]) \in Nat
  BY <1>1, InProgress, CallParts
<1>3. l \in {"recorder", "add", "write"} /\ (l = "write" => NumThreads(cur[w]) = 0)
  BY <1>2
<1> HIDE DEF l
<1> QED
  BY <1>1, <1>3, RecorderKept
LEMMA AddThreadsKept == ASSUME DirInv, NEW w \in Workers, AddThreads(w) PROVE DirInv'
<1>1. PICK k \in Call : k = cur[w]
  BY InProgress DEF AddThreads
<1>2. /\ k \notin called \cup failed /\ Target(k) \in Targets /\ NumThreads(k) \in Nat
      /\ \A v \in Workers \ {w} : cur[v] # k
  BY <1>1, InProgress, CallParts DEF AddThreads
<1>3. /\ pc[w] = "add" /\ count' = [count EXCEPT ![Target(k)] = @ + NumThreads(k)] /\ Goto(w, "write")
      /\ UNCHANGED <<cur, called, tracked, finished, written, transformed, failed, stopped>>
  BY <1>1 DEF AddThreads
<1>4. pc' \in [Workers -> Points] /\ pc'[w] = "write" /\ \A v \in Workers \ {w} : pc'[v] = pc[v]
  BY <1>3, Went DEF Points
<1>5. count' \in [Targets -> Int] /\ \A f \in Targets \ {Target(k)} : count'[f] = count[f]
  BY <1>2, <1>3 DEF DirInv, TypeOK
<1>6. \A x \in Call : (Ended(x)' <=> Ended(x)) /\ (HasFile(x)' <=> HasFile(x))
  BY <1>3, <1>4 DEF Ended, Past, HasFile
<1>7. TypeOK'
  BY <1>3, <1>4, <1>5 DEF DirInv, TypeOK, Points
<1>8. DirBusy' /\ DirAtEnd'
  BY <1>3, <1>4 DEF DirInv, DirBusy, DirAtEnd
<1>9. DirOrder'
  BY <1>3, <1>4 DEF DirInv, DirOrder
<1>10. DirKnown'
  BY <1>3, <1>4, <1>6 DEF DirInv, DirKnown
<1>11. DirWhole'
  <2>1. \A v \in Workers : HandsOver(v)' => HandsOver(v)
    BY <1>3, <1>4 DEF HandsOver
  <2>2. \A f : Over(f) => Over(f)'
    BY <1>6 DEF Over, CallsOf
  <2> QED
    BY <1>3, <2>1, <2>2 DEF DirInv, DirWhole, Over
<1>12. CountIsOutstanding'
  <2> SUFFICES ASSUME failed' = {}, NEW f \in tracked'
               PROVE  count'[f] = (IF OwnEnd(f)' THEN 0 ELSE 1) + Cardinality(Slots(Counted(f)'))
                                    - Cardinality(EndedThreads(f)')
    BY DEF CountIsOutstanding
  <2>1. f \in tracked /\ f \in Targets /\ failed = {}
    BY <1>3 DEF DirInv, TypeOK
  <2> DEFINE isPage == k.kind = "channel" /\ k.page > 0
  <2>2. CASE f = Target(k) /\ isPage
    <3>1. f = k.id /\ count'[f] = count[f] + NumThreads(k)
      BY <1>2, <1>3, <2>1, <2>2 DEF DirInv, TypeOK, Target
    <3>2. k \notin Counted(f)
      BY <1>2, <1>3, <1>1 DEF Counted
    <3>3. Counted(f)' = Counted(f) \cup {k}
      BY <1>1, <1>3, <1>4, <2>2, <3>1 DEF Counted
    <3>4. Cardinality(Slots(Counted(f)')) = Cardinality(Slots(Counted(f))) + NumThreads(k)
      <4>1. PICK S : S = Counted(f)
        OBVIOUS
      <4>2. \A x \in S : x \in Call /\ x.kind = "channel" /\ x.id = f /\ x.page > 0
        BY <4>1, CountedForm
      <4>3. k \notin S /\ k.kind = "channel" /\ k.id = f /\ k.page > 0
        BY <2>2, <3>1, <3>2, <4>1
      <4>4. Cardinality(Slots(S \cup {k})) = Cardinality(Slots(S)) + NumThreads(k)
        BY <4>2, <4>3, SlotsAdd
      <4> QED
        BY <3>3, <4>1, <4>4
    <3>5. (OwnEnd(f)' <=> OwnEnd(f)) /\ EndedThreads(f)' = EndedThreads(f)
      BY <1>6 DEF OwnEnd, EndedThreads
    <3>6. count[f] = (IF OwnEnd(f) THEN 0 ELSE 1) + Cardinality(Slots(Counted(f))) - Cardinality(EndedThreads(f))
      BY <2>1 DEF DirInv, CountIsOutstanding
    <3>7. Cardinality(Slots(Counted(f))) \in Nat /\ Cardinality(EndedThreads(f)) \in Nat
      BY ThreadsPlaced
    <3> QED
      BY <1>2, <3>1, <3>4, <3>5, <3>6, <3>7
  <2>3. CASE ~(f = Target(k) /\ isPage)
    <3>1. count'[f] = count[f]
      <4>1. CASE f # Target(k)
        BY <1>5, <2>1, <4>1
      <4>2. CASE ~isPage /\ f = Target(k)
        <5>1. NumThreads(k) = 0
          BY <4>2 DEF NumThreads, IsPage
        <5>2. count[f] \in Int
          BY <2>1 DEF DirInv, TypeOK
        <5> QED
          BY <1>3, <2>1, <4>2, <5>1, <5>2 DEF DirInv, TypeOK
      <4> QED
        BY <2>3, <4>1, <4>2
    <3>2. Counted(f)' = Counted(f)
      BY <1>1, <1>3, <1>4, <2>3 DEF Counted, Target
    <3> QED
      BY <1>6, <2>1, <3>1, <3>2, CountKept
  <2> QED
    BY <2>2, <2>3
<1> QED
  BY <1>7, <1>8, <1>9, <1>10, <1>11, <1>12 DEF DirInv

\* A call returns an error: nothing is asked of the counts any more.
LEMMA FailKept ==
  ASSUME DirInv, NEW w \in Workers, pc[w] # "idle", failed' = failed \cup {cur[w]}, Return(w),
         transformed' \in [Targets -> Nat],
         UNCHANGED <<called, tracked, count, finished, written, stopped>>
  PROVE  DirInv'
<1>1. PICK k \in Call : k = cur[w]
  BY InProgress
<1>2. k \notin called /\ \A v \in Workers \ {w} : cur[v] # k
  BY <1>1, InProgress
<1>3. failed' = failed \cup {k}
  BY <1>1
<1>4. /\ pc' \in [Workers -> Points] /\ cur' \in [Workers -> Call \cup {NoCall}]
      /\ pc'[w] = "idle" /\ cur'[w] = NoCall
      /\ \A v \in Workers \ {w} : pc'[v] = pc[v] /\ cur'[v] = cur[v]
  BY Came
<1>5. TypeOK'
  BY <1>3, <1>4 DEF DirInv, TypeOK, Points
<1>6. DirBusy' /\ DirAtEnd'
  BY <1>2, <1>3, <1>4 DEF DirInv, DirBusy, DirAtEnd
<1>7. DirOrder'
  BY <1>4 DEF DirInv, DirOrder
<1>8. \A x \in Call : HasFile(x)' => HasFile(x)
  BY <1>4 DEF HasFile
<1>9. DirKnown'
  BY <1>4, <1>8 DEF DirInv, DirKnown
<1> QED
  BY <1>3, <1>5, <1>6, <1>7, <1>9 DEF DirInv, DirWhole, CountIsOutstanding

\* A call returns nil, having ended if it is a last page.
LEMMA ReturnKept ==
  ASSUME DirInv, NEW w \in Workers, pc[w] \notin {"idle", "files", "recorder", "add"}, called' = called \cup {cur[w]}, Return(w),
         cur[w].page > 0 /\ IsLast(cur[w]) => pc[w] \in {"check", "unregister", "transform"},
         written' = written \cup {cur[w]}, transformed' \in [Targets -> Nat],
         UNCHANGED <<failed, tracked, count, finished, stopped>>
  PROVE  DirInv'
<1>1. PICK k \in Call : k = cur[w]
  BY InProgress
<1>2. k \notin called \cup failed /\ InTurn(k, called) /\ \A v \in Workers \ {w} : cur[v] # k
  BY <1>1, InProgress
<1>3. called' = called \cup {k} /\ written' = written \cup {k}
  BY <1>1
<1>4. /\ pc' \in [Workers -> Points] /\ cur' \in [Workers -> Call \cup {NoCall}]
      /\ pc'[w] = "idle" /\ cur'[w] = NoCall
      /\ \A v \in Workers \ {w} : pc'[v] = pc[v] /\ cur'[v] = cur[v]
  BY Came
<1>5. TypeOK'
  BY <1>3, <1>4 DEF DirInv, TypeOK, Points
<1>6. DirBusy' /\ DirAtEnd'
  BY <1>2, <1>3, <1>4 DEF DirInv, DirBusy, DirAtEnd
<1>7. DirOrder'
  <2>1. \A x : InTurn(x, called) => InTurn(x, called')
    BY <1>3, InTurnStays
  <2> QED
    BY <1>2, <1>3, <1>4, <2>1 DEF DirInv, DirOrder
<1>8. \A x \in Call : HasFile(x)' <=> HasFile(x)
  BY <1>1, <1>3, <1>4 DEF HasFile
<1>9. DirKnown'
  BY <1>4, <1>8 DEF DirInv, DirKnown
<1>10. \A x \in Call : Ended(x)' <=> Ended(x) \/ x = k
  BY <1>1, <1>3, <1>4 DEF Ended, Past
<1>11. k.page > 0 /\ IsLast(k) => Ended(k)
  BY <1>1 DEF Ended, Past
<1>12. DirWhole'
  <2>1. \A v \in Workers : HandsOver(v)' => v # w /\ HandsOver(v) /\ cur'[v] = cur[v]
    BY <1>4 DEF HandsOver
  <2>2. \A f : Over(f) => Over(f)'
    BY <1>10 DEF Over, CallsOf
  <2> QED
    BY <2>1, <2>2 DEF DirInv, DirWhole, Over
<1>13. CountIsOutstanding'
  <2> SUFFICES ASSUME failed' = {}, NEW f \in tracked'
               PROVE  count'[f] = (IF OwnEnd(f)' THEN 0 ELSE 1) + Cardinality(Slots(Counted(f)'))
                                    - Cardinality(EndedThreads(f)')
    BY DEF CountIsOutstanding
  <2>1. f \in tracked /\ failed = {} /\ count'[f] = count[f]
    OBVIOUS
  <2>2. Counted(f)' = Counted(f)
    BY <1>1, <1>3, <1>4 DEF Counted, NoCall
  <2>3. OwnEnd(f)' <=> OwnEnd(f)
    BY <1>10, <1>11 DEF OwnEnd
  <2>4. EndedThreads(f)' = EndedThreads(f)
    <3>1. \A x \in Call : x.kind = "thread" => x.page > 0
      BY CallForm, ThreadPages, FoundForm
    <3> QED
      BY <1>10, <1>11, <3>1 DEF EndedThreads
  <2> QED
    BY <2>1, <2>2, <2>3, <2>4 DEF DirInv, CountIsOutstanding
<1> QED
  BY <1>5, <1>6, <1>7, <1>9, <1>12, <1>13 DEF DirInv
LEMMA WriteChunkKept == ASSUME DirInv, NEW w \in Workers, WriteChunk(w) PROVE DirInv'
<1>1. PICK k \in Call : k = cur[w]
  BY InProgress DEF WriteChunk
<1>2. pc[w] = "write" /\ UNCHANGED <<tracked, count, finished, transformed, stopped>>
  BY DEF WriteChunk
<1>3. transformed' \in [Targets -> Nat]
  BY <1>2 DEF DirInv, TypeOK
<1>4. CASE failed' = failed \cup {cur[w]} /\ Return(w) /\ UNCHANGED <<written, called>>
  BY <1>2, <1>3, <1>4, FailKept
<1>5. CASE /\ Return(w) /\ called' = called \cup {cur[w]} /\ written' = written \cup {cur[w]}
           /\ UNCHANGED failed /\ ~(cur[w].page > 0 /\ IsLast(cur[w]))
  BY <1>2, <1>3, <1>5, ReturnKept
<1>6. CASE /\ Goto(w, "dec") /\ UNCHANGED <<cur, called, failed>> /\ written' = written \cup {cur[w]}
           /\ cur[w].page > 0 /\ IsLast(cur[w])
  <2>1. pc' \in [Workers -> Points] /\ pc'[w] = "dec" /\ \A v \in Workers \ {w} : pc'[v] = pc[v]
    BY <1>6, Went DEF Points
  <2>2. \A x \in Call : (Ended(x)' <=> Ended(x)) /\ (HasFile(x)' <=> HasFile(x))
    BY <1>2, <1>6, <2>1 DEF Ended, Past, HasFile
  <2>3. \A f : Counted(f)' = Counted(f)
    BY <1>2, <1>6, <2>1 DEF Counted
  <2>4. TypeOK'
    BY <1>1, <1>2, <1>6, <2>1 DEF DirInv, TypeOK, Points
  <2>5. DirBusy' /\ DirAtEnd'
    BY <1>2, <1>6, <2>1 DEF DirInv, DirBusy, DirAtEnd
  <2>6. DirOrder'
    BY <1>2, <1>6, <2>1 DEF DirInv, DirOrder
  <2>7. DirKnown'
    BY <1>2, <1>6, <2>1, <2>2 DEF DirInv, DirKnown
  <2>8. DirWhole'
    <3>1. \A v \in Workers : HandsOver(v)' => HandsOver(v)
      BY <2>1 DEF HandsOver
    <3>2. \A f : Over(f) => Over(f)'
      BY <2>2 DEF Over, CallsOf
    <3> QED
      BY <1>2, <1>6, <3>1, <3>2 DEF DirInv, DirWhole, Over
  <2>9. CountIsOutstanding'
    BY <1>2, <1>6, <2>2, <2>3, CountKept DEF CountIsOutstanding
  <2> QED
    BY <2>4, <2>5, <2>6, <2>7, <2>8, <2>9 DEF DirInv
<1> QED
  BY <1>4, <1>5, <1>6 DEF WriteChunk

LEMMA DecrementKept == ASSUME DirInv, NEW w \in Workers, Decrement(w) PROVE DirInv'
<1>1. PICK k \in Call : k = cur[w]
  BY InProgress DEF Decrement
<1>2. /\ pc[w] = "dec" /\ count' = [count EXCEPT ![Target(k)] = @ - 1] /\ Goto(w, "check")
      /\ UNCHANGED <<cur, called, tracked, finished, written, transformed, failed, stopped>>
  BY <1>1 DEF Decrement
<1>3. /\ k \notin called \cup failed /\ Target(k) \in Targets /\ IsLast(k) /\ k.page > 0
      /\ \A v \in Workers \ {w} : cur[v] # k
  BY <1>1, <1>2, InProgress DEF DirInv, DirAtEnd
<1>4. pc' \in [Workers -> Points] /\ pc'[w] = "check" /\ \A v \in Workers \ {w} : pc'[v] = pc[v]
  BY <1>2, Went DEF Points
<1>5. /\ count' \in [Targets -> Int] /\ count'[Target(k)] = count[Target(k)] - 1
      /\ \A f \in Targets \ {Target(k)} : count'[f] = count[f]
  BY <1>2, <1>3 DEF DirInv, TypeOK
<1>6. \A x \in Call : (Ended(x)' <=> Ended(x) \/ x = k) /\ (HasFile(x)' <=> HasFile(x))
  BY <1>1, <1>2, <1>4 DEF Ended, Past, HasFile
<1>7. ~Ended(k)
  BY <1>2, <1>3 DEF Ended, Past
<1>8. TypeOK'
  BY <1>2, <1>4, <1>5 DEF DirInv, TypeOK, Points
<1>9. DirBusy' /\ DirAtEnd'
  BY <1>2, <1>4 DEF DirInv, DirBusy, DirAtEnd
<1>10. DirOrder'
  BY <1>2, <1>4 DEF DirInv, DirOrder
<1>11. DirKnown'
  BY <1>2, <1>4, <1>6 DEF DirInv, DirKnown
<1>12. DirWhole'
  <2>1. \A v \in Workers : HandsOver(v)' => HandsOver(v)
    BY <1>4 DEF HandsOver
  <2>2. \A f : Over(f) => Over(f)'
    BY <1>6 DEF Over, CallsOf
  <2> QED
    BY <1>2, <2>1, <2>2 DEF DirInv, DirWhole, Over
<1>13. CountIsOutstanding'
  <2> SUFFICES ASSUME failed' = {}, NEW f \in tracked'
               PROVE  count'[f] = (IF OwnEnd(f)' THEN 0 ELSE 1) + Cardinality(Slots(Counted(f)'))
                                    - Cardinality(EndedThreads(f)')
    BY DEF CountIsOutstanding
  <2>1. f \in tracked /\ f \in Targets /\ failed = {} /\ count[f] \in Int
    BY <1>2 DEF DirInv, TypeOK
  <2>2. Counted(f)' = Counted(f)
    BY <1>2, <1>4 DEF Counted
  <2>3. count[f] = (IF OwnEnd(f) THEN 0 ELSE 1) + Cardinality(Slots(Counted(f))) - Cardinality(EndedThreads(f))
    BY <2>1 DEF DirInv, CountIsOutstanding
  <2>4. /\ Cardinality(Slots(Counted(f))) \in Nat
        /\ IsFiniteSet(EndedThreads(f)) /\ Cardinality(EndedThreads(f)) \in Nat
    BY ThreadsPlaced
  <2>5. CASE f # Target(k)
    <3>1. (OwnEnd(f)' <=> OwnEnd(f)) /\ EndedThreads(f)' = EndedThreads(f)
      BY <1>6, <2>5 DEF OwnEnd, EndedThreads
    <3> QED
      BY <1>5, <2>1, <2>2, <2>3, <2>5, <3>1
  <2>6. CASE f = Target(k) /\ k.kind = "thread"
    <3>1. OwnEnd(f)' <=> OwnEnd(f)
      BY <1>6, <2>6 DEF OwnEnd
    <3>2. EndedThreads(f)' = EndedThreads(f) \cup {k} /\ k \notin EndedThreads(f)
      BY <1>3, <1>6, <1>7, <2>6 DEF EndedThreads
    <3>3. Cardinality(EndedThreads(f)') = Cardinality(EndedThreads(f)) + 1
      BY <2>4, <3>2, FS_AddElement
    <3> QED
      BY <1>5, <2>2, <2>3, <2>4, <2>6, <3>1, <3>3
  <2>7. CASE f = Target(k) /\ k.kind # "thread"
    <3>1. OwnEnd(f)'
      BY <1>3, <1>6, <2>7 DEF OwnEnd
    <3>2. ~OwnEnd(f)
      <4>1. SUFFICES ASSUME NEW x \in Call, Target(x) = f, x.kind # "thread", IsLast(x), Ended(x) PROVE FALSE
        BY DEF OwnEnd
      <4>2. x.id = f /\ k.id = f /\ x = AtPage(x, x.page) /\ k = AtPage(k, k.page)
        BY <2>7, <4>1, CallForm DEF Target
      <4>3. x.kind = k.kind
        BY <2>7, <4>1, <4>2, CallForm, CallsAssumption
      <4>4. x.page = k.page
        BY <1>3, <4>1, <4>2, <4>3 DEF IsLast
      <4>5. x = k
        BY <4>2, <4>3, <4>4 DEF AtPage
      <4> QED
        BY <1>7, <4>1, <4>5
    <3>3. EndedThreads(f)' = EndedThreads(f)
      BY <1>6, <2>7 DEF EndedThreads
    <3> QED
      BY <1>5, <2>2, <2>3, <2>4, <2>7, <3>1, <3>2, <3>3
  <2> QED
    BY <2>5, <2>6, <2>7
<1> QED
  BY <1>8, <1>9, <1>10, <1>11, <1>12, <1>13 DEF DirInv

LEMMA CheckCountKept == ASSUME DirInv, NEW w \in Workers, CheckCount(w) PROVE DirInv'
<1>1. PICK k \in Call : k = cur[w]
  BY InProgress DEF CheckCount
<1>2. pc[w] = "check" /\ UNCHANGED <<tracked, count, finished, written, transformed, failed, stopped>>
  BY DEF CheckCount
<1>3. Target(k) \in Targets /\ k \in written /\ Target(k) \in tracked \cup finished
  BY <1>1, <1>2, InProgress DEF DirInv, DirAtEnd, DirKnown, HasFile
<1>4. CASE Return(w) /\ called' = called \cup {cur[w]}
  <2>1. transformed' \in [Targets -> Nat] /\ written' = written \cup {cur[w]}
    BY <1>1, <1>2, <1>3 DEF DirInv, TypeOK
  <2> QED
    BY <1>2, <1>4, <2>1, ReturnKept
<1>5. CASE ~(RefCount(Target(k)) > 0) /\ Goto(w, "unregister") /\ UNCHANGED <<cur, called>>
  <2>1. pc' \in [Workers -> Points] /\ pc'[w] = "unregister" /\ \A v \in Workers \ {w} : pc'[v] = pc[v]
    BY <1>5, Went DEF Points
  <2>2. \A x \in Call : (Ended(x)' <=> Ended(x)) /\ (HasFile(x)' <=> HasFile(x))
    BY <1>2, <1>5, <2>1 DEF Ended, Past, HasFile
  <2>3. \A f : Counted(f)' = Counted(f)
    BY <1>2, <1>5, <2>1 DEF Counted
  <2>4. TypeOK'
    BY <1>2, <1>5, <2>1 DEF DirInv, TypeOK, Points
  <2>5. DirBusy' /\ DirAtEnd'
    BY <1>2, <1>5, <2>1 DEF DirInv, DirBusy, DirAtEnd
  <2>6. DirOrder'
    BY <1>2, <1>5, <2>1 DEF DirInv, DirOrder
  <2>7. DirKnown'
    BY <1>2, <1>5, <2>1, <2>2 DEF DirInv, DirKnown
  <2>8. failed = {} => Over(Target(k))
    <3>1. CASE Target(k) \in tracked
      <4>1. count[Target(k)] \in Int /\ count[Target(k)] <= 0
        BY <1>3, <1>5, <3>1 DEF RefCount, DirInv, TypeOK
      <4> QED
        BY <3>1, <4>1, ZeroIsOver
    <3>2. CASE Target(k) \in finished
      BY <3>2 DEF DirInv, DirWhole
    <3> QED
      BY <1>3, <3>1, <3>2
  <2>9. DirWhole'
    <3>1. \A v \in Workers : HandsOver(v)' => HandsOver(v) \/ v = w
      BY <2>1 DEF HandsOver
    <3>2. \A f : Over(f) => Over(f)'
      BY <2>2 DEF Over, CallsOf
    <3> QED
      BY <1>1, <1>2, <1>5, <2>8, <3>1, <3>2 DEF DirInv, DirWhole, Over
  <2>10. CountIsOutstanding'
    BY <1>2, <1>5, <2>2, <2>3, CountKept DEF CountIsOutstanding
  <2> QED
    BY <2>4, <2>5, <2>6, <2>7, <2>9, <2>10 DEF DirInv
<1> QED
  BY <1>1, <1>4, <1>5 DEF CheckCount

LEMMA UnregisterKept == ASSUME DirInv, NEW w \in Workers, Unregister(w) PROVE DirInv'
<1>1. PICK k \in Call : k = cur[w]
  BY InProgress DEF Unregister
<1>2. /\ pc[w] = "unregister" /\ tracked' = tracked \ {Target(k)} /\ finished' = finished \cup (tracked \cap {Target(k)})
      /\ Goto(w, "transform") /\ UNCHANGED <<cur, called, count, written, transformed, failed, stopped>>
  BY <1>1 DEF Unregister
<1>3. Target(k) \in Targets /\ k \in written /\ Target(k) \in tracked \cup finished
  BY <1>1, <1>2, InProgress DEF DirInv, DirAtEnd, DirKnown, HasFile
<1>4. pc' \in [Workers -> Points] /\ pc'[w] = "transform" /\ \A v \in Workers \ {w} : pc'[v] = pc[v]
  BY <1>2, Went DEF Points
<1>5. \A x \in Call : (Ended(x)' <=> Ended(x)) /\ (HasFile(x)' <=> HasFile(x))
  BY <1>2, <1>4 DEF Ended, Past, HasFile
<1>6. \A f : Counted(f)' = Counted(f)
  BY <1>2, <1>4 DEF Counted
<1>7. TypeOK'
  BY <1>2, <1>3, <1>4 DEF DirInv, TypeOK, Points
<1>8. DirBusy' /\ DirAtEnd'
  BY <1>2, <1>4 DEF DirInv, DirBusy, DirAtEnd
<1>9. DirOrder'
  BY <1>2, <1>4 DEF DirInv, DirOrder
<1>10. DirKnown'
  BY <1>1, <1>2, <1>3, <1>4, <1>5 DEF DirInv, DirKnown
<1>11. DirWhole'
  <2>1. \A v \in Workers : HandsOver(v)' => HandsOver(v)
    BY <1>2, <1>4 DEF HandsOver
  <2>2. \A f : Over(f) => Over(f)'
    BY <1>5 DEF Over, CallsOf
  <2>3. failed = {} => Over(Target(k))
    BY <1>1, <1>2 DEF DirInv, DirWhole, HandsOver
  <2> QED
    BY <1>2, <2>1, <2>2, <2>3 DEF DirInv, DirWhole, Over
<1>12. CountIsOutstanding'
  BY <1>2, <1>5, <1>6, CountKept DEF CountIsOutstanding
<1> QED
  BY <1>7, <1>8, <1>9, <1>10, <1>11, <1>12 DEF DirInv

LEMMA CallTransformKept == ASSUME DirInv, NEW w \in Workers, CallTransform(w) PROVE DirInv'
<1>1. pc[w] = "transform" /\ Return(w) /\ UNCHANGED <<tracked, count, finished, written, stopped>>
  BY DEF CallTransform
<1>2. transformed' \in [Targets -> Nat] /\ written = written \cup {cur[w]}
  BY <1>1, InProgress DEF CallTransform, DirInv, TypeOK, DirAtEnd
<1>3. CASE called' = called \cup {cur[w]} /\ UNCHANGED failed
  BY <1>1, <1>2, <1>3, ReturnKept
<1>4. CASE failed' = failed \cup {cur[w]} /\ UNCHANGED called
  BY <1>1, <1>2, <1>4, FailKept
<1> QED
  BY <1>3, <1>4 DEF CallTransform
LEMMA CloseAllKept == ASSUME DirInv, CloseAll PROVE DirInv'
<1>1. /\ (failed # {}) \/ called = Call
      /\ tracked' = {} /\ finished' = finished \cup tracked /\ stopped' = TRUE
      /\ UNCHANGED <<pc, cur, called, count, written, transformed, failed>>
  BY DEF CloseAll, AllDone
<1>2. \A x \in Call : (Ended(x)' <=> Ended(x)) /\ (HasFile(x)' <=> HasFile(x))
  BY <1>1 DEF Ended, Past, HasFile
<1>3. TypeOK'
  BY <1>1 DEF DirInv, TypeOK
<1>4. DirBusy' /\ DirAtEnd' /\ DirOrder'
  BY <1>1 DEF DirInv, DirBusy, DirAtEnd, DirOrder
<1>5. DirKnown'
  BY <1>1, <1>2 DEF DirInv, DirKnown
<1>6. DirWhole'
  <2>1. SUFFICES ASSUME failed = {} PROVE DirWhole'
    BY <1>1 DEF DirWhole
  <2>2. \A f : Over(f)'
    BY <1>1, <1>2, <2>1 DEF Over, CallsOf, Ended
  <2> QED
    BY <2>2 DEF DirWhole, Over
<1>7. CountIsOutstanding'
  BY <1>1 DEF CountIsOutstanding
<1> QED
  BY <1>3, <1>4, <1>5, <1>6, <1>7 DEF DirInv

LEMMA DirIdle == ASSUME DirInv, UNCHANGED vars PROVE DirInv'
<1>1. UNCHANGED <<pc, cur, called, tracked, count, finished, written, transformed, failed, stopped>>
  BY DEF vars
<1>2. \A x \in Call : (Ended(x)' <=> Ended(x)) /\ (HasFile(x)' <=> HasFile(x))
  BY <1>1 DEF Ended, Past, HasFile
<1>3. TypeOK' /\ DirBusy' /\ DirAtEnd' /\ DirOrder'
  BY <1>1 DEF DirInv, TypeOK, DirBusy, DirAtEnd, DirOrder
<1>4. DirKnown'
  BY <1>1, <1>2 DEF DirInv, DirKnown
<1>5. DirWhole'
  BY <1>1, <1>2 DEF DirInv, DirWhole, HandsOver, Over, CallsOf
<1>6. CountIsOutstanding'
  <2>1. \A f : Counted(f)' = Counted(f)
    BY <1>1 DEF Counted
  <2> QED
    BY <1>1, <1>2, <2>1, CountKept DEF CountIsOutstanding
<1> QED
  BY <1>3, <1>4, <1>5, <1>6 DEF DirInv

LEMMA DirStepKept == ASSUME DirInv, [Next]_vars PROVE DirInv'
<1>1. CASE CloseAll
  BY <1>1, CloseAllKept
<1>2. ASSUME NEW w \in Workers, Begin(w) \/ Conversations(w)
      PROVE  DirInv'
  BY <1>2, BeginKept, RecordFileChunkKept, GetRecorderKept, AddThreadsKept, WriteChunkKept, DecrementKept,
     CheckCountKept, UnregisterKept, CallTransformKept DEF Conversations
<1> QED
  BY <1>1, <1>2, DirIdle DEF Next

\* A file that is handed over lacks no chunk.
LEMMA DirHandsOverWhole == ASSUME DirInv PROVE HandedOverWhole
<1> SUFFICES ASSUME NEW w \in Workers
             PROVE  /\ failed = {} /\ HandsOver(w) => Complete(Target(cur[w]))
                    /\ pc[w] = "transform" => Target(cur[w]) \in finished
                    /\ failed = {} /\ pc[w] \in {"add", "write", "dec"} => Target(cur[w]) \in tracked
  BY DEF HandedOverWhole
<1>1. ASSUME failed = {}, HandsOver(w)
      PROVE  Complete(Target(cur[w]))
  <2>1. \A x \in CallsOf(Target(cur[w])) : Ended(x)
    BY <1>1 DEF DirInv, DirWhole, Over
  <2>2. \A x \in Call : Ended(x) => x \in written
    BY DEF DirInv, DirOrder, DirAtEnd, Ended, Past
  <2> QED
    BY <2>1, <2>2 DEF Complete, CallsOf
<1>2. pc[w] = "transform" => Target(cur[w]) \in finished
  BY DEF DirInv, DirKnown
<1>3. ASSUME failed = {}, pc[w] \in {"add", "write", "dec"}
      PROVE  Target(cur[w]) \in tracked
  <2>1. /\ cur[w] \in Call /\ cur[w] \notin called /\ (\A v \in Workers \ {w} : cur[v] # cur[w])
        /\ Target(cur[w]) \in tracked \cup finished
    BY <1>3, InProgress DEF DirInv, DirKnown, HasFile
  <2>2. ~Ended(cur[w])
    BY <1>3, <2>1 DEF Ended, Past
  <2>3. \A f \in finished : \A x \in CallsOf(f) : Ended(x)
    BY <1>3 DEF DirInv, DirWhole, Over
  <2> QED
    BY <2>1, <2>2, <2>3 DEF CallsOf
<1> QED
  BY <1>1, <1>2, <1>3
-----------------------------------------------------------------------------
(* The database backend with the transformer behind it.                    *)

\* The calls it is driven by are those of the directory backend.
LEMMA DbCalls ==
  /\ Db!Call = Call /\ Db!Workers = Workers /\ Db!Targets = Targets /\ Db!NoCall = NoCall
  /\ \A k : /\ Db!Target(k) = Target(k) /\ Db!HomeOf(k) = HomeOf(k) /\ Db!NumThreads(k) = NumThreads(k)
            /\ (Db!IsLast(k) <=> IsLast(k)) /\ (Db!IsPage(k) <=> IsPage(k))
  /\ \A S : Db!Slots(S) = Slots(S)
  /\ \A f : Db!CallsOf(f) = CallsOf(f)
  /\ \A w, k, done, bad : Db!Ready(w, k, done, bad) <=> Ready(w, k, done, bad)
<1>1. Db!Call = Call /\ Db!Workers = Workers /\ Db!Targets = Targets /\ Db!NoCall = NoCall
  BY DEF Db!Call, Call, Db!PageCalls, PageCalls, Db!PagesOf, PagesOf, Db!Found, Found, Db!ThreadsOn, ThreadsOn,
     Db!Workers, Workers, Db!Targets, Targets, Db!NoCall, NoCall
<1>2. \A k : /\ Db!Target(k) = Target(k) /\ Db!HomeOf(k) = HomeOf(k)
             /\ (Db!IsLast(k) <=> IsLast(k)) /\ (Db!IsPage(k) <=> IsPage(k))
  BY DEF Db!Target, Target, Db!HomeOf, HomeOf, Db!IsLast, IsLast, Db!PagesOf, PagesOf, Db!IsPage, IsPage
<1>3. \A k : Db!NumThreads(k) = NumThreads(k)
  BY DEF Db!NumThreads, NumThreads, Db!IsPage, IsPage
<1>4. \A S : Db!Slots(S) = Slots(S)
  BY <1>3 DEF Db!Slots, Slots
<1>5. \A f : Db!CallsOf(f) = CallsOf(f)
  BY <1>1, <1>2 DEF Db!CallsOf, CallsOf
<1>6. \A w, k, done, bad : Db!Ready(w, k, done, bad) <=> Ready(w, k, done, bad)
  BY DEF Db!Ready, Ready, Db!WorkerOf, WorkerOf, Db!FirstPage, FirstPage, Db!Preceding, Preceding, Db!Halfway, Halfway,
     Db!Announced, Announced, Db!Following, Following, Db!IsLast, IsLast, Db!PagesOf, PagesOf, Db!IsPage, IsPage,
     Db!ThreadsOn, ThreadsOn
<1> QED
  BY <1>1, <1>2, <1>3, <1>4, <1>5, <1>6

LEMMA DbCounts == \A S : Db!Cardinality(S) = Cardinality(S)
BY DEF Db!Cardinality, Cardinality

DbBusy ==
  \A w \in Workers :
    IF pc[w] = "idle" THEN cur[w] = NoCall
    ELSE cur[w] \in Call /\ WorkerOf(cur[w]) = w /\ cur[w] \notin called \cup failed
DbStored ==
  /\ called \subseteq chunks
  /\ \A w \in Workers : pc[w] \in {"check", "transform", "return"} => w \in erring \/ cur[w] \in chunks
  /\ \A w \in Workers : pc[w] \in {"idle", "insert"} => w \notin erring
DbOrder ==
  /\ \A k \in chunks : InTurn(k, called)
  /\ \A w \in Workers : pc[w] # "idle" => InTurn(cur[w], called)

DbInv == Db!TypeOK /\ DbBusy /\ DbStored /\ DbOrder /\ Db!HandedOverFetched

\* The last page of an entity is in the database after the others.
LEMMA LastIsAll ==
  ASSUME DbInv, NEW k \in chunks, IsLast(k), NEW x \in Call, x.kind = k.kind, x.id = k.id
  PROVE  x \in chunks
<1>1. k \in Call /\ InTurn(k, called) /\ called \subseteq chunks
  BY DbCalls DEF DbInv, DbOrder, DbStored, Db!TypeOK
<1>2. k = AtPage(k, k.page) /\ x = AtPage(x, x.page) /\ k.page = PagesOf(k.kind, k.id)
  BY <1>1, CallForm DEF IsLast
<1>3. x = AtPage(k, x.page) /\ x.page \in FirstPage(k.kind)..k.page
  BY <1>2, CallParts DEF AtPage
<1>4. CASE x.page = k.page
  BY <1>2, <1>3, <1>4
<1>5. CASE x.page # k.page
  <2>1. k.page \in Nat /\ x.page \in Nat /\ FirstPage(k.kind) \in 0..1
    BY <1>1, CallForm, CallParts
  <2>2. x.page \in FirstPage(k.kind)..k.page - 1
    BY <1>3, <1>5, <2>1
  <2> QED
    BY <1>1, <1>3, <2>2 DEF InTurn, Before
<1> QED
  BY <1>4, <1>5

\* A channel that is complete lacks none of its pages, and no thread altogether.
LEMMA CompleteIsFetched ==
  ASSUME DbInv, NEW c, Db!IsComplete(c)
  PROVE  /\ \A k \in Call : Target(k) = c /\ IsPage(k) /\ k.kind = "channel" => k \in chunks
         /\ (\A t \in Direct : Home[t] # c) =>
              \A k \in Call : Target(k) = c /\ k.kind = "thread" /\ k.page = 1 => k \in chunks
<1>1. PICK last \in chunks : last.kind = "channel" /\ last.id = c /\ IsPage(last) /\ IsLast(last)
  BY DbCalls DEF Db!IsComplete, Db!Final, Db!HistoryOf
<1>2. chunks \subseteq Call /\ called \subseteq chunks
  BY DbCalls DEF DbInv, DbStored, Db!TypeOK
<1>3. c \in Channels
  BY <1>1, <1>2, CallForm
<1>4. \A k \in Call : k.id = c /\ k.kind = "channel" => k \in chunks
  BY <1>1, LastIsAll
<1>5. ASSUME NEW k \in Call, Target(k) = c, IsPage(k), k.kind = "channel"
      PROVE  k \in chunks
  BY <1>4, <1>5 DEF Target
<1>6. ASSUME \A t \in Direct : Home[t] # c, NEW k \in Call, Target(k) = c, k.kind = "thread", k.page = 1
      PROVE  k \in chunks
  <2>1. PICK S : S = Db!HistoryOf(c)
    OBVIOUS
  <2>2. S = {x \in chunks : x.kind = "channel" /\ x.id = c /\ x.page > 0}
    BY <2>1, DbCalls DEF Db!HistoryOf, IsPage
  <2>3. IsFiniteSet(Slots(S)) /\ Cardinality(Slots(S)) \in Nat
    BY <1>2, <2>2, SlotsFinite
  <2>4. PICK P : P = Db!Parents(c)
    OBVIOUS
  <2> DEFINE threadAt == [s \in Slots(S) |-> Pages[c][s[1].page][s[2]]]
  <2>5. ASSUME NEW t \in P
        PROVE  /\ \E s \in Slots(S) : t = threadAt[s]
               /\ \E x \in chunks : x.kind = "thread" /\ x.id = t /\ x.page > 0
    <3>1. PICK x \in chunks : x.kind # "channel" /\ x.id = t /\ IsPage(x)
      BY <2>4, DbCalls DEF Db!Parents
    <3>2. t \in Threads /\ Home[t] = c
      BY <2>4 DEF Db!Parents
    <3>3. x \in Call /\ x.kind = "thread" /\ x.page > 0
      BY <1>2, <1>6, <3>1, <3>2, CallForm DEF IsPage
    <3>4. Announced(t, called)
      BY <3>1, <3>3 DEF DbInv, DbOrder, InTurn
    <3>5. PICK a \in called : a.kind = "channel" /\ IsPage(a) /\ t \in ThreadsOn(a.id, a.page)
      BY <3>4 DEF Announced
    <3>6. a \in Call /\ a.page > 0 /\ a.id \in Channels /\ a.page \in 1..Len(Pages[a.id])
      BY <1>2, <3>5, CallForm DEF IsPage
    <3>7. PICK i \in DOMAIN Pages[a.id][a.page] : t = Pages[a.id][a.page][i]
      BY <3>5 DEF ThreadsOn
    <3>8. a.id = c /\ i \in 1..Len(Pages[a.id][a.page])
      BY <3>2, <3>6, <3>7, PagesForm
    <3>9. a \in S
      BY <1>2, <2>2, <3>5, <3>6, <3>8
    <3>10. NumThreads(a) = Len(Pages[c][a.page])
      BY <3>5, <3>8 DEF NumThreads
    <3>11. <<a, i>> \in Slots(S)
      BY <3>8, <3>9, <3>10 DEF Slots
    <3> QED
      BY <3>1, <3>3, <3>7, <3>8, <3>11
  <2>6. k.id \in Found /\ Home[k.id] = c /\ k.id \in Threads
    BY <1>6, CallForm, FoundForm DEF Target
  <2>7. k.id \in P
    <3>1. SUFFICES ASSUME k.id \notin P PROVE FALSE
      OBVIOUS
    <3>2. PICK p \in 1..Len(Pages[c]) : \E i \in 1..Len(Pages[c][p]) : Pages[c][p][i] = k.id
      BY <2>6, FoundForm
    <3>3. PICK i \in 1..Len(Pages[c][p]) : Pages[c][p][i] = k.id
      BY <3>2
    <3>4. PICK a : a = [kind |-> "channel", id |-> c, page |-> p]
      OBVIOUS
    <3>5. a \in Call /\ a.kind = "channel" /\ a.id = c /\ a.page = p /\ p > 0
      BY <1>3, <3>4, CallMade, PagesForm
    <3>6. a \in S /\ NumThreads(a) = Len(Pages[c][p])
      BY <1>4, <2>2, <3>5 DEF NumThreads, IsPage
    <3>7. <<a, i>> \in Slots(S) /\ threadAt[<<a, i>>] = k.id
      <4>1. <<a, i>> \in Slots(S)
        BY <3>6 DEF Slots
      <4> QED
        BY <3>3, <3>5, <4>1
    <3> DEFINE others == Slots(S) \ {<<a, i>>}
               elsewhere == [s \in others |-> threadAt[s]]
    <3>8. IsFiniteSet(others) /\ Cardinality(others) = Cardinality(Slots(S)) - 1
      BY <2>3, <3>7, FS_RemoveElement
    <3>9. ASSUME NEW t \in P
          PROVE  \E s \in others : t = elsewhere[s]
      <4>1. PICK s \in Slots(S) : t = threadAt[s]
        BY <2>5
      <4>2. s # <<a, i>>
        BY <3>1, <3>7, <4>1
      <4> HIDE DEF threadAt
      <4> QED
        BY <4>1, <4>2
    <3>10. DOMAIN elsewhere = others
      OBVIOUS
    <3>11. Cardinality(P) \in Nat /\ Cardinality(P) <= Cardinality(others)
      <4> HIDE DEF others, elsewhere
      <4> QED
        BY <3>8, <3>9, <3>10, Reached
    <3>12. Cardinality(Slots(S)) - Cardinality(P) <= 0
      BY <2>1, <2>4, DbCalls, DbCounts DEF Db!IsComplete, Db!RefCount, Db!ThreadsFound
    <3> HIDE DEF others
    <3> QED
      BY <2>3, <3>8, <3>11, <3>12
  <2>8. PICK x \in chunks : x.kind = "thread" /\ x.id = k.id /\ x.page > 0
    BY <2>5, <2>7
  <2>9. x \in Call /\ InTurn(x, called) /\ x = AtPage(x, x.page) /\ k = AtPage(x, 1)
    BY <1>2, <1>6, <2>8, CallForm DEF DbInv, DbOrder, AtPage
  <2>10. CASE x.page = 1
    BY <2>8, <2>9, <2>10
  <2>11. CASE x.page # 1
    <3>1. x.page \in Nat /\ FirstPage(x.kind) = 1
      BY <2>8, <2>9, CallForm DEF FirstPage
    <3>2. 1 \in FirstPage(x.kind)..x.page - 1
      BY <2>8, <2>11, <3>1
    <3> QED
      BY <1>2, <2>9, <3>2 DEF InTurn, Before
  <2> QED
    BY <2>10, <2>11
<1> QED
  BY <1>5, <1>6
DbPoints == {"idle", "insert", "check", "transform", "return"}

LEMMA DbInProgress ==
  ASSUME DbInv, NEW w \in Workers, pc[w] # "idle"
  PROVE  /\ cur[w] \in Call /\ cur[w] # NoCall /\ WorkerOf(cur[w]) = w /\ cur[w] \notin called \cup failed
         /\ InTurn(cur[w], called) /\ \A v \in Workers \ {w} : cur[v] # cur[w]
<1>1. cur[w] \in Call /\ WorkerOf(cur[w]) = w /\ cur[w] \notin called \cup failed /\ InTurn(cur[w], called)
  BY DEF DbInv, DbBusy, DbOrder
<1>2. cur[w] # NoCall
  BY <1>1, CallForm
<1>3. ASSUME NEW v \in Workers \ {w}
      PROVE  cur[v] # cur[w]
  <2>1. pc[v] = "idle" => cur[v] = NoCall
    BY DEF DbInv, DbBusy
  <2>2. pc[v] # "idle" => WorkerOf(cur[v]) = v
    BY DEF DbInv, DbBusy
  <2> QED
    BY <1>1, <1>2, <2>1, <2>2
<1> QED
  BY <1>1, <1>2, <1>3

LEMMA DbTypes ==
  DbInv => /\ pc \in [Workers -> DbPoints] /\ cur \in [Workers -> Call \cup {NoCall}]
           /\ chunks \subseteq Call /\ called \subseteq Call /\ failed \subseteq Call
           /\ erring \subseteq {w \in Workers : cur[w] # NoCall}
           /\ DOMAIN seen = Targets /\ \A f \in Targets : seen[f] = {NoCall} \/ seen[f] \subseteq CallsOf(f)
BY DbCalls DEF DbInv, Db!TypeOK, DbPoints, Db!Untouched

LEMMA DbTypesBack ==
  ASSUME pc \in [Workers -> DbPoints], cur \in [Workers -> Call \cup {NoCall}],
         chunks \subseteq Call, called \subseteq Call, failed \subseteq Call,
         erring \subseteq {w \in Workers : cur[w] # NoCall},
         DOMAIN seen = Targets, \A f \in Targets : seen[f] = {NoCall} \/ seen[f] \subseteq CallsOf(f)
  PROVE  Db!TypeOK
BY DbCalls DEF Db!TypeOK, DbPoints, Db!Untouched

\* What a worker may hand over: of its own pages none is missing, of the threads of a channel none altogether.
Fetched(k) ==
  /\ \A x \in CallsOf(Target(k)) : IsPage(x) /\ x.kind # "thread" => x \in chunks
  /\ k.kind # "only" /\ (\A t \in Direct : Home[t] # HomeOf(k)) =>
       \A x \in CallsOf(Target(k)) : x.kind = "thread" /\ x.page = 1 => x \in chunks

LEMMA FetchedIs == Db!HandedOverFetched <=> \A w \in Workers : pc[w] = "transform" => Fetched(cur[w])
BY DbCalls DEF Db!HandedOverFetched, Fetched, Db!HandsOver

LEMMA DbInitInv == ASSUME Db!Init PROVE DbInv
<1>1. /\ pc = [w \in Workers |-> "idle"] /\ cur = [w \in Workers |-> NoCall]
      /\ chunks = {} /\ erring = {} /\ called = {} /\ failed = {}
      /\ seen = [f \in Targets |-> {NoCall}]
  BY DbCalls DEF Db!Init, Db!Untouched
<1>2. Db!TypeOK
  BY <1>1, DbTypesBack DEF DbPoints
<1>3. DbBusy /\ DbStored /\ DbOrder
  BY <1>1 DEF DbBusy, DbStored, DbOrder
<1>4. Db!HandedOverFetched
  BY <1>1, FetchedIs
<1> QED
  BY <1>2, <1>3, <1>4 DEF DbInv

LEMMA DbWent ==
  ASSUME DbInv, NEW w \in Workers, NEW l \in DbPoints, Db!Goto(w, l)
  PROVE  pc' \in [Workers -> DbPoints] /\ pc'[w] = l /\ \A v \in Workers \ {w} : pc'[v] = pc[v]
BY DbTypes DEF Db!Goto

LEMMA DbBeginKept == ASSUME DbInv, NEW w \in Workers, Db!Begin(w) PROVE DbInv'
<1>1. PICK k \in Call : Ready(w, k, called, failed) /\ cur' = [cur EXCEPT ![w] = k]
  BY DbCalls DEF Db!Begin
<1>2. pc[w] = "idle" /\ Db!Goto(w, "insert") /\ UNCHANGED <<chunks, erring, called, failed, seen>>
  BY DEF Db!Begin
<1>3. called \subseteq chunks /\ \A x \in chunks : InTurn(x, called)
  BY DEF DbInv, DbStored, DbOrder
<1>4. InTurn(k, called) /\ k \notin called \cup failed /\ WorkerOf(k) = w
  BY <1>1, <1>3, ReadyInTurn
<1>5. pc' \in [Workers -> DbPoints] /\ pc'[w] = "insert" /\ \A v \in Workers \ {w} : pc'[v] = pc[v]
  BY <1>2, DbWent DEF DbPoints
<1>6. cur' \in [Workers -> Call \cup {NoCall}] /\ cur'[w] = k /\ \A v \in Workers \ {w} : cur'[v] = cur[v]
  BY <1>1, DbTypes
<1>7. Db!TypeOK'
  <2>1. w \notin erring
    BY <1>2 DEF DbInv, DbStored
  <2>2. erring' \subseteq {v \in Workers : cur'[v] # NoCall}
    BY <1>2, <1>6, <2>1, DbTypes
  <2> QED
    BY <1>2, <1>5, <1>6, <2>2, DbTypes, DbCalls DEF Db!TypeOK, DbPoints, Db!Untouched
<1>8. DbBusy' /\ DbStored' /\ DbOrder'
  BY <1>2, <1>4, <1>5, <1>6 DEF DbInv, DbBusy, DbStored, DbOrder
<1>9. Db!HandedOverFetched'
  <2>1. \A v \in Workers : pc'[v] = "transform" => pc[v] = "transform" /\ cur'[v] = cur[v]
    BY <1>5, <1>6
  <2>2. \A v \in Workers : pc[v] = "transform" => Fetched(cur[v])
    BY FetchedIs DEF DbInv
  <2> QED
    BY <1>2, <2>1, <2>2, DbCalls DEF Db!HandedOverFetched, Fetched, Db!HandsOver
<1> QED
  BY <1>7, <1>8, <1>9 DEF DbInv

LEMMA InsertChunkKept == ASSUME DbInv, NEW w \in Workers, Db!InsertChunk(w) PROVE DbInv'
<1>1. PICK k \in Call : k = cur[w]
  BY DbInProgress DEF Db!InsertChunk
<1>2. /\ k # NoCall /\ InTurn(k, called) /\ k \notin called \cup failed
      /\ \A v \in Workers \ {w} : cur[v] # k
  BY <1>1, DbInProgress DEF Db!InsertChunk
<1>3. /\ pc[w] = "insert" /\ UNCHANGED <<cur, called, failed, seen>>
      /\ \/ chunks' = chunks \cup {k} /\ UNCHANGED erring
         \/ erring' = erring \cup {w} /\ UNCHANGED chunks
      /\ Db!Goto(w, IF Db!IsPage(cur[w]) /\ Db!IsLast(cur[w]) THEN "check" ELSE "return")
  BY <1>1 DEF Db!InsertChunk
<1>4. /\ pc' \in [Workers -> DbPoints] /\ pc'[w] \in {"check", "return"}
      /\ \A v \in Workers \ {w} : pc'[v] = pc[v]
  BY <1>3, DbWent DEF DbPoints
<1>5. Db!TypeOK'
  BY <1>1, <1>2, <1>3, <1>4, DbTypes, DbCalls DEF Db!TypeOK, DbPoints, Db!Untouched
<1>6. DbBusy' /\ DbStored' /\ DbOrder'
  BY <1>1, <1>2, <1>3, <1>4 DEF DbInv, DbBusy, DbStored, DbOrder
<1>7. Db!HandedOverFetched'
  <2>1. \A v \in Workers : pc'[v] = "transform" => pc[v] = "transform"
    BY <1>4
  <2>2. \A v \in Workers : pc[v] = "transform" => Fetched(cur[v])
    BY FetchedIs DEF DbInv
  <2>3. chunks \subseteq chunks'
    BY <1>3
  <2> QED
    BY <1>3, <2>1, <2>2, <2>3, DbCalls DEF Db!HandedOverFetched, Fetched, Db!HandsOver
<1> QED
  BY <1>5, <1>6, <1>7 DEF DbInv
LEMMA MbeTransformKept == ASSUME DbInv, NEW w \in Workers, Db!MbeTransform(w) PROVE DbInv'
<1>1. PICK k \in Call : k = cur[w]
  BY DbInProgress DEF Db!MbeTransform
<1> DEFINE complete == IF k.kind = "only" THEN Db!IsCompleteThread(k.id) ELSE Db!IsComplete(HomeOf(k))
<1>2. /\ pc[w] = "check" /\ UNCHANGED <<cur, chunks, erring, called, failed, seen>>
      /\ Db!Goto(w, IF complete THEN "transform" ELSE "return")
  BY <1>1, DbCalls DEF Db!MbeTransform
<1>3. /\ pc' \in [Workers -> DbPoints] /\ pc'[w] = (IF complete THEN "transform" ELSE "return")
      /\ \A v \in Workers \ {w} : pc'[v] = pc[v]
  BY <1>2, DbWent DEF DbPoints
<1>4. complete => Fetched(k)
  <2>1. SUFFICES ASSUME complete PROVE Fetched(k)
    OBVIOUS
  <2>2. CASE k.kind = "only"
    <3>1. PICK last \in chunks : last.kind = "only" /\ last.id = k.id /\ IsLast(last)
      BY <2>1, <2>2, DbCalls DEF Db!IsCompleteThread, Db!OnlyParts
    <3>2. ASSUME NEW x \in Call, Target(x) = Target(k), x.kind # "thread"
          PROVE  x.kind = "only" /\ x.id = k.id
      <4>1. x.id = k.id
        BY <2>2, <3>2 DEF Target
      <4> QED
        BY <2>2, <3>2, <4>1, CallForm, CallsAssumption
    <3>3. \A x \in Call : x.kind = "only" /\ x.id = k.id => x \in chunks
      BY <3>1, LastIsAll
    <3> QED
      BY <2>2, <3>2, <3>3 DEF Fetched, CallsOf
  <2>3. CASE k.kind # "only"
    <3>1. Db!IsComplete(HomeOf(k)) /\ Target(k) = HomeOf(k)
      BY <2>1, <2>3, CallForm DEF Target, HomeOf
    <3>2. HomeOf(k) \in Channels
      BY CallParts
    <3>3. ASSUME NEW x \in Call, Target(x) = HomeOf(k)
          PROVE  x.kind # "only"
      BY <3>2, <3>3, CallForm, CallsAssumption DEF Target
    <3>4. \A x \in Call : x.kind \in {"channel", "thread", "only"}
      BY CallForm
    <3>5. /\ \A x \in Call : Target(x) = HomeOf(k) /\ IsPage(x) /\ x.kind = "channel" => x \in chunks
          /\ (\A t \in Direct : Home[t] # HomeOf(k)) =>
               \A x \in Call : Target(x) = HomeOf(k) /\ x.kind = "thread" /\ x.page = 1 => x \in chunks
      BY <3>1, CompleteIsFetched
    <3> QED
      BY <3>1, <3>3, <3>4, <3>5 DEF Fetched, CallsOf
  <2> QED
    BY <2>2, <2>3
<1>5. Db!TypeOK'
  BY <1>2, <1>3, DbTypes, DbCalls DEF Db!TypeOK, DbPoints, Db!Untouched
<1>6. DbBusy' /\ DbStored' /\ DbOrder'
  BY <1>2, <1>3 DEF DbInv, DbBusy, DbStored, DbOrder
<1>7. Db!HandedOverFetched'
  <2>1. \A v \in Workers : pc'[v] = "transform" => pc[v] = "transform" \/ (v = w /\ complete)
    BY <1>3
  <2>2. \A v \in Workers : pc'[v] = "transform" => Fetched(cur[v])
    <3> HIDE DEF complete
    <3> QED
      BY <1>1, <1>4, <2>1, FetchedIs DEF DbInv
  <2> QED
    BY <1>2, <2>2, DbCalls DEF Db!HandedOverFetched, Fetched, Db!HandsOver
<1> QED
  BY <1>5, <1>6, <1>7 DEF DbInv

LEMMA TransformKept == ASSUME DbInv, NEW w \in Workers, Db!Transform(w) PROVE DbInv'
<1>1. PICK k \in Call : k = cur[w] /\ k # NoCall
  BY DbInProgress DEF Db!Transform
<1>2. /\ pc[w] = "transform" /\ UNCHANGED <<cur, chunks, called, failed>>
      /\ seen' = [seen EXCEPT ![Target(k)] = CallsOf(Target(k)) \cap chunks]
      /\ erring' \in {erring, erring \cup {w}} /\ Db!Goto(w, "return")
  BY <1>1, DbCalls DEF Db!Transform
<1>3. pc' \in [Workers -> DbPoints] /\ pc'[w] = "return" /\ \A v \in Workers \ {w} : pc'[v] = pc[v]
  BY <1>2, DbWent DEF DbPoints
<1>4. Db!TypeOK'
  <2>1. /\ DOMAIN seen' = Targets
        /\ \A f \in Targets : seen'[f] = {NoCall} \/ seen'[f] \subseteq CallsOf(f)
    BY <1>2, DbTypes
  <2>2. erring' \subseteq {v \in Workers : cur'[v] # NoCall}
    BY <1>1, <1>2, DbTypes
  <2> QED
    BY <1>2, <1>3, <2>1, <2>2, DbTypes, DbCalls DEF Db!TypeOK, DbPoints, Db!Untouched
<1>5. DbBusy' /\ DbStored' /\ DbOrder'
  BY <1>2, <1>3 DEF DbInv, DbBusy, DbStored, DbOrder
<1>6. Db!HandedOverFetched'
  <2>1. \A v \in Workers : pc'[v] = "transform" => Fetched(cur[v])
    BY <1>3, FetchedIs DEF DbInv
  <2> QED
    BY <1>2, <2>1, DbCalls DEF Db!HandedOverFetched, Fetched, Db!HandsOver
<1> QED
  BY <1>4, <1>5, <1>6 DEF DbInv

LEMMA DbReturnKept == ASSUME DbInv, NEW w \in Workers, Db!Return(w) PROVE DbInv'
<1>1. PICK k \in Call : k = cur[w]
  BY DbInProgress DEF Db!Return
<1>2. /\ k \notin called \cup failed /\ InTurn(k, called) /\ \A v \in Workers \ {w} : cur[v] # k
  BY <1>1, DbInProgress DEF Db!Return
<1>3. /\ pc[w] = "return" /\ Db!Goto(w, "idle") /\ cur' = [cur EXCEPT ![w] = NoCall]
      /\ erring' = erring \ {w} /\ UNCHANGED <<chunks, seen>>
      /\ \/ w \in erring /\ failed' = failed \cup {k} /\ UNCHANGED called
         \/ w \notin erring /\ called' = called \cup {k} /\ UNCHANGED failed
  BY <1>1, DbCalls DEF Db!Return
<1>4. pc' \in [Workers -> DbPoints] /\ pc'[w] = "idle" /\ \A v \in Workers \ {w} : pc'[v] = pc[v]
  BY <1>3, DbWent DEF DbPoints
<1>5. cur' \in [Workers -> Call \cup {NoCall}] /\ cur'[w] = NoCall /\ \A v \in Workers \ {w} : cur'[v] = cur[v]
  BY <1>3, DbTypes
<1>6. Db!TypeOK'
  <2>1. erring' \subseteq {v \in Workers : cur'[v] # NoCall}
    BY <1>3, <1>5, DbTypes
  <2>2. called' \subseteq Call /\ failed' \subseteq Call
    BY <1>3, DbTypes
  <2> QED
    BY <1>3, <1>4, <1>5, <2>1, <2>2, DbTypes, DbCalls DEF Db!TypeOK, DbPoints, Db!Untouched
<1>7. DbBusy'
  BY <1>2, <1>3, <1>4, <1>5 DEF DbInv, DbBusy
<1>8. DbStored'
  BY <1>1, <1>3, <1>4, <1>5 DEF DbInv, DbStored
<1>9. DbOrder'
  <2>1. called \subseteq called'
    BY <1>3
  <2>2. \A x : InTurn(x, called) => InTurn(x, called')
    BY <2>1, InTurnStays
  <2> QED
    BY <1>3, <1>4, <1>5, <2>2 DEF DbInv, DbOrder
<1>10. Db!HandedOverFetched'
  <2>1. \A v \in Workers : pc'[v] = "transform" => pc[v] = "transform" /\ cur'[v] = cur[v]
    BY <1>4, <1>5
  <2>2. \A v \in Workers : pc[v] = "transform" => Fetched(cur[v])
    BY FetchedIs DEF DbInv
  <2> QED
    BY <1>3, <2>1, <2>2, DbCalls DEF Db!HandedOverFetched, Fetched, Db!HandsOver
<1> QED
  BY <1>6, <1>7, <1>8, <1>9, <1>10 DEF DbInv

LEMMA DbStepKept == ASSUME DbInv, NEW w \in Workers, Db!Step(w) PROVE DbInv'
BY DbBeginKept, InsertChunkKept, MbeTransformKept, TransformKept, DbReturnKept DEF Db!Step

LEMMA DbIdle == ASSUME DbInv, UNCHANGED <<pc, cur, called, failed, chunks, erring, seen>> PROVE DbInv'
<1>1. Db!TypeOK'
  BY DbTypes, DbCalls DEF Db!TypeOK, DbPoints, Db!Untouched
<1>2. DbBusy' /\ DbStored' /\ DbOrder'
  BY DEF DbInv, DbBusy, DbStored, DbOrder
<1>3. Db!HandedOverFetched'
  BY FetchedIs, DbCalls DEF DbInv, Db!HandedOverFetched, Fetched, Db!HandsOver
<1> QED
  BY <1>1, <1>2, <1>3 DEF DbInv
-----------------------------------------------------------------------------
(* Sessions recorded in chunk files.                                       *)

\* The chunks of a request: its pages, and what is written before them.
Piece(r, p) == ER!Chunk(IF r.id \in Channels THEN "messages" ELSE "thread", r, p)
Info(type, r, o) ==
  [type |-> type, only |-> r.only, page |-> 0,
   ch |-> IF r.id \in Threads THEN Home[r.id] ELSE r.id,
   ts |-> IF r.id \in Threads /\ type # "users" /\ o = "stream" THEN r.id ELSE "-"]
WithInfo(r) == r.id \in Channels \/ r.only
Infos(r, o) == IF WithInfo(r) THEN {Info("info", r, o), Info("users", r, o)} ELSE {}

\* A request that can be made.
Plain(r) == r \in ER!Requests /\ (r.id \in Channels => ~r.only)
ChannelOf(r) == IF r.id \in Channels THEN r.id ELSE Home[r.id]
OwnFile(r) == IF r.only THEN r.id ELSE ChannelOf(r)

LEMMA PlainForm ==
  ASSUME NEW r, Plain(r)
  PROVE  /\ r = [id |-> r.id, only |-> r.only] /\ r.only \in BOOLEAN /\ r # ER!Idle
         /\ r.id \in Channels \/ r.id \in Threads
         /\ r.id \in Channels <=> r.id \notin Threads
         /\ r.id # "-" /\ ER!NumPages(r.id) \in Nat \ {0} /\ ChannelOf(r) \in Channels
         /\ r.only => r.id \in Threads
<1>1. r = [id |-> r.id, only |-> r.only] /\ r.only \in BOOLEAN /\ r.id \in Channels \cup Threads
  BY DEF Plain, ER!Requests
<1>2. r.id \in Channels <=> r.id \notin Threads
  BY <1>1, CallsAssumption
<1>3. r.id # "-" /\ r # ER!Idle
  BY <1>1, BackendsAssumption DEF ER!Idle
<1>4. ER!NumPages(r.id) \in Nat \ {0}
  BY <1>1, <1>2, PagesForm, ThreadPages DEF ER!NumPages
<1>5. ChannelOf(r) \in Channels
  BY <1>1, <1>2, CallsAssumption DEF ChannelOf
<1> QED
  BY <1>1, <1>2, <1>3, <1>4, <1>5 DEF Plain

LEMMA PieceForm ==
  ASSUME NEW r, Plain(r), NEW p \in 1..ER!NumPages(r.id)
  PROVE  /\ Piece(r, p) = [type |-> IF r.id \in Channels THEN "messages" ELSE "thread", only |-> r.only, page |-> p,
                           ch |-> ChannelOf(r), ts |-> IF r.id \in Channels THEN "-" ELSE r.id]
         /\ ER!Encoded(Piece(r, p)) = Piece(r, p)
         /\ ER!FileOf(Piece(r, p)) = OwnFile(r)
         /\ ER!LastPage(Piece(r, p)) <=> p = ER!NumPages(r.id)
         /\ ER!NumThreads(Piece(r, p)) = (IF r.id \in Channels THEN Len(Pages[r.id][p]) ELSE 0)
<1> DEFINE k == [type |-> IF r.id \in Channels THEN "messages" ELSE "thread", only |-> r.only, page |-> p,
                 ch |-> ChannelOf(r), ts |-> IF r.id \in Channels THEN "-" ELSE r.id]
<1>1. Piece(r, p) = k
  BY PlainForm DEF Piece, ER!Chunk, ChannelOf
<1>2. ER!Encoded(k) = k
  BY DEF ER!Encoded, ER!Recorded, ER!Assembled
<1>3. ER!FileOf(k) = OwnFile(r)
  BY PlainForm DEF ER!FileOf, ER!ToFileID, OwnFile, ChannelOf
<1>4. ER!LastPage(k) <=> p = ER!NumPages(r.id)
  BY PlainForm DEF ER!LastPage, ER!NumPages, ChannelOf
<1>5. ER!NumThreads(k) = (IF r.id \in Channels THEN Len(Pages[r.id][p]) ELSE 0)
  BY DEF ER!NumThreads, ChannelOf
<1> HIDE DEF k
<1> QED
  BY <1>1, <1>2, <1>3, <1>4, <1>5 DEF k

LEMMA PieceOnce ==
  ASSUME NEW r, Plain(r), NEW p \in 1..ER!NumPages(r.id), NEW s, Plain(s), NEW q \in 1..ER!NumPages(s.id)
  PROVE  Piece(r, p) = Piece(s, q) => r = s /\ p = q
<1> SUFFICES ASSUME Piece(r, p) = Piece(s, q)
             PROVE  r = s /\ p = q
  OBVIOUS
<1>1. /\ Piece(r, p).type = (IF r.id \in Channels THEN "messages" ELSE "thread") /\ Piece(r, p).only = r.only
      /\ Piece(r, p).page = p /\ Piece(r, p).ch = ChannelOf(r)
      /\ Piece(r, p).ts = (IF r.id \in Channels THEN "-" ELSE r.id)
  BY PieceForm
<1>2. /\ Piece(s, q).type = (IF s.id \in Channels THEN "messages" ELSE "thread") /\ Piece(s, q).only = s.only
      /\ Piece(s, q).page = q /\ Piece(s, q).ch = ChannelOf(s)
      /\ Piece(s, q).ts = (IF s.id \in Channels THEN "-" ELSE s.id)
  BY PieceForm
<1>3. p = q /\ r.only = s.only /\ r.id = s.id
  BY <1>1, <1>2, PlainForm DEF ChannelOf
<1> QED
  BY <1>3, PlainForm

LEMMA InfoForm ==
  ASSUME NEW r, Plain(r), WithInfo(r), NEW type \in {"info", "users"}, origin \in {"stream", "database"}
  PROVE  /\ ER!Encoded(ER!Chunk(type, r, 0)) = Info(type, r, origin)
         /\ ER!FileOf(Info(type, r, origin)) \in {r.id, ChannelOf(r)}
         /\ ER!NumThreads(Info(type, r, origin)) = 0 /\ ~ER!LastPage(Info(type, r, origin))
         /\ Info(type, r, origin).type = type
<1>1. ER!Encoded(ER!Chunk(type, r, 0)) = Info(type, r, origin)
  BY PlainForm DEF ER!Encoded, ER!Recorded, ER!Assembled, ER!Chunk, Info
<1>2. ER!FileOf(Info(type, r, origin)) \in {r.id, ChannelOf(r)}
  BY PlainForm DEF ER!FileOf, ER!ToFileID, Info, ChannelOf
<1>3. ER!NumThreads(Info(type, r, origin)) = 0 /\ ~ER!LastPage(Info(type, r, origin))
  BY DEF ER!NumThreads, ER!LastPage, Info
<1> QED
  BY <1>1, <1>2, <1>3 DEF Info

LEMMA InfoIsNoPiece ==
  ASSUME NEW r, Plain(r), NEW p \in 1..ER!NumPages(r.id), NEW s, NEW type \in {"info", "users"}, NEW o
  PROVE  Piece(r, p) # Info(type, s, o)
<1>1. Piece(r, p).type \in {"messages", "thread"}
  BY PieceForm
<1>2. Info(type, s, o).type = type
  BY DEF Info
<1> QED
  BY <1>1, <1>2

Ask(x) == [id |-> x, only |-> FALSE]
FoundOn(t, wr) == \E p \in 1..Len(Pages[Home[t]]) : t \in ThreadsOn(Home[t], p) /\ Piece(Ask(Home[t]), p) \in wr
Asked(r, wr, ls) ==
  Plain(r) /\ IF WithInfo(r) THEN r.id \in ls ELSE Home[r.id] \in ls /\ FoundOn(r.id, wr)
PagesIn(r, wr) == \A p \in 1..ER!NumPages(r.id) : Piece(r, p) \in wr

\* What is written was asked for, and comes after the pages before it and the information.
Ordered(wr, ls, o) ==
  \A r : Plain(r) => \A p \in 1..ER!NumPages(r.id) : Piece(r, p) \in wr =>
    Asked(r, wr, ls) /\ Infos(r, o) \subseteq wr /\ \A q \in 1..p : Piece(r, q) \in wr

\* What is still expected in the file of a channel.
Received(c, wr) == {x \in Call : x.kind = "channel" /\ x.id = c /\ x.page > 0 /\ Piece(Ask(c), x.page) \in wr}
Ends(c, wr) == {t \in Found : Home[t] = c /\ Piece(Ask(t), Replies[t]) \in wr}
Outstanding(c, wr) ==
  (IF Piece(Ask(c), Len(Pages[c])) \in wr THEN 0 ELSE 1) + Cardinality(Slots(Received(c, wr))) - Cardinality(Ends(c, wr))

LEMMA AskForm ==
  /\ \A c \in Channels : Plain(Ask(c)) /\ WithInfo(Ask(c)) /\ ChannelOf(Ask(c)) = c /\ OwnFile(Ask(c)) = c
                         /\ ER!NumPages(c) = Len(Pages[c])
  /\ \A t \in Found : /\ t \in Threads /\ t \notin Channels /\ Plain(Ask(t)) /\ ~WithInfo(Ask(t))
                      /\ ChannelOf(Ask(t)) = Home[t] /\ OwnFile(Ask(t)) = Home[t] /\ ER!NumPages(t) = Replies[t]
  /\ \A x : Ask(x).id = x /\ Ask(x).only = FALSE
  /\ \A r : Plain(r) /\ ~r.only => r = Ask(r.id)
<1>1. ASSUME NEW c \in Channels
      PROVE  /\ Plain(Ask(c)) /\ WithInfo(Ask(c)) /\ ChannelOf(Ask(c)) = c /\ OwnFile(Ask(c)) = c
             /\ ER!NumPages(c) = Len(Pages[c])
  BY DEF Plain, ER!Requests, Ask, WithInfo, ChannelOf, OwnFile, ER!NumPages
<1>2. ASSUME NEW t \in Found
      PROVE  /\ t \in Threads /\ t \notin Channels /\ Plain(Ask(t)) /\ ~WithInfo(Ask(t))
             /\ ChannelOf(Ask(t)) = Home[t] /\ OwnFile(Ask(t)) = Home[t] /\ ER!NumPages(t) = Replies[t]
  <2>1. t \in Threads /\ t \notin Channels
    BY FoundForm, CallsAssumption
  <2> QED
    BY <2>1 DEF Plain, ER!Requests, Ask, WithInfo, ChannelOf, OwnFile, ER!NumPages
<1>3. ASSUME NEW r, Plain(r), ~r.only
      PROVE  r = Ask(r.id)
  <2>1. r = [id |-> r.id, only |-> r.only] /\ r.only = FALSE
    BY <1>3, PlainForm
  <2> QED
    BY <2>1 DEF Ask
<1> QED
  BY <1>1, <1>2, <1>3 DEF Ask

SlotThread(c, wr) == [s \in Slots(Received(c, wr)) |-> Pages[c][s[1].page][s[2]]]

LEMMA FoundSlot ==
  ASSUME NEW wr, NEW t \in Found, FoundOn(t, wr)
  PROVE  \E s \in Slots(Received(Home[t], wr)) : t = SlotThread(Home[t], wr)[s]
<1>1. Home[t] \in Channels
  BY FoundForm
<1>2. PICK p \in 1..Len(Pages[Home[t]]) : t \in ThreadsOn(Home[t], p) /\ Piece(Ask(Home[t]), p) \in wr
  BY DEF FoundOn
<1>3. PICK i \in DOMAIN Pages[Home[t]][p] : t = Pages[Home[t]][p][i]
  BY <1>2 DEF ThreadsOn
<1>4. PICK a : a = [kind |-> "channel", id |-> Home[t], page |-> p]
  OBVIOUS
<1>5. a \in Call /\ a.kind = "channel" /\ a.id = Home[t] /\ a.page = p /\ p > 0
  BY <1>1, <1>4, CallMade, PagesForm
<1>6. a \in Received(Home[t], wr)
  BY <1>2, <1>5 DEF Received
<1>7. NumThreads(a) = Len(Pages[Home[t]][p]) /\ i \in 1..Len(Pages[Home[t]][p])
  BY <1>1, <1>3, <1>5, PagesForm DEF NumThreads, IsPage
<1>8. <<a, i>> \in Slots(Received(Home[t], wr))
  BY <1>6, <1>7 DEF Slots
<1> QED
  BY <1>3, <1>5, <1>8 DEF SlotThread

LEMMA OutstandingForm ==
  ASSUME NEW wr, NEW ls, NEW o, Ordered(wr, ls, o), NEW c \in Channels
  PROVE  /\ IsFiniteSet(Slots(Received(c, wr))) /\ Cardinality(Slots(Received(c, wr))) \in Nat
         /\ \A t \in Ends(c, wr) : \E s \in Slots(Received(c, wr)) : t = SlotThread(c, wr)[s]
         /\ IsFiniteSet(Ends(c, wr)) /\ Cardinality(Ends(c, wr)) \in Nat
         /\ Cardinality(Ends(c, wr)) <= Cardinality(Slots(Received(c, wr)))
         /\ Outstanding(c, wr) \in Int
<1>1. IsFiniteSet(Slots(Received(c, wr))) /\ Cardinality(Slots(Received(c, wr))) \in Nat
  <2>1. \A k \in Received(c, wr) : k \in Call /\ k.kind = "channel" /\ k.id = c /\ k.page > 0
    BY DEF Received
  <2> QED
    BY <2>1, SlotsFinite
<1>2. ASSUME NEW t \in Ends(c, wr)
      PROVE  \E s \in Slots(Received(c, wr)) : t = SlotThread(c, wr)[s]
  <2>1. t \in Found /\ Home[t] = c /\ Piece(Ask(t), Replies[t]) \in wr
    BY DEF Ends
  <2>2. Plain(Ask(t)) /\ Replies[t] \in 1..ER!NumPages(Ask(t).id) /\ ~WithInfo(Ask(t)) /\ Ask(t).id = t
    BY <2>1, AskForm, ThreadPages
  <2>3. Asked(Ask(t), wr, ls)
    BY <2>1, <2>2 DEF Ordered
  <2>4. FoundOn(t, wr)
    BY <2>2, <2>3 DEF Asked
  <2> QED
    BY <2>1, <2>4, FoundSlot
<1>3. DOMAIN SlotThread(c, wr) = Slots(Received(c, wr))
  BY DEF SlotThread
<1>4. /\ IsFiniteSet(Ends(c, wr)) /\ Cardinality(Ends(c, wr)) \in Nat
      /\ Cardinality(Ends(c, wr)) <= Cardinality(Slots(Received(c, wr)))
  BY <1>1, <1>2, <1>3, Reached
<1> QED
  BY <1>1, <1>2, <1>4 DEF Outstanding

\* When nothing is outstanding the channel and all its threads have been written.
LEMMA NothingOutstanding ==
  ASSUME NEW wr, NEW ls, NEW o, Ordered(wr, ls, o), NEW c \in Channels, Outstanding(c, wr) <= 0
  PROVE  /\ Infos(Ask(c), o) \subseteq wr /\ PagesIn(Ask(c), wr)
         /\ \A t \in Found : Home[t] = c => PagesIn(Ask(t), wr)
<1>1. /\ IsFiniteSet(Slots(Received(c, wr))) /\ Cardinality(Slots(Received(c, wr))) \in Nat
      /\ Cardinality(Ends(c, wr)) \in Nat
      /\ Cardinality(Ends(c, wr)) <= Cardinality(Slots(Received(c, wr)))
  BY OutstandingForm
<1>2. Piece(Ask(c), Len(Pages[c])) \in wr
  BY <1>1 DEF Outstanding
<1>3. Infos(Ask(c), o) \subseteq wr /\ PagesIn(Ask(c), wr)
  <2>1. Plain(Ask(c)) /\ Len(Pages[c]) \in 1..ER!NumPages(Ask(c).id) /\ ER!NumPages(Ask(c).id) = Len(Pages[c])
    BY AskForm, PagesForm
  <2> QED
    BY <1>2, <2>1 DEF Ordered, PagesIn
<1>4. Cardinality(Slots(Received(c, wr))) <= Cardinality(Ends(c, wr))
  BY <1>1, <1>2 DEF Outstanding
<1>5. ASSUME NEW t \in Found, Home[t] = c
      PROVE  PagesIn(Ask(t), wr)
  <2>1. t \in Ends(c, wr)
    <3>1. SUFFICES ASSUME t \notin Ends(c, wr) PROVE FALSE
      OBVIOUS
    <3>2. FoundOn(t, wr)
      <4>1. \E p \in 1..Len(Pages[Home[t]]) : t \in ThreadsOn(Home[t], p)
        BY FoundForm, PagesForm DEF ThreadsOn
      <4>2. \A p \in 1..Len(Pages[c]) : Piece(Ask(c), p) \in wr
        BY <1>3, AskForm DEF PagesIn
      <4> QED
        BY <1>5, <4>1, <4>2 DEF FoundOn
    <3>3. PICK a \in Slots(Received(c, wr)) : t = SlotThread(c, wr)[a]
      BY <1>5, <3>2, FoundSlot
    <3> DEFINE others == Slots(Received(c, wr)) \ {a}
               elsewhere == [s \in others |-> SlotThread(c, wr)[s]]
    <3>4. IsFiniteSet(others) /\ Cardinality(others) = Cardinality(Slots(Received(c, wr))) - 1
      BY <1>1, <3>3, FS_RemoveElement
    <3>5. \A u \in Ends(c, wr) : \E s \in others : u = elsewhere[s]
      BY <3>1, <3>3, OutstandingForm
    <3>6. DOMAIN elsewhere = others
      OBVIOUS
    <3>7. Cardinality(Ends(c, wr)) <= Cardinality(others)
      <4> HIDE DEF others, elsewhere
      <4> QED
        BY <3>4, <3>5, <3>6, Reached
    <3> HIDE DEF others
    <3> QED
      BY <1>1, <1>4, <3>4, <3>7
  <2>2. Piece(Ask(t), Replies[t]) \in wr
    BY <2>1 DEF Ends
  <2>3. Plain(Ask(t)) /\ Replies[t] \in 1..ER!NumPages(Ask(t).id) /\ ER!NumPages(Ask(t).id) = Replies[t]
    BY AskForm, ThreadPages
  <2> QED
    BY <2>2, <2>3 DEF Ordered, PagesIn
<1> QED
  BY <1>3, <1>5

\* What is asked for stays so when more is written.
LEMMA AskedStays ==
  ASSUME NEW wr, NEW more, wr \subseteq more, NEW ls, NEW r, Asked(r, wr, ls)
  PROVE  Asked(r, more, ls)
BY DEF Asked, FoundOn

LEMMA OrderedPage ==
  ASSUME NEW wr, NEW ls, NEW o, Ordered(wr, ls, o), NEW r, Asked(r, wr, ls), NEW p \in 1..ER!NumPages(r.id),
         Infos(r, o) \subseteq wr, \A q \in 1..p - 1 : Piece(r, q) \in wr
  PROVE  Ordered(wr \cup {Piece(r, p)}, ls, o)
<1> DEFINE more == wr \cup {Piece(r, p)}
<1>1. Plain(r) /\ ER!NumPages(r.id) \in Nat \ {0}
  BY PlainForm DEF Asked
<1> SUFFICES ASSUME NEW s, Plain(s), NEW q \in 1..ER!NumPages(s.id), Piece(s, q) \in more
             PROVE  Asked(s, more, ls) /\ Infos(s, o) \subseteq more /\ \A x \in 1..q : Piece(s, x) \in more
  BY DEF Ordered
<1>2. CASE Piece(s, q) \in wr
  <2>1. Asked(s, wr, ls) /\ Infos(s, o) \subseteq wr /\ \A x \in 1..q : Piece(s, x) \in wr
    BY <1>2 DEF Ordered
  <2> QED
    BY <2>1, AskedStays
<1>3. CASE Piece(s, q) = Piece(r, p)
  <2>1. s = r /\ q = p
    BY <1>1, <1>3, PieceOnce
  <2>2. \A x \in 1..p : x = p \/ x \in 1..p - 1
    BY <1>1
  <2> QED
    BY <2>1, <2>2, AskedStays
<1> QED
  BY <1>2, <1>3

LEMMA OrderedInfo ==
  ASSUME NEW wr, NEW ls, NEW o, Ordered(wr, ls, o), NEW s, NEW type \in {"info", "users"}
  PROVE  Ordered(wr \cup {Info(type, s, o)}, ls, o)
<1> DEFINE more == wr \cup {Info(type, s, o)}
<1> SUFFICES ASSUME NEW r, Plain(r), NEW p \in 1..ER!NumPages(r.id), Piece(r, p) \in more
             PROVE  Asked(r, more, ls) /\ Infos(r, o) \subseteq more /\ \A x \in 1..p : Piece(r, x) \in more
  BY DEF Ordered
<1>1. Piece(r, p) \in wr
  BY InfoIsNoPiece
<1>2. Asked(r, wr, ls) /\ Infos(r, o) \subseteq wr /\ \A x \in 1..p : Piece(r, x) \in wr
  BY <1>1 DEF Ordered
<1> QED
  BY <1>2, AskedStays

\* A file with nothing of its channel in it expects one last page.
LEMMA OutstandingFresh ==
  ASSUME NEW wr, NEW c \in Channels, \A k \in wr : ER!FileOf(k) # c
  PROVE  Outstanding(c, wr) = 1
<1>1. ASSUME NEW p \in 1..Len(Pages[c])
      PROVE  Piece(Ask(c), p) \notin wr
  BY AskForm, PieceForm
<1>2. ASSUME NEW t \in Found, Home[t] = c
      PROVE  Piece(Ask(t), Replies[t]) \notin wr
  BY <1>2, AskForm, PieceForm, ThreadPages
<1>3. Len(Pages[c]) \in 1..Len(Pages[c])
  BY PagesForm
<1>4. Received(c, wr) = {}
  BY <1>1, CallForm DEF Received
<1>5. Slots(Received(c, wr)) = {} /\ Ends(c, wr) = {}
  BY <1>2, <1>4 DEF Slots, Ends
<1> QED
  BY <1>1, <1>3, <1>5, FS_EmptySet DEF Outstanding

\* A chunk that is no page of the channel or of its threads makes no difference.
LEMMA OutstandingSame ==
  ASSUME NEW wr, NEW c \in Channels, NEW k, \A p \in 1..Len(Pages[c]) : Piece(Ask(c), p) # k,
         \A t \in Found : Home[t] = c => Piece(Ask(t), Replies[t]) # k
  PROVE  Outstanding(c, wr \cup {k}) = Outstanding(c, wr)
<1>1. Len(Pages[c]) \in 1..Len(Pages[c])
  BY PagesForm
<1>2. Received(c, wr \cup {k}) = Received(c, wr)
  BY CallForm DEF Received
<1>3. Ends(c, wr \cup {k}) = Ends(c, wr)
  BY DEF Ends
<1>4. Piece(Ask(c), Len(Pages[c])) \in wr \cup {k} <=> Piece(Ask(c), Len(Pages[c])) \in wr
  BY <1>1
<1> QED
  BY <1>2, <1>3, <1>4 DEF Outstanding

LEMMA Balance ==
  ASSUME NEW n \in Nat, NEW s \in Nat, NEW e \in Nat, NEW before, NEW after, NEW had \in BOOLEAN, NEW has \in BOOLEAN,
         NEW last \in BOOLEAN, before = (IF had THEN 0 ELSE 1) + s - e, after = (IF has THEN 0 ELSE 1) + (s + n) - e,
         has <=> had \/ last, last => ~had
  PROVE  after = before + n - (IF last THEN 1 ELSE 0)
OBVIOUS

\* A page of the channel or of a thread found in it is counted as the file tracker counts it.
LEMMA OutstandingPage ==
  ASSUME NEW wr, NEW ls, NEW o, Ordered(wr, ls, o), NEW r, Plain(r), ~r.only, r.id \in Channels \cup Found,
         NEW p \in 1..ER!NumPages(r.id), Piece(r, p) \notin wr
  PROVE  Outstanding(OwnFile(r), wr \cup {Piece(r, p)}) =
           Outstanding(OwnFile(r), wr) + ER!NumThreads(Piece(r, p)) - (IF ER!LastPage(Piece(r, p)) THEN 1 ELSE 0)
<1>1. r = Ask(r.id) /\ OwnFile(r) = ChannelOf(r)
  BY AskForm DEF OwnFile
<1>2. PICK c \in Channels : c = OwnFile(r)
  BY <1>1, PlainForm
<1>3. PICK k : k = Piece(r, p)
  OBVIOUS
<1>4. /\ Cardinality(Slots(Received(c, wr))) \in Nat
      /\ IsFiniteSet(Ends(c, wr)) /\ Cardinality(Ends(c, wr)) \in Nat
  BY OutstandingForm
<1>5. CASE r.id \in Channels
  <2>1. r = Ask(c) /\ p \in 1..Len(Pages[c]) /\ ER!NumPages(r.id) = Len(Pages[c]) /\ Len(Pages[c]) \in Nat
    BY <1>1, <1>2, <1>5, AskForm, PagesForm
  <2>2. /\ ER!NumThreads(k) = Len(Pages[c][p]) /\ Len(Pages[c][p]) \in Nat
        /\ ER!LastPage(k) <=> p = Len(Pages[c])
    BY <1>2, <1>3, <1>5, <2>1, PieceForm, PagesForm DEF Ask
  <2>3. PICK x : x = [kind |-> "channel", id |-> c, page |-> p]
    OBVIOUS
  <2>4. x \in Call /\ x.kind = "channel" /\ x.id = c /\ x.page = p /\ p > 0
    BY <2>1, <2>3, CallMade
  <2>5. NumThreads(x) = Len(Pages[c][p])
    BY <2>4 DEF NumThreads, IsPage
  <2>6. x \notin Received(c, wr)
    BY <2>1, <2>4 DEF Received
  <2>7. Received(c, wr \cup {k}) = Received(c, wr) \cup {x}
    <3>1. ASSUME NEW y \in Call, y.kind = "channel", y.id = c, y.page > 0, Piece(Ask(c), y.page) = k
          PROVE  y = x
      <4>1. y.page \in 1..ER!NumPages(Ask(c).id) /\ y = [kind |-> y.kind, id |-> y.id, page |-> y.page]
        BY <3>1, <2>1, CallForm DEF AtPage
      <4>2. y.page = p
        BY <1>3, <2>1, <3>1, <4>1, PieceOnce
      <4> QED
        BY <2>3, <3>1, <4>1, <4>2
    <3>2. Piece(Ask(c), x.page) = k
      BY <1>3, <2>1, <2>4
    <3> QED
      BY <2>4, <3>1, <3>2 DEF Received
  <2>8. Cardinality(Slots(Received(c, wr \cup {k}))) = Cardinality(Slots(Received(c, wr))) + Len(Pages[c][p])
    <3>1. PICK S : S = Received(c, wr)
      OBVIOUS
    <3>2. \A y \in S : y \in Call /\ y.kind = "channel" /\ y.id = c /\ y.page > 0
      BY <3>1 DEF Received
    <3>3. Cardinality(Slots(S \cup {x})) = Cardinality(Slots(S)) + NumThreads(x)
      BY <2>4, <2>6, <3>1, <3>2, SlotsAdd
    <3> QED
      BY <2>5, <2>7, <3>1, <3>3
  <2>9. Ends(c, wr \cup {k}) = Ends(c, wr)
    <3>1. ASSUME NEW t \in Found
          PROVE  Piece(Ask(t), Replies[t]) # k
      <4>1. Plain(Ask(t)) /\ Replies[t] \in 1..ER!NumPages(Ask(t).id) /\ Ask(t) # r
        BY <1>5, AskForm, ThreadPages
      <4> QED
        BY <1>3, <4>1, PieceOnce
    <3> QED
      BY <3>1 DEF Ends
  <2>10. Piece(Ask(c), Len(Pages[c])) \in wr \cup {k} <=> Piece(Ask(c), Len(Pages[c])) \in wr \/ p = Len(Pages[c])
    <3>1. Len(Pages[c]) \in 1..ER!NumPages(Ask(c).id)
      BY <2>1, AskForm, PagesForm
    <3>2. Piece(Ask(c), Len(Pages[c])) = k <=> p = Len(Pages[c])
      BY <1>3, <2>1, <3>1, PieceOnce
    <3> QED
      BY <3>2
  <2>11. p = Len(Pages[c]) => Piece(Ask(c), Len(Pages[c])) \notin wr
    BY <2>1
  <2> DEFINE S == Cardinality(Slots(Received(c, wr)))
             E == Cardinality(Ends(c, wr))
             own == Piece(Ask(c), Len(Pages[c]))
  <2>12. /\ Outstanding(c, wr) = (IF own \in wr THEN 0 ELSE 1) + S - E
         /\ Outstanding(c, wr \cup {k}) = (IF own \in wr \cup {k} THEN 0 ELSE 1) + (S + Len(Pages[c][p])) - E
    BY <2>8, <2>9 DEF Outstanding
  <2>13. S \in Nat /\ E \in Nat
    BY <1>4
  <2>14. /\ own \in wr \cup {k} <=> own \in wr \/ p = Len(Pages[c])
         /\ p = Len(Pages[c]) => own \notin wr
    BY <2>10, <2>11
  <2> HIDE DEF S, E, own
  <2>15. Outstanding(c, wr \cup {k}) = Outstanding(c, wr) + Len(Pages[c][p]) - (IF p = Len(Pages[c]) THEN 1 ELSE 0)
    <3>1. Len(Pages[c][p]) \in Nat
      BY <2>2
    <3>2. PICK n \in Nat : n = Len(Pages[c][p])
      BY <3>1
    <3>3. PICK s \in Nat : s = S
      BY <2>13
    <3>4. PICK e \in Nat : e = E
      BY <2>13
    <3>5. PICK before : before = Outstanding(c, wr)
      OBVIOUS
    <3>6. PICK after : after = Outstanding(c, wr \cup {k})
      OBVIOUS
    <3>7. PICK had \in BOOLEAN : had <=> own \in wr
      OBVIOUS
    <3>8. PICK has \in BOOLEAN : has <=> own \in wr \cup {k}
      OBVIOUS
    <3>9. PICK last \in BOOLEAN : last <=> p = Len(Pages[c])
      OBVIOUS
    <3>10. before = (IF had THEN 0 ELSE 1) + s - e
      BY <2>12, <3>3, <3>4, <3>5, <3>7
    <3>11. after = (IF has THEN 0 ELSE 1) + (s + n) - e
      BY <2>12, <3>2, <3>3, <3>4, <3>6, <3>8
    <3>12. (has <=> had \/ last) /\ (last => ~had)
      BY <2>14, <3>7, <3>8, <3>9
    <3>13. after = before + n - (IF last THEN 1 ELSE 0)
      BY <3>10, <3>11, <3>12, Balance
    <3> QED
      BY <3>2, <3>5, <3>6, <3>9, <3>13
  <2> QED
    BY <1>2, <1>3, <2>2, <2>15
<1>6. CASE r.id \notin Channels
  <2>1. /\ r.id \in Found /\ Home[r.id] = c /\ ER!NumPages(r.id) = Replies[r.id] /\ p \in 1..Replies[r.id]
        /\ Replies[r.id] \in Nat \ {0}
    BY <1>1, <1>2, <1>6, AskForm, ThreadPages
  <2>2. ER!NumThreads(k) = 0 /\ (ER!LastPage(k) <=> p = Replies[r.id])
    BY <1>3, <1>6, <2>1, PieceForm
  <2>3. ASSUME NEW q \in 1..Len(Pages[c])
        PROVE  Piece(Ask(c), q) # k
    <3>1. Plain(Ask(c)) /\ q \in 1..ER!NumPages(Ask(c).id) /\ Ask(c) # r
      BY <1>6, AskForm
    <3> QED
      BY <1>3, <3>1, PieceOnce
  <2>4. ASSUME NEW t \in Found
        PROVE  Piece(Ask(t), Replies[t]) = k <=> t = r.id /\ p = Replies[t]
    <3>1. Plain(Ask(t)) /\ Replies[t] \in 1..ER!NumPages(Ask(t).id)
      BY AskForm, ThreadPages
    <3>2. Piece(Ask(t), Replies[t]) = k => Ask(t) = r /\ p = Replies[t]
      BY <1>3, <3>1, PieceOnce
    <3> QED
      BY <1>1, <1>3, <3>2, AskForm
  <2>5. Received(c, wr \cup {k}) = Received(c, wr)
    BY <2>3, CallForm DEF Received
  <2>6. Len(Pages[c]) \in 1..Len(Pages[c])
    BY PagesForm
  <2>7. Piece(Ask(c), Len(Pages[c])) \in wr \cup {k} <=> Piece(Ask(c), Len(Pages[c])) \in wr
    BY <2>3, <2>6
  <2>8. CASE p = Replies[r.id]
    <3>1. Ends(c, wr \cup {k}) = Ends(c, wr) \cup {r.id} /\ r.id \notin Ends(c, wr)
      BY <1>1, <1>3, <2>1, <2>4, <2>8 DEF Ends
    <3>2. Cardinality(Ends(c, wr \cup {k})) = Cardinality(Ends(c, wr)) + 1
      BY <1>4, <3>1, FS_AddElement
    <3> QED
      BY <1>2, <1>3, <1>4, <2>2, <2>5, <2>7, <2>8, <3>2 DEF Outstanding
  <2>9. CASE p # Replies[r.id]
    <3>1. Ends(c, wr \cup {k}) = Ends(c, wr)
      BY <2>4, <2>9 DEF Ends
    <3> QED
      BY <1>2, <1>3, <1>4, <2>2, <2>5, <2>7, <2>9, <3>1 DEF Outstanding
  <2> QED
    BY <2>8, <2>9
<1> QED
  BY <1>5, <1>6

\* Everything of a closed file is in it.
ClosedOver(f, wr, ls, o, rest) ==
  \/ /\ f \in ls \cap Channels /\ Infos(Ask(f), o) \subseteq wr /\ PagesIn(Ask(f), wr)
     /\ \A t \in Found : Home[t] = f => PagesIn(Ask(t), wr)
  \/ f \in ls \cap Threads /\ PagesIn([id |-> f, only |-> TRUE], wr)
  \/ f = "workspace" /\ f \in ER!ListFiles /\ \A i \in DOMAIN rest : rest[i] # f

\* A chunk that belongs to the session.
Belongs(k, wr, ls, o) ==
  \E r : Asked(r, wr, ls) /\ (k \in Infos(r, o) \/ \E p \in 1..ER!NumPages(r.id) : k = Piece(r, p))

ErcTypes ==
  /\ ER!TypeOK /\ links \subseteq Channels \cup Threads
  /\ lists \in Seq(STRING) /\ \A i \in DOMAIN lists : lists[i] \in ER!ListFiles
  /\ \A i, j \in DOMAIN lists : lists[i] = "workspace" /\ lists[j] = "workspace" => i = j
ErcWaiting ==
  \A r \in waiting : Asked(r, ercWritten, links) /\ \A p \in 1..ER!NumPages(r.id) : Piece(r, p) \notin ercWritten
ErcWorking ==
  \A w \in Workers :
    IF req[w] = ER!Idle THEN left[w] = {}
    ELSE /\ Asked(req[w], ercWritten, links) /\ req[w] \notin waiting
         /\ req[w].id \in Channels <=> w = "channel"
         /\ ercPage[w] \in 1..ER!NumPages(req[w].id)
         /\ left[w] # {} => WithInfo(req[w]) /\ ercPage[w] = 1
         /\ \A p \in 1..ER!NumPages(req[w].id) : Piece(req[w], p) \in ercWritten <=> p < ercPage[w]
         /\ WithInfo(req[w]) => \A type \in {"info", "users"} \ left[w] : Info(type, req[w], origin) \in ercWritten
ErcWrote ==
  /\ Ordered(ercWritten, links, origin)
  /\ \A k \in ercWritten : Belongs(k, ercWritten, links, origin)
  /\ \A k \in ercWritten : file[ER!FileOf(k)] # "none"
ErcProgress ==
  ~ercFailed => \A r : Asked(r, ercWritten, links) =>
    \/ r \in waiting \/ \E w \in Workers : req[w] = r
    \/ Infos(r, origin) \subseteq ercWritten /\ PagesIn(r, ercWritten)
ErcFiles ==
  ~ended =>
    /\ \A f \in ER!Files : file[f] = "closed" => ClosedOver(f, ercWritten, links, origin, lists)
    /\ \A c \in links \cap Channels : file[c] = "open" => ercCount[c] = Outstanding(c, ercWritten)
ErcEnd ==
  /\ ercFailed => \E t \in links \cap Threads : Home[t] \in links
  /\ ended /\ ~ercFailed => ER!Done

ErcInv == ErcTypes /\ ErcWaiting /\ ErcWorking /\ ErcWrote /\ ErcProgress /\ ErcFiles /\ ErcEnd

LEMMA ErcNames ==
  /\ ER!Workers = Workers
  /\ \A x \in Channels \cup Threads : x \in ER!Files /\ x \notin ER!ListFiles
  /\ \A x \in ER!ListFiles : x \in ER!Files
  /\ \A f \in ER!Files : f \in Channels \cup Threads \/ f \in ER!ListFiles
BY BackendsAssumption DEF ER!Workers, Workers, ER!Files, ER!ListFiles

LEMMA ErcInitInv == ASSUME ER!Init PROVE ErcInv
<1>1. /\ origin \in {"stream", "database"} /\ links \in LinkSets /\ links \subseteq Channels \cup Threads
      /\ waiting = {[id |-> l, only |-> l \in Threads] : l \in links}
      /\ req = [w \in Workers |-> ER!Idle] /\ left = [w \in Workers |-> {}]
      /\ ercPage = [w \in Workers |-> 1] /\ lists = Lists
      /\ file = [f \in ER!Files |-> "none"] /\ ercCount = [f \in ER!Files |-> 0]
      /\ ercWritten = {} /\ ercFailed = FALSE /\ ended = FALSE
  BY BackendsAssumption, ErcNames DEF ER!Init
<1>2. waiting \subseteq ER!Requests
  <2>1. ASSUME NEW l \in links
        PROVE  [id |-> l, only |-> l \in Threads] \in ER!Requests
    BY <1>1 DEF ER!Requests
  <2> QED
    BY <1>1, <2>1
<1>3. Lists \in Seq(STRING) /\ Len(Lists) \in Nat /\ DOMAIN Lists = 1..Len(Lists)
  BY BackendsAssumption
<1>4. ErcTypes
  <2>1. ER!TypeOK
    <3>1. origin \in {"stream", "database"} /\ links \in LinkSets /\ waiting \subseteq ER!Requests
      BY <1>1, <1>2
    <3>2. req \in [Workers -> ER!Requests \cup {ER!Idle}] /\ left \in [Workers -> SUBSET {"info", "users"}]
      BY <1>1
    <3>3. ercPage \in [Workers -> Nat \ {0}] /\ Len(lists) <= Len(Lists)
      BY <1>1, <1>3
    <3>4. /\ file \in [ER!Files -> {"none", "open", "closed"}] /\ ercCount \in [ER!Files -> Int]
          /\ ercFailed \in BOOLEAN /\ ended \in BOOLEAN
      <4>1. file = [f \in ER!Files |-> "none"] /\ ercCount = [f \in ER!Files |-> 0]
        BY <1>1
      <4>2. ercFailed = FALSE /\ ended = FALSE
        BY <1>1
      <4>3. file \in [ER!Files -> {"none", "open", "closed"}]
        BY <4>1
      <4>4. ercCount \in [ER!Files -> Int]
        BY <4>1
      <4>5. ercFailed \in BOOLEAN /\ ended \in BOOLEAN
        BY <4>2
      <4> QED
        BY <4>3, <4>4, <4>5
    <3> QED
      BY <3>1, <3>2, <3>3, <3>4, ErcNames DEF ER!TypeOK
  <2> QED
    BY <1>1, <1>3, <2>1, BackendsAssumption DEF ErcTypes, ER!ListFiles
<1>5. ErcWaiting
  <2>1. ASSUME NEW r \in waiting
        PROVE  Asked(r, ercWritten, links)
    <3>1. PICK l \in links : r = [id |-> l, only |-> l \in Threads]
      BY <1>1
    <3>2. r.id = l /\ (r.only <=> l \in Threads) /\ l \in Channels \cup Threads
      BY <1>1, <3>1
    <3>3. r \in ER!Requests
      BY <1>2
    <3> QED
      BY <3>2, <3>3, CallsAssumption DEF Asked, Plain, WithInfo
  <2> QED
    BY <1>1, <2>1 DEF ErcWaiting
<1>6. ErcWorking
  BY <1>1 DEF ErcWorking
<1>7. ErcWrote
  BY <1>1 DEF ErcWrote, Ordered
<1>8. ErcProgress
  <2>1. ASSUME NEW r, Asked(r, ercWritten, links)
        PROVE  r \in waiting
    <3>1. WithInfo(r)
      BY <1>1, <2>1 DEF Asked, FoundOn
    <3>2. Plain(r) /\ r.id \in links
      BY <2>1, <3>1 DEF Asked
    <3>3. r = [id |-> r.id, only |-> r.only] /\ (r.only <=> r.id \in Threads) /\ r.only \in BOOLEAN
      BY <3>1, <3>2, PlainForm DEF WithInfo, Plain
    <3> QED
      BY <1>1, <3>2, <3>3
  <2> QED
    BY <2>1 DEF ErcProgress
<1>9. ErcFiles /\ ErcEnd
  BY <1>1, ErcNames DEF ErcFiles, ErcEnd
<1> QED
  BY <1>4, <1>5, <1>6, <1>7, <1>8, <1>9 DEF ErcInv

LEMMA ErcTakeKept == ASSUME ErcInv, NEW w \in Workers, ER!Take(w) PROVE ErcInv'
<1>1. PICK r \in waiting :
        /\ r.id \in Channels <=> w = "channel"
        /\ waiting' = waiting \ {r}
        /\ req' = [req EXCEPT ![w] = r] /\ ercPage' = [ercPage EXCEPT ![w] = 1]
        /\ left' = [left EXCEPT ![w] = ER!InfoWithUsers(w, r)]
  BY DEF ER!Take
<1>2. /\ req[w] = ER!Idle
      /\ UNCHANGED <<origin, links, lists, file, ercCount, ercWritten, ercFailed, ended>>
  BY DEF ER!Take
<1>3. Asked(r, ercWritten, links) /\ \A p \in 1..ER!NumPages(r.id) : Piece(r, p) \notin ercWritten
  BY DEF ErcInv, ErcWaiting
<1>4. Plain(r) /\ r # ER!Idle /\ r \in ER!Requests /\ ER!NumPages(r.id) \in Nat \ {0}
  BY <1>3, PlainForm DEF Asked, Plain
<1>5. ER!InfoWithUsers(w, r) = IF WithInfo(r) THEN {"info", "users"} ELSE {}
  BY <1>1 DEF ER!InfoWithUsers, WithInfo
<1>6. /\ req \in [Workers -> ER!Requests \cup {ER!Idle}] /\ left \in [Workers -> SUBSET {"info", "users"}]
      /\ ercPage \in [Workers -> Nat \ {0}] /\ waiting \subseteq ER!Requests
  BY ErcNames DEF ErcInv, ErcTypes, ER!TypeOK
<1>7. /\ req' \in [Workers -> ER!Requests \cup {ER!Idle}] /\ left' \in [Workers -> SUBSET {"info", "users"}]
      /\ ercPage' \in [Workers -> Nat \ {0}] /\ waiting' \subseteq ER!Requests
      /\ req'[w] = r /\ ercPage'[w] = 1 /\ left'[w] = (IF WithInfo(r) THEN {"info", "users"} ELSE {})
      /\ \A v \in Workers \ {w} : req'[v] = req[v] /\ ercPage'[v] = ercPage[v] /\ left'[v] = left[v]
  BY <1>1, <1>4, <1>5, <1>6
<1>8. ErcTypes'
  BY <1>2, <1>7, ErcNames DEF ErcInv, ErcTypes, ER!TypeOK
<1>9. ErcWaiting'
  BY <1>1, <1>2 DEF ErcInv, ErcWaiting
<1>10. ErcWorking'
  <2>1. \A p \in 1..ER!NumPages(r.id) : ~(p < 1)
    OBVIOUS
  <2>2. ASSUME NEW v \in Workers \ {w}
        PROVE  req[v] # ER!Idle => req[v] \notin waiting'
    BY <1>1 DEF ErcInv, ErcWorking
  <2>3. 1 \in 1..ER!NumPages(r.id)
    BY <1>4
  <2>4. /\ Asked(r, ercWritten, links) /\ r \notin waiting' /\ (r.id \in Channels <=> w = "channel")
        /\ (left'[w] # {} => WithInfo(r))
        /\ \A p \in 1..ER!NumPages(r.id) : Piece(r, p) \in ercWritten <=> p < 1
        /\ (WithInfo(r) => {"info", "users"} \ left'[w] = {})
    BY <1>1, <1>3, <1>7, <2>1
  <2> QED
    BY <1>2, <1>4, <1>7, <2>2, <2>3, <2>4 DEF ErcInv, ErcWorking
<1>11. ErcWrote'
  BY <1>2 DEF ErcInv, ErcWrote
<1>12. ErcProgress'
  <2>1. \A x : x \in waiting => x \in waiting' \/ req'[w] = x
    BY <1>1, <1>7
  <2>2. \A v \in Workers : req[v] # ER!Idle => v # w
    BY <1>2
  <2>3. ASSUME NEW x, Asked(x, ercWritten, links), NEW v \in Workers, req[v] = x
        PROVE  req'[v] = x
    BY <1>2, <1>7, <2>3, PlainForm DEF Asked
  <2> QED
    BY <1>2, <2>1, <2>3 DEF ErcInv, ErcProgress
<1>13. ErcFiles' /\ ErcEnd'
  <2>1. ErcFiles'
    BY <1>2 DEF ErcInv, ErcFiles
  <2>2. ~ended
    BY DEF ER!Take, ER!Working
  <2> QED
    BY <1>2, <2>1, <2>2 DEF ErcInv, ErcEnd
<1> QED
  BY <1>8, <1>9, <1>10, <1>11, <1>12, <1>13 DEF ErcInv

LEMMA BelongsStays ==
  ASSUME NEW wr, NEW more, wr \subseteq more, NEW ls, NEW o, NEW k, Belongs(k, wr, ls, o)
  PROVE  Belongs(k, more, ls, o)
<1>1. PICK r : Asked(r, wr, ls) /\ (k \in Infos(r, o) \/ \E p \in 1..ER!NumPages(r.id) : k = Piece(r, p))
  BY DEF Belongs
<1>2. Asked(r, more, ls)
  BY <1>1, AskedStays
<1> QED
  BY <1>1, <1>2 DEF Belongs

LEMMA ClosedOverStays ==
  ASSUME NEW wr, NEW more, wr \subseteq more, NEW ls, NEW o, NEW rest, NEW f, ClosedOver(f, wr, ls, o, rest)
  PROVE  ClosedOver(f, more, ls, o, rest)
BY DEF ClosedOver, PagesIn

\* The file of a request that is going on is closed only when its channel was asked for with the thread.
LEMMA RequestOpen ==
  ASSUME ErcInv, ~ended, NEW w \in Workers, req[w] # ER!Idle,
         NEW f \in {req[w].id, ChannelOf(req[w]), OwnFile(req[w])}, file[f] = "closed"
  PROVE  /\ f # OwnFile(req[w])
         /\ \E t \in links \cap Threads : Home[t] \in links
<1>1. PICK r : r = req[w]
  OBVIOUS
<1>2. /\ Asked(r, ercWritten, links) /\ ercPage[w] \in 1..ER!NumPages(r.id)
      /\ Piece(r, ercPage[w]) \in ercWritten <=> ercPage[w] < ercPage[w]
  BY <1>1 DEF ErcInv, ErcWorking
<1>3. Plain(r) /\ ercPage[w] \in Nat /\ Piece(r, ercPage[w]) \notin ercWritten
  BY <1>2, PlainForm DEF Asked
<1>4. ~PagesIn(r, ercWritten)
  BY <1>2, <1>3 DEF PagesIn
<1>5. f \in Channels \cup Threads
  BY <1>1, <1>3, PlainForm DEF OwnFile
<1>6. ClosedOver(f, ercWritten, links, origin, lists) /\ f \notin ER!ListFiles
  BY <1>5, ErcNames DEF ErcInv, ErcFiles
<1>7. CASE r.id \in Channels
  <2>1. r = Ask(r.id) /\ f = r.id /\ f \notin Threads
    BY <1>1, <1>3, <1>7, AskForm, PlainForm DEF ChannelOf, OwnFile, Plain
  <2> QED
    BY <1>4, <1>6, <2>1 DEF ClosedOver
<1>8. CASE r.id \notin Channels /\ r.only
  <2>1. r = [id |-> r.id, only |-> TRUE] /\ r.id \in Threads /\ r.id \in links /\ f \in {r.id, Home[r.id]}
        /\ OwnFile(r) = r.id /\ Home[r.id] \in Channels
    BY <1>1, <1>2, <1>3, <1>8, PlainForm DEF ChannelOf, OwnFile, Asked, WithInfo
  <2>2. f # r.id
    BY <1>4, <1>6, <1>8, <2>1 DEF ClosedOver
  <2>3. Home[r.id] \in links
    BY <1>6, <2>1, <2>2, CallsAssumption DEF ClosedOver
  <2> QED
    BY <1>1, <2>1, <2>2, <2>3
<1>9. CASE r.id \notin Channels /\ ~r.only
  <2>1. r = Ask(r.id) /\ r.id \in Threads /\ Home[r.id] \in Channels /\ Home[r.id] \in links /\ FoundOn(r.id, ercWritten)
    BY <1>2, <1>3, <1>9, AskForm, PlainForm DEF Asked, WithInfo, ChannelOf
  <2>2. r.id \in Found
    BY <2>1, PagesForm DEF FoundOn, Found
  <2>3. f = r.id \/ f = Home[r.id]
    BY <1>1, <1>9 DEF OwnFile, ChannelOf
  <2>4. f # Home[r.id]
    <3>1. SUFFICES ASSUME f = Home[r.id] PROVE FALSE
      OBVIOUS
    <3>2. PagesIn(Ask(r.id), ercWritten)
      BY <1>6, <2>1, <2>2, <3>1, CallsAssumption DEF ClosedOver
    <3> QED
      BY <1>4, <2>1, <3>2
  <2>5. f = r.id /\ r.id \in links /\ OwnFile(r) = Home[r.id]
    BY <1>6, <1>9, <2>1, <2>3, <2>4 DEF ClosedOver, OwnFile, ChannelOf
  <2> QED
    BY <1>1, <2>1, <2>4, <2>5
<1> QED
  BY <1>7, <1>8, <1>9

\* An encoder that gives its request up: what is left is unchanged but for the error.
LEMMA ErcRefusedKept ==
  ASSUME ErcInv, ~ended, NEW w \in Workers, req[w] # ER!Idle, ercFailed' = TRUE,
         req' = [req EXCEPT ![w] = ER!Idle], left' = [left EXCEPT ![w] = {}],
         UNCHANGED <<waiting, ercPage, file, ercCount, ercWritten, origin, links, lists, ended>>,
         \E t \in links \cap Threads : Home[t] \in links
  PROVE  ErcInv'
<1>1. /\ req \in [Workers -> ER!Requests \cup {ER!Idle}] /\ left \in [Workers -> SUBSET {"info", "users"}]
  BY ErcNames DEF ErcInv, ErcTypes, ER!TypeOK
<1>2. /\ req' \in [Workers -> ER!Requests \cup {ER!Idle}] /\ left' \in [Workers -> SUBSET {"info", "users"}]
      /\ req'[w] = ER!Idle /\ left'[w] = {}
      /\ \A v \in Workers \ {w} : req'[v] = req[v] /\ left'[v] = left[v]
  BY <1>1
<1>3. ErcTypes'
  BY <1>2, ErcNames DEF ErcInv, ErcTypes, ER!TypeOK
<1>4. ErcWaiting' /\ ErcWrote' /\ ErcProgress'
  BY DEF ErcInv, ErcWaiting, ErcWrote, ErcProgress
<1>5. ErcWorking'
  BY <1>2 DEF ErcInv, ErcWorking
<1>6. ErcFiles' /\ ErcEnd'
  BY DEF ErcInv, ErcFiles, ErcEnd
<1> QED
  BY <1>3, <1>4, <1>5, <1>6 DEF ErcInv
LEMMA ErcInfoKept == ASSUME ErcInv, NEW w \in Workers, ER!EncodeInfo(w) PROVE ErcInv'
<1>1. /\ ~ended /\ UNCHANGED <<origin, links, lists, ended>>
      /\ origin \in {"stream", "database"}
  BY DEF ER!EncodeInfo, ER!Working, ErcInv, ErcTypes, ER!TypeOK
<1>2. PICK type \in left[w] :
        LET k == ER!Encoded(ER!Chunk(type, req[w], 0)) IN
        \/ ER!Refused(w, k)
        \/ ER!Write(k) /\ left' = [left EXCEPT ![w] = @ \ {type}] /\ UNCHANGED <<waiting, req, ercPage>>
  BY DEF ER!EncodeInfo
<1>3. PICK r : r = req[w]
  OBVIOUS
<1>4. /\ r # ER!Idle /\ Asked(r, ercWritten, links) /\ WithInfo(r) /\ ercPage[w] = 1 /\ type \in {"info", "users"}
      /\ left[w] \subseteq {"info", "users"}
  <2>1. left \in [Workers -> SUBSET {"info", "users"}] /\ left[w] # {}
    BY ErcNames DEF ErcInv, ErcTypes, ER!TypeOK
  <2> QED
    BY <1>3, <2>1 DEF ErcInv, ErcWorking
<1>5. Plain(r)
  BY <1>4 DEF Asked
<1>6. PICK k : k = Info(type, r, origin)
  OBVIOUS
<1>7. /\ ER!Encoded(ER!Chunk(type, req[w], 0)) = k /\ ER!FileOf(k) \in {r.id, ChannelOf(r)}
      /\ ER!NumThreads(k) = 0 /\ ~ER!LastPage(k) /\ k \in Infos(r, origin)
  BY <1>1, <1>3, <1>4, <1>5, <1>6, InfoForm DEF Infos
<1>8. CASE ER!Refused(w, k)
  <2>1. /\ file[ER!FileOf(k)] = "closed" /\ ercFailed' = TRUE
        /\ req' = [req EXCEPT ![w] = ER!Idle] /\ left' = [left EXCEPT ![w] = {}]
        /\ UNCHANGED <<waiting, ercPage, file, ercCount, ercWritten>>
    BY <1>8 DEF ER!Refused
  <2>2. \E t \in links \cap Threads : Home[t] \in links
    BY <1>1, <1>3, <1>4, <1>7, <2>1, RequestOpen
  <2> QED
    BY <1>1, <1>3, <1>4, <2>1, <2>2, ErcRefusedKept
<1>9. CASE ER!Write(k) /\ left' = [left EXCEPT ![w] = @ \ {type}] /\ UNCHANGED <<waiting, req, ercPage>>
  <2>1. PICK f : f = ER!FileOf(k)
    OBVIOUS
  <2>2. f \in ER!Files /\ f \in Channels \cup Threads
    BY <1>5, <1>7, <2>1, PlainForm, ErcNames
  <2>3. /\ file[f] # "closed" /\ ercWritten' = ercWritten \cup {k} /\ UNCHANGED ercFailed
        /\ ercCount' = [ercCount EXCEPT ![f] = ER!CountOf(f) + 0 - 0]
        /\ file' = [file EXCEPT ![f] = "open"]
    BY <1>7, <1>9, <2>1 DEF ER!Write
  <2>4. /\ file \in [ER!Files -> {"none", "open", "closed"}] /\ ercCount \in [ER!Files -> Int]
        /\ left \in [Workers -> SUBSET {"info", "users"}]
    BY ErcNames DEF ErcInv, ErcTypes, ER!TypeOK
  <2>5. ER!CountOf(f) \in Int
    BY <2>2, <2>4 DEF ER!CountOf
  <2>6. /\ file' \in [ER!Files -> {"none", "open", "closed"}] /\ ercCount' \in [ER!Files -> Int]
        /\ left' \in [Workers -> SUBSET {"info", "users"}]
        /\ file'[f] = "open" /\ ercCount'[f] = ER!CountOf(f)
        /\ \A g \in ER!Files \ {f} : file'[g] = file[g] /\ ercCount'[g] = ercCount[g]
        /\ left'[w] = left[w] \ {type} /\ \A v \in Workers \ {w} : left'[v] = left[v]
    BY <1>9, <2>2, <2>3, <2>4, <2>5
  <2>7. \A s : Plain(s) => \A p \in 1..ER!NumPages(s.id) : Piece(s, p) \in ercWritten' <=> Piece(s, p) \in ercWritten
    BY <1>4, <1>6, <2>3, InfoIsNoPiece
  <2>8. \A s : Asked(s, ercWritten, links) => Asked(s, ercWritten', links)
    BY <2>3, AskedStays
  <2>9. ASSUME NEW s, Asked(s, ercWritten', links)
        PROVE  Asked(s, ercWritten, links)
    <3>1. CASE WithInfo(s)
      BY <2>9, <3>1 DEF Asked
    <3>2. CASE ~WithInfo(s)
      <4>1. FoundOn(s.id, ercWritten') /\ Home[s.id] \in Channels
        BY <2>9, <3>2, PlainForm DEF Asked, WithInfo, ChannelOf
      <4>2. \A p \in 1..Len(Pages[Home[s.id]]) :
              Piece(Ask(Home[s.id]), p) \in ercWritten' <=> Piece(Ask(Home[s.id]), p) \in ercWritten
        BY <2>7, <4>1, AskForm
      <4>3. FoundOn(s.id, ercWritten)
        BY <4>1, <4>2 DEF FoundOn
      <4> QED
        BY <2>9, <3>2, <4>3 DEF Asked
    <3> QED
      BY <3>1, <3>2
  <2>10. ErcTypes'
    BY <1>1, <1>9, <2>3, <2>6, ErcNames DEF ErcInv, ErcTypes, ER!TypeOK
  <2>11. ErcWaiting'
    <3>1. ASSUME NEW x \in waiting
          PROVE  Asked(x, ercWritten', links) /\ \A p \in 1..ER!NumPages(x.id) : Piece(x, p) \notin ercWritten'
      <4>1. Asked(x, ercWritten, links) /\ \A p \in 1..ER!NumPages(x.id) : Piece(x, p) \notin ercWritten
        BY DEF ErcInv, ErcWaiting
      <4> QED
        BY <2>7, <2>8, <4>1 DEF Asked
    <3> QED
      BY <1>1, <1>9, <3>1 DEF ErcWaiting
  <2>12. ErcWorking'
    <3> SUFFICES ASSUME NEW v \in Workers, req[v] # ER!Idle
                 PROVE  /\ Asked(req[v], ercWritten', links) /\ req[v] \notin waiting
                        /\ req[v].id \in Channels <=> v = "channel"
                        /\ ercPage[v] \in 1..ER!NumPages(req[v].id)
                        /\ left'[v] # {} => WithInfo(req[v]) /\ ercPage[v] = 1
                        /\ \A p \in 1..ER!NumPages(req[v].id) : Piece(req[v], p) \in ercWritten' <=> p < ercPage[v]
                        /\ WithInfo(req[v]) => \A y \in {"info", "users"} \ left'[v] : Info(y, req[v], origin) \in ercWritten'
      <4>1. \A v \in Workers : req[v] = ER!Idle => v # w /\ left'[v] = {}
        BY <1>3, <1>4, <2>6 DEF ErcInv, ErcWorking
      <4> QED
        BY <1>1, <1>9, <4>1 DEF ErcWorking
    <3>1. /\ Asked(req[v], ercWritten, links) /\ req[v] \notin waiting
          /\ req[v].id \in Channels <=> v = "channel"
          /\ ercPage[v] \in 1..ER!NumPages(req[v].id)
          /\ left[v] # {} => WithInfo(req[v]) /\ ercPage[v] = 1
          /\ \A p \in 1..ER!NumPages(req[v].id) : Piece(req[v], p) \in ercWritten <=> p < ercPage[v]
          /\ WithInfo(req[v]) => \A y \in {"info", "users"} \ left[v] : Info(y, req[v], origin) \in ercWritten
      BY DEF ErcInv, ErcWorking
    <3>2. Plain(req[v])
      BY <3>1 DEF Asked
    <3>3. left'[v] \subseteq left[v] /\ \A y \in left[v] \ left'[v] : v = w /\ y = type
      BY <2>6
    <3>4. WithInfo(req[v]) => \A y \in {"info", "users"} \ left'[v] : Info(y, req[v], origin) \in ercWritten'
      BY <1>3, <1>6, <2>3, <3>1, <3>3
    <3> QED
      BY <2>7, <2>8, <3>1, <3>2, <3>3, <3>4
  <2>13. ErcWrote'
    <3>1. Ordered(ercWritten', links, origin)
      BY <1>4, <1>6, <2>3, OrderedInfo DEF ErcInv, ErcWrote
    <3>2. \A x \in ercWritten : Belongs(x, ercWritten', links, origin)
      BY <2>3, BelongsStays DEF ErcInv, ErcWrote
    <3>3. Belongs(k, ercWritten', links, origin)
      BY <1>4, <1>7, <2>8 DEF Belongs
    <3>4. \A x \in ercWritten : file[ER!FileOf(x)] # "none" /\ (ER!FileOf(x) \in ER!Files => file'[ER!FileOf(x)] # "none")
      BY <2>6 DEF ErcInv, ErcWrote
    <3>5. \A x \in ercWritten : file'[ER!FileOf(x)] # "none"
      <4>1. \A x : file'[x] # "none" \/ file'[x] = file[x]
        BY <2>3, <2>4, <2>6
      <4> QED
        BY <3>4, <4>1
    <3> QED
      BY <1>1, <2>1, <2>3, <2>6, <3>1, <3>2, <3>3, <3>5 DEF ErcWrote
  <2>14. ErcProgress'
    BY <1>1, <1>9, <2>3, <2>9 DEF ErcInv, ErcProgress, PagesIn
  <2>15. ErcFiles'
    <3>1. ASSUME NEW g \in ER!Files, file'[g] = "closed"
          PROVE  ClosedOver(g, ercWritten', links, origin, lists)
      <4>1. file[g] = "closed"
        BY <2>6, <3>1
      <4> QED
        BY <1>1, <2>3, <4>1, ClosedOverStays DEF ErcInv, ErcFiles
    <3>2. ASSUME NEW c \in links \cap Channels, file'[c] = "open"
          PROVE  ercCount'[c] = Outstanding(c, ercWritten')
      <4>1. \A p \in 1..Len(Pages[c]) : Piece(Ask(c), p) # k
        BY <1>4, <1>6, AskForm, InfoIsNoPiece
      <4>2. ASSUME NEW t \in Found
            PROVE  Piece(Ask(t), Replies[t]) # k
        <5>1. Plain(Ask(t)) /\ Replies[t] \in 1..ER!NumPages(Ask(t).id)
          BY AskForm, ThreadPages
        <5> QED
          BY <1>4, <1>6, <5>1, InfoIsNoPiece
      <4>3. Outstanding(c, ercWritten') = Outstanding(c, ercWritten)
        BY <2>3, <4>1, <4>2, OutstandingSame
      <4>4. c \in ER!Files
        BY ErcNames
      <4>5. CASE c # f
        BY <1>1, <2>6, <3>2, <4>3, <4>4, <4>5 DEF ErcInv, ErcFiles
      <4>6. CASE c = f /\ file[f] = "open"
        BY <1>1, <2>6, <4>3, <4>6 DEF ErcInv, ErcFiles, ER!CountOf
      <4>7. CASE c = f /\ file[f] = "none"
        <5>1. \A x \in ercWritten : ER!FileOf(x) # c
          BY <4>7 DEF ErcInv, ErcWrote
        <5> QED
          BY <2>6, <4>3, <4>7, <5>1, OutstandingFresh DEF ER!CountOf
      <4> QED
        BY <2>2, <2>3, <2>4, <4>5, <4>6, <4>7
    <3> QED
      BY <1>1, <3>1, <3>2 DEF ErcFiles
  <2>16. ErcEnd'
    BY <1>1, <2>3 DEF ErcInv, ErcEnd
  <2> QED
    BY <2>10, <2>11, <2>12, <2>13, <2>14, <2>15, <2>16 DEF ErcInv
<1> QED
  BY <1>2, <1>7, <1>8, <1>9

LEMMA ErcPageKept == ASSUME ErcInv, NEW w \in Workers, ER!EncodePage(w) PROVE ErcInv'
<1>1. /\ ~ended /\ UNCHANGED <<origin, links, lists, ended>>
      /\ req[w] # ER!Idle /\ left[w] = {}
  BY DEF ER!EncodePage, ER!Working
<1>2. PICK r : r = req[w]
  OBVIOUS
<1>3. PICK p : p = ercPage[w]
  OBVIOUS
<1>4. /\ r # ER!Idle /\ Asked(r, ercWritten, links) /\ r \notin waiting /\ (r.id \in Channels <=> w = "channel")
      /\ p \in 1..ER!NumPages(r.id)
      /\ \A q \in 1..ER!NumPages(r.id) : Piece(r, q) \in ercWritten <=> q < p
      /\ Infos(r, origin) \subseteq ercWritten
  BY <1>1, <1>2, <1>3 DEF ErcInv, ErcWorking, Infos
<1>5. Plain(r) /\ p \in Nat \ {0} /\ ER!NumPages(r.id) \in Nat \ {0} /\ r = [id |-> r.id, only |-> r.only]
  BY <1>4, PlainForm DEF Asked
<1>6. PICK k : k = Piece(r, p)
  OBVIOUS
<1>7. /\ ER!FileOf(k) = OwnFile(r) /\ (ER!LastPage(k) <=> p = ER!NumPages(r.id))
      /\ ER!NumThreads(k) = (IF r.id \in Channels THEN Len(Pages[r.id][p]) ELSE 0)
      /\ k.ch = ChannelOf(r) /\ k.page = p
      /\ ER!Encoded(ER!Chunk(IF w = "channel" THEN "messages" ELSE "thread", req[w], ercPage[w])) = k
  <2>1. ER!Chunk(IF w = "channel" THEN "messages" ELSE "thread", req[w], ercPage[w]) = Piece(r, p)
    BY <1>2, <1>3, <1>4 DEF Piece
  <2> QED
    BY <1>4, <1>5, <1>6, <2>1, PieceForm
<1>8. PICK f : f = OwnFile(r)
  OBVIOUS
<1>9. f \in ER!Files /\ f \in Channels \cup Threads
  BY <1>5, <1>8, PlainForm, ErcNames DEF OwnFile
<1>10. file[f] # "closed"
  BY <1>1, <1>2, <1>8, RequestOpen
<1>11. PICK new :
         /\ waiting' = waiting \cup new
         /\ new = (IF w = "channel" THEN {[id |-> Pages[k.ch][k.page][i], only |-> FALSE] : i \in 1..ER!NumThreads(k)}
                   ELSE {})
         /\ ER!Write(k)
         /\ req' = [req EXCEPT ![w] = IF ER!LastPage(k) THEN ER!Idle ELSE @]
         /\ ercPage' = [ercPage EXCEPT ![w] = IF ER!LastPage(k) THEN 1 ELSE @ + 1]
         /\ left' = left
  <2> DEFINE next(x) ==
        /\ ER!Write(x)
        /\ waiting' = waiting \cup (IF w = "channel"
             THEN {[id |-> Pages[x.ch][x.page][i], only |-> FALSE] : i \in 1..ER!NumThreads(x)} ELSE {})
        /\ req' = [req EXCEPT ![w] = IF ER!LastPage(x) THEN ER!Idle ELSE @]
        /\ ercPage' = [ercPage EXCEPT ![w] = IF ER!LastPage(x) THEN 1 ELSE @ + 1]
        /\ left' = left
  <2>1. LET x == ER!Encoded(ER!Chunk(IF w = "channel" THEN "messages" ELSE "thread", req[w], ercPage[w]))
        IN ER!Refused(w, x) \/ next(x)
    BY DEF ER!EncodePage
  <2>2. ER!Refused(w, k) \/ next(k)
    <3> HIDE DEF next
    <3> QED
      BY <1>7, <2>1
  <2>3. ~ER!Refused(w, k)
    BY <1>7, <1>8, <1>10 DEF ER!Refused
  <2> QED
    BY <2>2, <2>3
<1>12. PICK n : n = ER!CountOf(f) + ER!NumThreads(k) - (IF ER!LastPage(k) THEN 1 ELSE 0)
  OBVIOUS
<1>13. /\ ercWritten' = ercWritten \cup {k} /\ ercFailed' = ercFailed
       /\ ercCount' = [ercCount EXCEPT ![f] = n]
       /\ file' = [file EXCEPT ![f] = IF ER!LastPage(k) /\ n <= 0 THEN "closed" ELSE "open"]
  BY <1>7, <1>8, <1>11, <1>12 DEF ER!Write
<1>14. Piece(r, p) \notin ercWritten
  BY <1>4, <1>5
<1>15. r.id \in Channels =>
         /\ new = {[id |-> Pages[r.id][p][i], only |-> FALSE] : i \in 1..Len(Pages[r.id][p])}
         /\ r = Ask(r.id) /\ r.id \in links /\ p \in 1..Len(Pages[r.id])
  <2> SUFFICES ASSUME r.id \in Channels
               PROVE  /\ new = {[id |-> Pages[r.id][p][i], only |-> FALSE] : i \in 1..Len(Pages[r.id][p])}
                      /\ r = Ask(r.id) /\ r.id \in links /\ p \in 1..Len(Pages[r.id])
    OBVIOUS
  <2>1. k.ch = r.id /\ k.page = p /\ ER!NumThreads(k) = Len(Pages[r.id][p]) /\ w = "channel"
    BY <1>4, <1>7 DEF ChannelOf
  <2>2. new = {[id |-> Pages[r.id][p][i], only |-> FALSE] : i \in 1..Len(Pages[r.id][p])}
    BY <1>11, <2>1
  <2>3. r = Ask(r.id)
    BY <1>5, AskForm DEF Plain
  <2>4. r.id \in links
    BY <1>4 DEF Asked, WithInfo
  <2>5. p \in 1..Len(Pages[r.id])
    BY <1>4 DEF ER!NumPages
  <2> QED
    BY <2>2, <2>3, <2>4, <2>5
<1>16. r.id \notin Channels => new = {}
  BY <1>4, <1>11
<1>17. Ordered(ercWritten', links, origin)
  <2>1. \A q \in 1..p - 1 : Piece(r, q) \in ercWritten
    BY <1>4, <1>5
  <2> QED
    BY <1>4, <1>6, <1>13, <2>1, OrderedPage DEF ErcInv, ErcWrote
<1>18. \A s : Plain(s) => \A q \in 1..ER!NumPages(s.id) :
         Piece(s, q) \in ercWritten' <=> Piece(s, q) \in ercWritten \/ (s = r /\ q = p)
  BY <1>4, <1>5, <1>6, <1>13, PieceOnce
<1>19. \A s : Asked(s, ercWritten, links) => Asked(s, ercWritten', links)
  BY <1>13, AskedStays
\* The threads on the page are asked for now, and have not been before.
<1>20. ASSUME NEW s \in new
       PROVE  /\ Asked(s, ercWritten', links) /\ ~Asked(s, ercWritten, links) /\ s \in ER!Requests
              /\ \A q \in 1..ER!NumPages(s.id) : Piece(s, q) \notin ercWritten'
  <2>1. r.id \in Channels
    BY <1>16
  <2>2. PICK i \in 1..Len(Pages[r.id][p]) : s = [id |-> Pages[r.id][p][i], only |-> FALSE]
    BY <1>15, <2>1
  <2>3. PICK t \in Threads : t = Pages[r.id][p][i] /\ Home[t] = r.id
    <3>1. PICK c \in Channels : c = r.id
      BY <2>1
    <3>2. Pages[c][p][i] \in Threads /\ Home[Pages[c][p][i]] = c
      <4>1. p \in 1..Len(Pages[c]) /\ i \in 1..Len(Pages[c][p])
        BY <1>15, <2>1, <3>1
      <4> QED
        BY <4>1, PagesForm
    <3> QED
      BY <3>1, <3>2
  <2>4. t \in ThreadsOn(r.id, p) /\ t \in Found /\ s = Ask(t)
    BY <1>15, <2>1, <2>2, <2>3, PagesForm DEF ThreadsOn, Found, Ask
  <2>5. Plain(s) /\ ~WithInfo(s) /\ s.id = t
    BY <2>4, AskForm
  <2>6. Piece(Ask(r.id), p) \in ercWritten'
    BY <1>6, <1>13, <1>15, <2>1
  <2>7. FoundOn(t, ercWritten')
    BY <1>15, <2>1, <2>3, <2>4, <2>6 DEF FoundOn
  <2>8. Asked(s, ercWritten', links)
    BY <1>15, <2>1, <2>3, <2>5, <2>7 DEF Asked
  <2>9. ~Asked(s, ercWritten, links)
    <3>1. SUFFICES ASSUME Asked(s, ercWritten, links) PROVE FALSE
      OBVIOUS
    <3>2. FoundOn(t, ercWritten)
      BY <2>5, <3>1 DEF Asked
    <3>3. PICK q \in 1..Len(Pages[r.id]) : t \in ThreadsOn(r.id, q) /\ Piece(Ask(r.id), q) \in ercWritten
      BY <2>3, <3>2 DEF FoundOn
    <3>4. PICK j \in DOMAIN Pages[r.id][q] : t = Pages[r.id][q][j]
      BY <3>3 DEF ThreadsOn
    <3>5. p \in DOMAIN Pages[r.id] /\ q \in DOMAIN Pages[r.id] /\ i \in DOMAIN Pages[r.id][p]
      BY <1>15, <2>1, PagesForm
    <3>6. q = p
      <4>1. PICK c \in Channels : c = r.id
        BY <2>1
      <4>2. Pages[c][q][j] = Pages[c][p][i]
        BY <2>3, <3>4, <4>1
      <4> QED
        BY <3>4, <3>5, <4>1, <4>2, BackendsAssumption
    <3> QED
      BY <1>6, <1>14, <1>15, <2>1, <3>3, <3>6
  <2>10. \A q \in 1..ER!NumPages(s.id) : Piece(s, q) \notin ercWritten
    BY <2>5, <2>9 DEF ErcInv, ErcWrote, Ordered
  <2>11. s # r
    BY <1>4, <2>9
  <2> QED
    BY <1>18, <2>5, <2>8, <2>9, <2>10, <2>11 DEF Plain
<1>21. ASSUME NEW s, Asked(s, ercWritten', links)
       PROVE  Asked(s, ercWritten, links) \/ s \in new
  <2>1. CASE WithInfo(s)
    BY <1>21, <2>1 DEF Asked
  <2>2. CASE ~WithInfo(s)
    <3>1. Plain(s) /\ FoundOn(s.id, ercWritten') /\ Home[s.id] \in links /\ Home[s.id] \in Channels /\ s = Ask(s.id)
      BY <1>21, <2>2, PlainForm, AskForm DEF Asked, WithInfo, ChannelOf
    <3>2. PICK q \in 1..Len(Pages[Home[s.id]]) :
            s.id \in ThreadsOn(Home[s.id], q) /\ Piece(Ask(Home[s.id]), q) \in ercWritten'
      BY <3>1 DEF FoundOn
    <3>3. Plain(Ask(Home[s.id])) /\ q \in 1..ER!NumPages(Ask(Home[s.id]).id) /\ Ask(Home[s.id]).id = Home[s.id]
      BY <3>1, <3>2, AskForm
    <3>4. CASE Piece(Ask(Home[s.id]), q) \in ercWritten
      BY <2>2, <3>1, <3>2, <3>4 DEF Asked, FoundOn
    <3>5. CASE Ask(Home[s.id]) = r /\ q = p
      <4>1. r.id = Home[s.id] /\ r.id \in Channels
        BY <3>1, <3>3, <3>5
      <4>2. PICK i \in 1..Len(Pages[r.id][p]) : s.id = Pages[r.id][p][i]
        <5>1. s.id \in ThreadsOn(r.id, p)
          BY <3>2, <3>5, <4>1
        <5>2. DOMAIN Pages[r.id][p] = 1..Len(Pages[r.id][p])
          BY <1>15, <4>1, PagesForm
        <5> QED
          BY <5>1, <5>2 DEF ThreadsOn
      <4> QED
        BY <1>15, <3>1, <4>1, <4>2 DEF Ask
    <3> QED
      BY <1>18, <3>2, <3>3, <3>4, <3>5
  <2> QED
    BY <2>1, <2>2
<1>22. /\ file \in [ER!Files -> {"none", "open", "closed"}] /\ ercCount \in [ER!Files -> Int]
       /\ req \in [Workers -> ER!Requests \cup {ER!Idle}] /\ left \in [Workers -> SUBSET {"info", "users"}]
       /\ ercPage \in [Workers -> Nat \ {0}] /\ waiting \subseteq ER!Requests
  BY ErcNames DEF ErcInv, ErcTypes, ER!TypeOK
<1>23. ER!CountOf(f) \in Int /\ n \in Int
  <2>1. ER!CountOf(f) \in Int
    BY <1>9, <1>22 DEF ER!CountOf
  <2>2. ER!NumThreads(k) \in Int
    BY <1>7, <1>15, PagesForm
  <2> QED
    BY <1>12, <2>1, <2>2
<1>24. /\ file' \in [ER!Files -> {"none", "open", "closed"}] /\ ercCount' \in [ER!Files -> Int]
       /\ req' \in [Workers -> ER!Requests \cup {ER!Idle}] /\ left' \in [Workers -> SUBSET {"info", "users"}]
       /\ ercPage' \in [Workers -> Nat \ {0}] /\ waiting' \subseteq ER!Requests
       /\ file'[f] = (IF ER!LastPage(k) /\ n <= 0 THEN "closed" ELSE "open") /\ ercCount'[f] = n
       /\ \A g \in ER!Files \ {f} : file'[g] = file[g] /\ ercCount'[g] = ercCount[g]
       /\ \A v \in Workers \ {w} : req'[v] = req[v] /\ ercPage'[v] = ercPage[v]
       /\ ER!LastPage(k) => req'[w] = ER!Idle /\ ercPage'[w] = 1
       /\ ~ER!LastPage(k) => req'[w] = r /\ ercPage'[w] = p + 1
  <2>1. /\ file' \in [ER!Files -> {"none", "open", "closed"}]
        /\ file'[f] = (IF ER!LastPage(k) /\ n <= 0 THEN "closed" ELSE "open")
        /\ \A g \in ER!Files \ {f} : file'[g] = file[g]
    BY <1>9, <1>13, <1>22
  <2>2. /\ ercCount' \in [ER!Files -> Int] /\ ercCount'[f] = n
        /\ \A g \in ER!Files \ {f} : ercCount'[g] = ercCount[g]
    BY <1>9, <1>13, <1>22, <1>23
  <2>3. /\ req' \in [Workers -> ER!Requests \cup {ER!Idle}]
        /\ \A v \in Workers \ {w} : req'[v] = req[v]
        /\ ER!LastPage(k) => req'[w] = ER!Idle
        /\ ~ER!LastPage(k) => req'[w] = r
    BY <1>2, <1>11, <1>22
  <2>4. /\ ercPage' \in [Workers -> Nat \ {0}]
        /\ \A v \in Workers \ {w} : ercPage'[v] = ercPage[v]
        /\ ER!LastPage(k) => ercPage'[w] = 1
        /\ ~ER!LastPage(k) => ercPage'[w] = p + 1
    BY <1>3, <1>11, <1>22
  <2>5. waiting' \subseteq ER!Requests
    BY <1>11, <1>20, <1>22
  <2> QED
    BY <1>11, <1>22, <2>1, <2>2, <2>3, <2>4, <2>5
<1>25. \A v \in Workers \ {w} : req[v] # r
  BY <1>4 DEF ErcInv, ErcWorking, Workers
<1>26. ErcTypes'
  BY <1>1, <1>13, <1>24, ErcNames DEF ErcInv, ErcTypes, ER!TypeOK
<1>27. ErcWaiting'
  <2>1. ASSUME NEW s \in waiting
        PROVE  Asked(s, ercWritten', links) /\ \A q \in 1..ER!NumPages(s.id) : Piece(s, q) \notin ercWritten'
    <3>1. Asked(s, ercWritten, links) /\ s # r /\ \A q \in 1..ER!NumPages(s.id) : Piece(s, q) \notin ercWritten
      BY <1>4 DEF ErcInv, ErcWaiting
    <3> QED
      BY <1>18, <1>19, <3>1 DEF Asked
  <2> QED
    BY <1>1, <1>11, <1>20, <2>1 DEF ErcWaiting
<1>28. ErcWorking'
  <2>1. ASSUME NEW v \in Workers \ {w}, req[v] # ER!Idle
        PROVE  /\ Asked(req[v], ercWritten', links) /\ req[v] \notin waiting'
               /\ req[v].id \in Channels <=> v = "channel"
               /\ ercPage[v] \in 1..ER!NumPages(req[v].id)
               /\ left[v] # {} => WithInfo(req[v]) /\ ercPage[v] = 1
               /\ \A q \in 1..ER!NumPages(req[v].id) : Piece(req[v], q) \in ercWritten' <=> q < ercPage[v]
               /\ WithInfo(req[v]) => \A y \in {"info", "users"} \ left[v] : Info(y, req[v], origin) \in ercWritten'
    <3>1. /\ Asked(req[v], ercWritten, links) /\ req[v] \notin waiting
          /\ req[v].id \in Channels <=> v = "channel"
          /\ ercPage[v] \in 1..ER!NumPages(req[v].id)
          /\ left[v] # {} => WithInfo(req[v]) /\ ercPage[v] = 1
          /\ \A q \in 1..ER!NumPages(req[v].id) : Piece(req[v], q) \in ercWritten <=> q < ercPage[v]
          /\ WithInfo(req[v]) => \A y \in {"info", "users"} \ left[v] : Info(y, req[v], origin) \in ercWritten
      BY <2>1 DEF ErcInv, ErcWorking
    <3>2. Plain(req[v]) /\ req[v] # r
      BY <1>25, <3>1 DEF Asked
    <3>3. req[v] \notin new
      BY <1>20, <3>1
    <3>4. \A q \in 1..ER!NumPages(req[v].id) : Piece(req[v], q) \in ercWritten' <=> Piece(req[v], q) \in ercWritten
      BY <1>18, <3>2
    <3> QED
      BY <1>11, <1>13, <1>19, <3>1, <3>3, <3>4
  <2>2. ASSUME NEW v \in Workers \ {w}, req[v] = ER!Idle
        PROVE  left[v] = {}
    BY <2>2 DEF ErcInv, ErcWorking
  <2>3. CASE ER!LastPage(k)
    BY <1>1, <1>11, <1>24, <2>1, <2>2, <2>3 DEF ErcWorking
  <2>4. CASE ~ER!LastPage(k)
    <3>1. p + 1 \in 1..ER!NumPages(r.id)
      BY <1>4, <1>5, <1>7, <2>4
    <3>2. \A q \in 1..ER!NumPages(r.id) : Piece(r, q) \in ercWritten' <=> q < p + 1
      BY <1>4, <1>5, <1>18
    <3>3. r \notin waiting'
      BY <1>4, <1>11, <1>20
    <3>4. WithInfo(r) => \A y \in {"info", "users"} : Info(y, r, origin) \in ercWritten'
      BY <1>4, <1>13 DEF Infos
    <3>5. /\ Asked(r, ercWritten', links) /\ r \notin waiting' /\ (r.id \in Channels <=> w = "channel")
          /\ p + 1 \in 1..ER!NumPages(r.id)
          /\ \A q \in 1..ER!NumPages(r.id) : Piece(r, q) \in ercWritten' <=> q < p + 1
          /\ WithInfo(r) => \A y \in {"info", "users"} \ left[w] : Info(y, r, origin) \in ercWritten'
      BY <1>4, <1>19, <3>1, <3>2, <3>3, <3>4
    <3>6. \A v \in Workers : v = w \/ v \in Workers \ {w}
      OBVIOUS
    <3> QED
      BY <1>1, <1>4, <1>11, <1>24, <2>1, <2>2, <2>4, <3>5, <3>6 DEF ErcWorking
  <2> QED
    BY <2>3, <2>4
<1>29. ErcWrote'
  <2>1. \A x \in ercWritten : Belongs(x, ercWritten', links, origin)
    BY <1>13, BelongsStays DEF ErcInv, ErcWrote
  <2>2. Belongs(k, ercWritten', links, origin)
    BY <1>4, <1>6, <1>19 DEF Belongs
  <2>3. \A x : file'[x] # "none" \/ file'[x] = file[x]
    BY <1>13, <1>22, <1>24
  <2>4. \A x \in ercWritten : file'[ER!FileOf(x)] # "none"
    BY <2>3 DEF ErcInv, ErcWrote
  <2>5. file'[ER!FileOf(k)] # "none"
    BY <1>7, <1>8, <1>24
  <2> QED
    BY <1>1, <1>13, <1>17, <2>1, <2>2, <2>4, <2>5 DEF ErcWrote
<1>30. ErcProgress'
  <2> SUFFICES ASSUME ~ercFailed, NEW s, Asked(s, ercWritten', links)
               PROVE  \/ s \in waiting' \/ \E v \in Workers : req'[v] = s
                      \/ Infos(s, origin) \subseteq ercWritten' /\ PagesIn(s, ercWritten')
    BY <1>1, <1>13 DEF ErcProgress
  <2>1. CASE s \in new
    BY <1>11, <2>1
  <2>2. CASE Asked(s, ercWritten, links)
    <3>1. \/ s \in waiting \/ \E v \in Workers : req[v] = s
          \/ Infos(s, origin) \subseteq ercWritten /\ PagesIn(s, ercWritten)
      BY <2>2 DEF ErcInv, ErcProgress
    <3>2. CASE s \in waiting
      BY <1>11, <3>2
    <3>3. CASE Infos(s, origin) \subseteq ercWritten /\ PagesIn(s, ercWritten)
      BY <1>13, <3>3 DEF PagesIn
    <3>4. CASE s = r
      <4>1. CASE ER!LastPage(k)
        <5>1. PagesIn(r, ercWritten')
          BY <1>4, <1>5, <1>7, <1>18, <4>1 DEF PagesIn
        <5> QED
          BY <1>4, <1>13, <3>4, <5>1
      <4> QED
        BY <1>24, <3>4, <4>1
    <3>5. CASE \E v \in Workers \ {w} : req[v] = s
      BY <1>24, <3>5
    <3> QED
      BY <1>2, <3>1, <3>2, <3>3, <3>4, <3>5
  <2> QED
    BY <1>21, <2>1, <2>2
<1>31. ErcFiles'
  <2>1. f \in Channels =>
          ~r.only /\ f = ChannelOf(r) /\ f \in links /\ r.id \in Channels \cup Found
    <3>1. SUFFICES ASSUME f \in Channels
                   PROVE  ~r.only /\ f = ChannelOf(r) /\ f \in links /\ r.id \in Channels \cup Found
      OBVIOUS
    <3>2. ~r.only /\ f = ChannelOf(r)
      BY <1>5, <1>8, <3>1, PlainForm DEF OwnFile
    <3>3. CASE r.id \in Channels
      BY <1>15, <3>2, <3>3 DEF ChannelOf
    <3>4. CASE r.id \notin Channels
      <4>1. f = Home[r.id] /\ Home[r.id] \in links /\ FoundOn(r.id, ercWritten)
        BY <1>4, <3>2, <3>4 DEF ChannelOf, Asked, WithInfo
      <4>2. r.id \in Found
        BY <3>1, <4>1, PagesForm DEF FoundOn, Found
      <4> QED
        BY <3>2, <4>1, <4>2
    <3> QED
      BY <3>3, <3>4
  <2>2. f \in Channels => n = Outstanding(f, ercWritten')
    <3>1. SUFFICES ASSUME f \in Channels PROVE n = Outstanding(f, ercWritten')
      OBVIOUS
    <3>2. ER!CountOf(f) = Outstanding(f, ercWritten)
      <4>1. CASE file[f] = "open"
        BY <1>1, <2>1, <3>1, <4>1 DEF ErcInv, ErcFiles, ER!CountOf
      <4>2. CASE file[f] = "none"
        <5>1. \A x \in ercWritten : ER!FileOf(x) # f
          BY <4>2 DEF ErcInv, ErcWrote
        <5> QED
          BY <3>1, <4>2, <5>1, OutstandingFresh DEF ER!CountOf
      <4> QED
        BY <1>9, <1>10, <1>22, <4>1, <4>2
    <3>3. Outstanding(f, ercWritten') =
            Outstanding(f, ercWritten) + ER!NumThreads(k) - (IF ER!LastPage(k) THEN 1 ELSE 0)
      <4>1. Ordered(ercWritten, links, origin)
        BY DEF ErcInv, ErcWrote
      <4> QED
        BY <1>4, <1>5, <1>6, <1>8, <1>13, <1>14, <2>1, <3>1, <4>1, OutstandingPage
    <3> QED
      BY <1>12, <3>2, <3>3
  <2>3. ASSUME NEW g \in ER!Files, file'[g] = "closed"
        PROVE  ClosedOver(g, ercWritten', links, origin, lists)
    <3>1. CASE g # f
      <4>1. file[g] = "closed"
        BY <1>24, <2>3, <3>1
      <4> QED
        BY <1>1, <1>13, <4>1, ClosedOverStays DEF ErcInv, ErcFiles
    <3>2. CASE g = f /\ f \in Channels
      <4>1. n <= 0
        BY <1>24, <2>3, <3>2
      <4>2. /\ Infos(Ask(f), origin) \subseteq ercWritten' /\ PagesIn(Ask(f), ercWritten')
            /\ \A t \in Found : Home[t] = f => PagesIn(Ask(t), ercWritten')
        BY <1>17, <2>2, <3>2, <4>1, NothingOutstanding
      <4> QED
        BY <2>1, <3>2, <4>2 DEF ClosedOver
    <3>3. CASE g = f /\ f \notin Channels
      <4>1. r.only /\ f = r.id /\ f \in Threads
        BY <1>5, <1>8, <1>9, <3>3, PlainForm DEF OwnFile
      <4>2. f \in links /\ r = [id |-> f, only |-> TRUE]
        BY <1>4, <1>5, <4>1, PlainForm DEF Asked, WithInfo
      <4>3. ER!LastPage(k)
        BY <1>24, <2>3, <3>3
      <4>4. PagesIn(r, ercWritten')
        BY <1>4, <1>5, <1>7, <1>18, <4>3 DEF PagesIn
      <4> QED
        BY <3>3, <4>1, <4>2, <4>4 DEF ClosedOver
    <3> QED
      BY <3>1, <3>2, <3>3
  <2>4. ASSUME NEW c \in links \cap Channels, file'[c] = "open"
        PROVE  ercCount'[c] = Outstanding(c, ercWritten')
    <3>1. CASE c = f
      BY <1>24, <2>2, <3>1
    <3>2. CASE c # f
      <4>1. ASSUME NEW q \in 1..Len(Pages[c])
            PROVE  Piece(Ask(c), q) # k
        <5>1. Plain(Ask(c)) /\ q \in 1..ER!NumPages(Ask(c).id) /\ OwnFile(Ask(c)) = c
          BY AskForm
        <5> QED
          BY <1>4, <1>5, <1>6, <1>8, <3>2, <5>1, PieceOnce
      <4>2. ASSUME NEW t \in Found, Home[t] = c
            PROVE  Piece(Ask(t), Replies[t]) # k
        <5>1. Plain(Ask(t)) /\ Replies[t] \in 1..ER!NumPages(Ask(t).id) /\ OwnFile(Ask(t)) = c
          BY <4>2, AskForm, ThreadPages
        <5> QED
          BY <1>4, <1>5, <1>6, <1>8, <3>2, <5>1, PieceOnce
      <4>3. Outstanding(c, ercWritten') = Outstanding(c, ercWritten)
        BY <1>13, <4>1, <4>2, OutstandingSame
      <4>4. c \in ER!Files
        BY ErcNames
      <4> QED
        BY <1>1, <1>24, <2>4, <3>2, <4>3, <4>4 DEF ErcInv, ErcFiles
    <3> QED
      BY <3>1, <3>2
  <2> QED
    BY <1>1, <2>3, <2>4 DEF ErcFiles
<1>32. ErcEnd'
  BY <1>1, <1>13 DEF ErcInv, ErcEnd
<1> QED
  BY <1>26, <1>27, <1>28, <1>29, <1>30, <1>31, <1>32 DEF ErcInv

LEMMA ErcListKept == ASSUME ErcInv, ER!EncodeList PROVE ErcInv'
<1>1. PICK f : f = Head(lists)
  OBVIOUS
<1>2. /\ ~ended /\ lists # <<>> /\ lists' = Tail(lists)
      /\ UNCHANGED <<origin, links, waiting, req, left, ercPage, ercWritten, ended>>
  BY DEF ER!EncodeList, ER!Working
<1>3. lists \in Seq(STRING) /\ Len(lists) \in Nat \ {0} /\ DOMAIN lists = 1..Len(lists) /\ 1 \in DOMAIN lists /\ f = lists[1]
  BY <1>1, <1>2 DEF ErcInv, ErcTypes
<1>4. /\ lists' \in Seq(STRING) /\ Len(lists') = Len(lists) - 1 /\ DOMAIN lists' = 1..Len(lists) - 1
      /\ \A i \in DOMAIN lists' : lists'[i] = lists[i + 1] /\ i + 1 \in DOMAIN lists /\ i + 1 # 1
  BY <1>2, <1>3
<1>5. f \in ER!ListFiles /\ f \in ER!Files /\ f \notin Channels \cup Threads
  BY <1>3, ErcNames DEF ErcInv, ErcTypes
<1>6. file[f] # "closed"
  <2>1. SUFFICES ASSUME file[f] = "closed" PROVE FALSE
    OBVIOUS
  <2>2. ClosedOver(f, ercWritten, links, origin, lists)
    BY <1>2, <1>5, <2>1 DEF ErcInv, ErcFiles
  <2> QED
    BY <1>3, <1>5, <2>2 DEF ClosedOver
<1>7. /\ file' = [file EXCEPT ![f] = IF f = "workspace" THEN "closed" ELSE "open"]
      /\ ercCount' = [ercCount EXCEPT ![f] = @ + 1] /\ ercFailed' = ercFailed
  BY <1>1, <1>6 DEF ER!EncodeList, ER!OnlyChunk
<1>8. file \in [ER!Files -> {"none", "open", "closed"}] /\ ercCount \in [ER!Files -> Int]
  BY DEF ErcInv, ErcTypes, ER!TypeOK
<1>9. /\ file' \in [ER!Files -> {"none", "open", "closed"}] /\ ercCount' \in [ER!Files -> Int]
      /\ file'[f] = (IF f = "workspace" THEN "closed" ELSE "open")
      /\ \A g : g # f => file'[g] = file[g] /\ ercCount'[g] = ercCount[g]
  BY <1>5, <1>7, <1>8
<1>10. ErcTypes'
  <2>1. Len(lists') <= Len(Lists)
    <3>1. Len(lists) <= Len(Lists) /\ Len(Lists) \in Nat
      BY BackendsAssumption DEF ErcInv, ErcTypes, ER!TypeOK
    <3> QED
      BY <1>3, <1>4, <3>1
  <2>2. ER!TypeOK'
    BY <1>2, <1>7, <1>9, <2>1 DEF ErcInv, ErcTypes, ER!TypeOK
  <2>3. \A i \in DOMAIN lists' : lists'[i] \in ER!ListFiles
    BY <1>4 DEF ErcInv, ErcTypes
  <2>4. ASSUME NEW i \in DOMAIN lists', NEW j \in DOMAIN lists', lists'[i] = "workspace", lists'[j] = "workspace"
        PROVE  i = j
    <3>1. i + 1 = j + 1
      BY <1>4, <2>4 DEF ErcInv, ErcTypes
    <3> QED
      BY <1>3, <1>4, <3>1
  <2> QED
    BY <1>2, <1>4, <2>2, <2>3, <2>4 DEF ErcInv, ErcTypes
<1>11. ErcWaiting' /\ ErcWorking' /\ ErcProgress' /\ ErcEnd'
  BY <1>2, <1>7 DEF ErcInv, ErcWaiting, ErcWorking, ErcProgress, ErcEnd
<1>12. ErcWrote'
  BY <1>2, <1>9 DEF ErcInv, ErcWrote
<1>13. ErcFiles'
  <2>1. ASSUME NEW g \in ER!Files, file'[g] = "closed"
        PROVE  ClosedOver(g, ercWritten', links, origin, lists')
    <3>1. CASE g = f
      <4>1. f = "workspace"
        BY <1>9, <2>1, <3>1
      <4>2. ASSUME NEW i \in DOMAIN lists' PROVE lists'[i] # f
        BY <1>3, <1>4, <4>1 DEF ErcInv, ErcTypes
      <4> QED
        BY <1>5, <3>1, <4>1, <4>2 DEF ClosedOver
    <3>2. CASE g # f
      <4>1. ClosedOver(g, ercWritten, links, origin, lists)
        BY <1>2, <1>9, <2>1, <3>2 DEF ErcInv, ErcFiles
      <4>2. (\A i \in DOMAIN lists : lists[i] # g) => \A i \in DOMAIN lists' : lists'[i] # g
        BY <1>4
      <4> QED
        BY <1>2, <4>1, <4>2 DEF ClosedOver
    <3> QED
      BY <3>1, <3>2
  <2>2. \A c \in links \cap Channels : file'[c] = "open" => ercCount'[c] = Outstanding(c, ercWritten)
    BY <1>2, <1>5, <1>9 DEF ErcInv, ErcFiles
  <2> QED
    BY <1>2, <2>1, <2>2 DEF ErcFiles
<1> QED
  BY <1>10, <1>11, <1>12, <1>13 DEF ErcInv

LEMMA BelongsFile ==
  ASSUME NEW wr, NEW k, Belongs(k, wr, links, origin), origin \in {"stream", "database"}
  PROVE  ER!FileOf(k) \in ER!Files
<1>1. PICK r : Asked(r, wr, links) /\ (k \in Infos(r, origin) \/ \E p \in 1..ER!NumPages(r.id) : k = Piece(r, p))
  BY DEF Belongs
<1>2. Plain(r) /\ r.id \in Channels \cup Threads /\ ChannelOf(r) \in Channels
  BY <1>1, PlainForm DEF Asked
<1>3. ER!FileOf(k) \in {r.id, ChannelOf(r), OwnFile(r)}
  <2>1. CASE k \in Infos(r, origin)
    <3>1. WithInfo(r) /\ \E type \in {"info", "users"} : k = Info(type, r, origin)
      BY <2>1 DEF Infos
    <3> QED
      BY <1>2, <3>1, InfoForm
  <2>2. CASE \E p \in 1..ER!NumPages(r.id) : k = Piece(r, p)
    BY <1>2, <2>2, PieceForm
  <2> QED
    BY <1>1, <2>1, <2>2
<1> QED
  BY <1>2, <1>3, ErcNames DEF OwnFile

LEMMA ErcCloseKept == ASSUME ErcInv, ER!Close PROVE ErcInv'
<1>1. /\ ended' = TRUE /\ (ercFailed \/ ER!Done)
      /\ file' = [f \in ER!Files |-> IF file[f] = "open" THEN "closed" ELSE file[f]]
      /\ UNCHANGED <<origin, links, waiting, req, left, ercPage, lists, ercCount, ercWritten, ercFailed>>
  BY DEF ER!Close
<1>2. ErcTypes'
  <2>1. file' \in [ER!Files -> {"none", "open", "closed"}]
    <3>1. file \in [ER!Files -> {"none", "open", "closed"}]
      BY DEF ErcInv, ErcTypes, ER!TypeOK
    <3> QED
      BY <1>1, <3>1
  <2>2. ER!TypeOK'
    BY <1>1, <2>1 DEF ErcInv, ErcTypes, ER!TypeOK
  <2> QED
    BY <1>1, <2>2 DEF ErcInv, ErcTypes
<1>3. ErcWaiting' /\ ErcWorking' /\ ErcProgress'
  BY <1>1 DEF ErcInv, ErcWaiting, ErcWorking, ErcProgress
<1>4. ErcWrote'
  <2>1. ASSUME NEW k \in ercWritten
        PROVE  file'[ER!FileOf(k)] # "none"
    <3>1. Belongs(k, ercWritten, links, origin) /\ origin \in {"stream", "database"} /\ file[ER!FileOf(k)] # "none"
      BY DEF ErcInv, ErcWrote, ErcTypes, ER!TypeOK
    <3>2. ER!FileOf(k) \in ER!Files
      BY <3>1, BelongsFile
    <3> QED
      BY <1>1, <3>1, <3>2
  <2> QED
    BY <1>1, <2>1 DEF ErcInv, ErcWrote
<1>5. ErcFiles' /\ ErcEnd'
  BY <1>1 DEF ErcInv, ErcFiles, ErcEnd, ER!Done
<1> QED
  BY <1>2, <1>3, <1>4, <1>5 DEF ErcInv

LEMMA ErcIdleKept == ASSUME ErcInv, UNCHANGED erc PROVE ErcInv'
<1>1. /\ origin' = origin /\ links' = links /\ waiting' = waiting /\ req' = req /\ left' = left /\ ercPage' = ercPage
      /\ lists' = lists /\ file' = file /\ ercCount' = ercCount /\ ercWritten' = ercWritten
      /\ ercFailed' = ercFailed /\ ended' = ended
  BY DEF erc
<1>2. ErcTypes'
  BY <1>1 DEF ErcInv, ErcTypes, ER!TypeOK
<1>3. ErcWaiting' /\ ErcWorking' /\ ErcWrote' /\ ErcProgress'
  BY <1>1 DEF ErcInv, ErcWaiting, ErcWorking, ErcWrote, ErcProgress
<1>4. ErcFiles' /\ ErcEnd'
  BY <1>1 DEF ErcInv, ErcFiles, ErcEnd, ER!Done
<1> QED
  BY <1>2, <1>3, <1>4 DEF ErcInv

LEMMA ErcStepKept == ASSUME ErcInv, ER!Next PROVE ErcInv'
BY ErcNames, ErcTakeKept, ErcInfoKept, ErcPageKept, ErcListKept, ErcCloseKept DEF ER!Next

-----------------------------------------------------------------------------
\* What the session is expected to hold, by the requests it is made of.
LEMMA PagesOfForm ==
  ASSUME NEW r, Plain(r)
  PROVE  ER!PagesOf(r) = {Piece(r, p) : p \in 1..ER!NumPages(r.id)}
<1>1. \A p \in 1..ER!NumPages(r.id) :
        ER!Encoded(ER!Chunk(IF r.id \in Channels THEN "messages" ELSE "thread", r, p)) = Piece(r, p)
  BY PieceForm DEF Piece
<1> QED
  BY <1>1 DEF ER!PagesOf

LEMMA InfoOfForm ==
  ASSUME NEW r, Plain(r), WithInfo(r), origin \in {"stream", "database"}
  PROVE  ER!InfoOf(r) = Infos(r, origin)
<1>1. \A type \in {"info", "users"} : ER!Encoded(ER!Chunk(type, r, 0)) = Info(type, r, origin)
  BY InfoForm
<1> QED
  BY <1>1 DEF ER!InfoOf, Infos

LEMMA FoundInForm ==
  ASSUME NEW c \in Channels
  PROVE  \A r : r \in ER!FoundIn(c) <=> \E t \in Found : Home[t] = c /\ r = Ask(t)
<1>1. ASSUME NEW r \in ER!FoundIn(c)
      PROVE  \E t \in Found : Home[t] = c /\ r = Ask(t)
  <2>1. PICK p \in 1..Len(Pages[c]) : \E i \in 1..Len(Pages[c][p]) : r = [id |-> Pages[c][p][i], only |-> FALSE]
    BY DEF ER!FoundIn
  <2>2. PICK i \in 1..Len(Pages[c][p]) : r = [id |-> Pages[c][p][i], only |-> FALSE]
    BY <2>1
  <2>3. PICK t : t = Pages[c][p][i]
    OBVIOUS
  <2>4. t \in ThreadsOn(c, p) /\ p \in DOMAIN Pages[c] /\ Home[t] = c
    BY <2>3, PagesForm DEF ThreadsOn
  <2>5. t \in Found
    BY <2>4 DEF Found
  <2> QED
    BY <2>2, <2>3, <2>4, <2>5 DEF Ask
<1>2. ASSUME NEW t \in Found, Home[t] = c
      PROVE  Ask(t) \in ER!FoundIn(c)
  <2>1. PICK p \in 1..Len(Pages[c]) : \E i \in 1..Len(Pages[c][p]) : Pages[c][p][i] = t
    BY <1>2, FoundForm
  <2>2. PICK i \in 1..Len(Pages[c][p]) : Pages[c][p][i] = t
    BY <2>1
  <2>3. Ask(t) \in {[id |-> Pages[c][p][j], only |-> FALSE] : j \in 1..Len(Pages[c][p])}
    BY <2>2 DEF Ask
  <2> QED
    BY <2>3 DEF ER!FoundIn
<1> QED
  BY <1>1, <1>2

LEMMA ChannelChunksForm ==
  ASSUME NEW c \in Channels, origin \in {"stream", "database"}
  PROVE  \A k : k \in ER!ChannelChunks(c) <=>
           \/ k \in Infos(Ask(c), origin)
           \/ \E p \in 1..ER!NumPages(c) : k = Piece(Ask(c), p)
           \/ \E t \in Found : Home[t] = c /\ \E p \in 1..ER!NumPages(t) : k = Piece(Ask(t), p)
<1>1. Plain(Ask(c)) /\ WithInfo(Ask(c)) /\ Ask(c).id = c /\ Ask(c) = [id |-> c, only |-> FALSE]
  BY AskForm DEF Ask
<1>2. ER!InfoOf(Ask(c)) = Infos(Ask(c), origin) /\ ER!PagesOf(Ask(c)) = {Piece(Ask(c), p) : p \in 1..ER!NumPages(c)}
  BY <1>1, InfoOfForm, PagesOfForm
<1>3. \A t \in Found : ER!PagesOf(Ask(t)) = {Piece(Ask(t), p) : p \in 1..ER!NumPages(t)}
  BY AskForm, PagesOfForm
<1>4. ER!ChannelChunks(c) = ER!InfoOf(Ask(c)) \cup ER!PagesOf(Ask(c)) \cup UNION {ER!PagesOf(t) : t \in ER!FoundIn(c)}
  BY <1>1 DEF ER!ChannelChunks
<1>5. \A k : k \in UNION {ER!PagesOf(t) : t \in ER!FoundIn(c)} <=>
               \E t \in Found : Home[t] = c /\ k \in ER!PagesOf(Ask(t))
  BY FoundInForm
<1>6. \A k : \A t \in Found : k \in ER!PagesOf(Ask(t)) <=> \E p \in 1..ER!NumPages(t) : k = Piece(Ask(t), p)
  BY <1>3
<1> QED
  BY <1>2, <1>4, <1>5, <1>6

LEMMA ThreadChunksForm ==
  ASSUME NEW t \in Threads, origin \in {"stream", "database"}
  PROVE  LET r == [id |-> t, only |-> TRUE]
         IN /\ Plain(r) /\ WithInfo(r) /\ r.id = t /\ ER!PagesOf(r) = {Piece(r, p) : p \in 1..ER!NumPages(t)}
            /\ \A k : k \in ER!ThreadChunks(t) <=> k \in Infos(r, origin) \/ \E p \in 1..ER!NumPages(t) : k = Piece(r, p)
<1>1. PICK r : r = [id |-> t, only |-> TRUE]
  OBVIOUS
<1>2. Plain(r) /\ WithInfo(r) /\ r.id = t
  BY <1>1, CallsAssumption DEF Plain, ER!Requests, WithInfo
<1>3. ER!InfoOf(r) = Infos(r, origin) /\ ER!PagesOf(r) = {Piece(r, p) : p \in 1..ER!NumPages(t)}
  BY <1>2, InfoOfForm, PagesOfForm
<1>4. ER!ThreadChunks(t) = ER!InfoOf(r) \cup ER!PagesOf(r)
  BY <1>1 DEF ER!ThreadChunks
<1> QED
  BY <1>1, <1>2, <1>3, <1>4

\* filetracker.go:26-29: an open session closes a file only with everything of it.
LEMMA ErcClosesWhole == ASSUME ErcInv PROVE ER!ClosedWhole
<1> SUFFICES ASSUME NEW f \in links, file[f] = "closed", ~ended,
                    NEW k \in (IF f \in Channels THEN ER!ChannelChunks(f) ELSE ER!PagesOf([id |-> f, only |-> TRUE]))
             PROVE  k \in ercWritten
  BY DEF ER!ClosedWhole
<1>1. f \in Channels \cup Threads /\ origin \in {"stream", "database"}
  BY DEF ErcInv, ErcTypes, ER!TypeOK
<1>2. ClosedOver(f, ercWritten, links, origin, lists) /\ f \notin ER!ListFiles
  BY <1>1, ErcNames DEF ErcInv, ErcFiles
<1>3. CASE f \in Channels
  <2>1. f \notin Threads
    BY <1>3, CallsAssumption
  <2>2. /\ Infos(Ask(f), origin) \subseteq ercWritten /\ PagesIn(Ask(f), ercWritten)
        /\ \A t \in Found : Home[t] = f => PagesIn(Ask(t), ercWritten)
    BY <1>2, <2>1 DEF ClosedOver
  <2> QED
    BY <1>1, <1>3, <2>2, ChannelChunksForm, AskForm DEF PagesIn
<1>4. CASE f \notin Channels
  <2>1. PagesIn([id |-> f, only |-> TRUE], ercWritten) /\ f \in Threads
    BY <1>1, <1>2, <1>4 DEF ClosedOver
  <2> QED
    BY <1>1, <1>4, <2>1, ThreadChunksForm DEF PagesIn
<1> QED
  BY <1>3, <1>4

\* When the session has ended without an error everything that was asked for is in it.
LEMMA ErcAllWritten ==
  ASSUME ErcInv, ended, ~ercFailed, NEW r, Asked(r, ercWritten, links)
  PROVE  Infos(r, origin) \subseteq ercWritten /\ PagesIn(r, ercWritten)
<1>1. ER!Done
  BY DEF ErcInv, ErcEnd
<1>2. waiting = {} /\ \A w \in Workers : req[w] = ER!Idle
  BY <1>1, ErcNames DEF ER!Done
<1>3. r # ER!Idle
  BY PlainForm DEF Asked
<1> QED
  BY <1>2, <1>3 DEF ErcInv, ErcProgress

LEMMA LinksAsked ==
  ASSUME ErcInv, NEW l \in links
  PROVE  /\ l \in Channels => Asked(Ask(l), ercWritten, links)
         /\ l \in Threads => Asked([id |-> l, only |-> TRUE], ercWritten, links)
<1>1. l \in Channels => Asked(Ask(l), ercWritten, links)
  BY AskForm DEF Asked
<1>2. l \in Threads => Asked([id |-> l, only |-> TRUE], ercWritten, links)
  <2>1. origin \in {"stream", "database"}
    BY DEF ErcInv, ErcTypes, ER!TypeOK
  <2> QED
    BY <2>1, ThreadChunksForm DEF Asked
<1> QED
  BY <1>1, <1>2

LEMMA ExpectedForm ==
  \A k : k \in ER!Expected <=>
           \/ \E c \in links \cap Channels : k \in ER!ChannelChunks(c)
           \/ \E t \in links \cap Threads : k \in ER!ThreadChunks(t)
<1> DEFINE C == {ER!ChannelChunks(c) : c \in links \cap Channels}
           T == {ER!ThreadChunks(t) : t \in links \cap Threads}
<1>1. ER!Expected = (UNION C) \cup (UNION T)
  BY DEF ER!Expected
<1>2. \A k : k \in (UNION C) <=> \E c \in links \cap Channels : k \in ER!ChannelChunks(c)
  OBVIOUS
<1>3. \A k : k \in (UNION T) <=> \E t \in links \cap Threads : k \in ER!ThreadChunks(t)
  OBVIOUS
<1> HIDE DEF C, T
<1> SUFFICES ASSUME NEW k
             PROVE  k \in ER!Expected <=>
                      \/ \E c \in links \cap Channels : k \in ER!ChannelChunks(c)
                      \/ \E t \in links \cap Threads : k \in ER!ThreadChunks(t)
  OBVIOUS
<1>4. k \in ER!Expected <=> k \in (UNION C) \/ k \in (UNION T)
  BY <1>1
<1> QED
  BY <1>2, <1>3, <1>4

\* directory.go:372: nothing is lost without an error, and there is one only for a thread asked for with its channel.
LEMMA ErcRefusesKnown == ASSUME ErcInv PROVE ER!RefusedKnown
<1>1. ercFailed => \E t \in links \cap Threads : Home[t] \in links
  BY DEF ErcInv, ErcEnd
<1> SUFFICES ASSUME ended, ~ercFailed
             PROVE  ercWritten = ER!Expected
  BY <1>1 DEF ER!RefusedKnown
<1>2. origin \in {"stream", "database"} /\ links \subseteq Channels \cup Threads
  BY DEF ErcInv, ErcTypes, ER!TypeOK
<1>3. ASSUME NEW k \in ercWritten
      PROVE  k \in ER!Expected
  <2>1. PICK r : /\ Asked(r, ercWritten, links)
                 /\ k \in Infos(r, origin) \/ \E p \in 1..ER!NumPages(r.id) : k = Piece(r, p)
    BY DEF ErcInv, ErcWrote, Belongs
  <2>2. Plain(r)
    BY <2>1 DEF Asked
  <2>3. CASE r.id \in Channels
    <3>1. r = Ask(r.id) /\ r.id \in links
      BY <2>1, <2>2, <2>3, AskForm DEF Asked, WithInfo, Plain
    <3>2. k \in ER!ChannelChunks(r.id)
      BY <1>2, <2>1, <2>3, <3>1, ChannelChunksForm
    <3> QED
      BY <2>3, <3>1, <3>2, ExpectedForm
  <2>4. CASE r.id \notin Channels /\ r.only
    <3>1. r = [id |-> r.id, only |-> TRUE] /\ r.id \in links \cap Threads
      BY <2>1, <2>2, <2>4, PlainForm DEF Asked, WithInfo
    <3>2. k \in ER!ThreadChunks(r.id)
      BY <1>2, <2>1, <3>1, ThreadChunksForm
    <3> QED
      BY <3>1, <3>2, ExpectedForm
  <2>5. CASE r.id \notin Channels /\ ~r.only
    <3>1. r = Ask(r.id) /\ r.id \in Threads /\ Home[r.id] \in links \cap Channels /\ FoundOn(r.id, ercWritten)
      BY <2>1, <2>2, <2>5, AskForm, PlainForm DEF Asked, WithInfo, ChannelOf
    <3>2. r.id \in Found
      BY <3>1, PagesForm DEF FoundOn, Found
    <3>3. k \notin Infos(r, origin)
      BY <2>5 DEF Infos, WithInfo
    <3>4. k \in ER!ChannelChunks(Home[r.id])
      BY <1>2, <2>1, <3>1, <3>2, <3>3, ChannelChunksForm
    <3> QED
      BY <3>1, <3>4, ExpectedForm
  <2> QED
    BY <2>3, <2>4, <2>5
<1>4. ASSUME NEW k \in ER!Expected
      PROVE  k \in ercWritten
  <2>1. CASE \E c \in links \cap Channels : k \in ER!ChannelChunks(c)
    <3>1. PICK c \in links \cap Channels : k \in ER!ChannelChunks(c)
      BY <2>1
    <3>2. Infos(Ask(c), origin) \subseteq ercWritten /\ PagesIn(Ask(c), ercWritten)
      BY LinksAsked, ErcAllWritten
    <3>3. ASSUME NEW t \in Found, Home[t] = c
          PROVE  PagesIn(Ask(t), ercWritten)
      <4>1. \E p \in 1..Len(Pages[Home[t]]) : t \in ThreadsOn(Home[t], p)
        BY FoundForm, PagesForm DEF ThreadsOn
      <4>2. \A p \in 1..Len(Pages[c]) : Piece(Ask(c), p) \in ercWritten
        BY <3>2, AskForm DEF PagesIn
      <4>3. FoundOn(t, ercWritten)
        BY <3>3, <4>1, <4>2 DEF FoundOn
      <4>4. Asked(Ask(t), ercWritten, links)
        BY <3>3, <4>3, AskForm DEF Asked
      <4> QED
        BY <4>4, ErcAllWritten
    <3> QED
      BY <1>2, <3>1, <3>2, <3>3, ChannelChunksForm, AskForm DEF PagesIn
  <2>2. CASE \E t \in links \cap Threads : k \in ER!ThreadChunks(t)
    <3>1. PICK t \in links \cap Threads : k \in ER!ThreadChunks(t)
      BY <2>2
    <3>2. PICK r : r = [id |-> t, only |-> TRUE]
      OBVIOUS
    <3>3. Infos(r, origin) \subseteq ercWritten /\ PagesIn(r, ercWritten)
      BY <3>2, LinksAsked, ErcAllWritten
    <3>4. k \in Infos(r, origin) \/ \E p \in 1..ER!NumPages(t) : k = Piece(r, p)
      BY <1>2, <3>1, <3>2, ThreadChunksForm
    <3> QED
      BY <3>2, <3>3, <3>4 DEF PagesIn
  <2> QED
    BY <1>4, <2>1, <2>2, ExpectedForm
<1> QED
  BY <1>3, <1>4

\* chunkdir.go:98-125: the information about every conversation is found where it is sought.
LEMMA ErcInfoReadable == ASSUME ErcInv PROVE ER!InfoReadable
<1> SUFFICES ASSUME ended, ~ercFailed, NEW l \in links
             PROVE  LET c == IF l \in Threads THEN Home[l] ELSE l
                    IN ER!ChannelInfoFound(c) \/ (origin = "stream" /\ c \notin links)
  BY DEF ER!InfoReadable
<1>1. PICK c : c = IF l \in Threads THEN Home[l] ELSE l
  OBVIOUS
<1>2. l \in Channels \cup Threads /\ origin \in {"stream", "database"} /\ c \in Channels
  <2>1. l \in Channels \cup Threads /\ origin \in {"stream", "database"}
    BY DEF ErcInv, ErcTypes, ER!TypeOK
  <2> QED
    BY <1>1, <2>1, CallsAssumption
<1>3. CASE c \in links
  <2>1. Infos(Ask(c), origin) \subseteq ercWritten
    BY <1>2, <1>3, LinksAsked, ErcAllWritten
  <2>2. PICK k : k = Info("info", Ask(c), origin)
    OBVIOUS
  <2>3. k \in ercWritten
    BY <1>2, <2>1, <2>2, AskForm DEF Infos
  <2>4. k.type = "info" /\ k.ch = c /\ k.ts = "-"
    BY <1>2, <2>2, CallsAssumption DEF Info, Ask
  <2>5. ER!FileOf(k) = c
    BY <2>4 DEF ER!FileOf, ER!ToFileID
  <2>6. ER!ChannelInfoFound(c)
    BY <2>3, <2>4, <2>5 DEF ER!ChannelInfoFound
  <2> QED
    BY <1>1, <2>6
<1>4. CASE c \notin links /\ origin = "database"
  <2>1. l \in Threads /\ c = Home[l]
    BY <1>1, <1>2, <1>4
  <2>2. PICK r : r = [id |-> l, only |-> TRUE]
    OBVIOUS
  <2>3. Infos(r, origin) \subseteq ercWritten
    BY <2>1, <2>2, LinksAsked, ErcAllWritten
  <2>4. PICK k : k = Info("info", r, origin)
    OBVIOUS
  <2>5. k \in ercWritten
    BY <2>2, <2>3, <2>4 DEF Infos, WithInfo
  <2>6. k.type = "info" /\ k.ch = c /\ k.ts = "-"
    BY <1>4, <2>1, <2>2, <2>4 DEF Info
  <2>7. ER!FileOf(k) = c
    BY <2>6 DEF ER!FileOf, ER!ToFileID
  <2>8. ER!ChannelInfoFound(c)
    BY <2>5, <2>6, <2>7 DEF ER!ChannelInfoFound
  <2> QED
    BY <1>1, <2>8
<1> QED
  BY <1>1, <1>2, <1>3, <1>4
-----------------------------------------------------------------------------
(* The database.                                                           *)

\* A finite sequence, of whatever it holds.
Listed(s) == s \in Seq({s[i] : i \in DOMAIN s})
LeftOf(workers, pages) == UNION {{<<v, i>> : i \in DOMAIN pages[v]} : v \in workers}

LEMMA ListedAppend ==
  ASSUME NEW s, Listed(s), NEW e
  PROVE  /\ Listed(Append(s, e)) /\ Len(s) \in Nat /\ Len(Append(s, e)) = Len(s) + 1
         /\ DOMAIN s = 1..Len(s) /\ DOMAIN Append(s, e) = 1..Len(s) + 1
         /\ Append(s, e)[Len(s) + 1] = e /\ \A i \in 1..Len(s) : Append(s, e)[i] = s[i]
<1> DEFINE S == {s[i] : i \in DOMAIN s}
           n == Append(s, e)
<1>1. s \in Seq(S)
  BY DEF Listed
<1>2. Len(s) \in Nat /\ DOMAIN s = 1..Len(s) /\ \A i \in 1..Len(s) : s[i] \in S
  BY <1>1
<1>3. s \in [1..Len(s) -> S]
  <2> HIDE DEF S
  <2> QED
    BY <1>1, <1>2
<1>4. s \in Seq(S \cup {e})
  <2>1. s \in [1..Len(s) -> S \cup {e}]
    <3> HIDE DEF S
    <3> QED
      BY <1>3
  <2> HIDE DEF S
  <2> QED
    BY <1>2, <2>1
<1>5. /\ n \in Seq(S \cup {e}) /\ Len(n) = Len(s) + 1 /\ DOMAIN n = 1..Len(s) + 1
      /\ n[Len(s) + 1] = e /\ \A i \in 1..Len(s) : n[i] = s[i]
  <2> HIDE DEF S
  <2> QED
    BY <1>2, <1>4
<1>6. n \in Seq({n[i] : i \in DOMAIN n})
  <2>1. n \in [1..Len(s) + 1 -> {n[i] : i \in DOMAIN n}]
    <3>1. n = [i \in 1..Len(s) + 1 |-> n[i]]
      <4> HIDE DEF S, n
      <4> QED
        BY <1>5
    <3> HIDE DEF n
    <3> QED
      BY <1>5, <3>1
  <2> HIDE DEF S, n
  <2> QED
    BY <1>2, <2>1
<1> QED
  BY <1>2, <1>5, <1>6 DEF Listed

SessionStates == {"open", "finished", "crashed"}
RepositoryInv(workers, max) ==
  /\ session \in 1..MaxSessions /\ sessions \in Seq(SessionStates) /\ Len(sessions) = session
  /\ \A s \in 1..session - 1 : sessions[s] # "open"
  /\ page \in [workers -> Seq(StoredChunks)]
  /\ IsFiniteSet(LeftOf(workers, page))
  /\ Listed(rows) /\ Len(rows) + Cardinality(LeftOf(workers, page)) <= max
  /\ \A k \in DOMAIN rows : rows[k].session \in 1..session /\ rows[k].type \in RM!Kinds
  /\ \A x \in DOMAIN store : store[x] \in DOMAIN rows

LEMMA RepositoryInit ==
  ASSUME NEW workers, NEW max \in Nat, sessions = <<"open">>, session = 1, page = [w \in workers |-> <<>>],
         rows = <<>>, store = [x \in {} |-> 0]
  PROVE  RepositoryInv(workers, max)
<1>1. LeftOf(workers, page) = {}
  BY DEF LeftOf
<1>2. IsFiniteSet(LeftOf(workers, page)) /\ Cardinality(LeftOf(workers, page)) = 0
  BY <1>1, FS_EmptySet
<1>3. Listed(rows) /\ Len(rows) = 0 /\ DOMAIN rows = {}
  BY DEF Listed
<1>4. page \in [workers -> Seq(StoredChunks)]
  <2>1. <<>> \in Seq(StoredChunks)
    OBVIOUS
  <2> QED
    BY <2>1
<1>5. session \in 1..MaxSessions /\ sessions \in Seq(SessionStates) /\ Len(sessions) = session
  <2>1. 1 \in 1..MaxSessions
    BY BackendsAssumption
  <2>2. <<"open">> \in Seq(SessionStates) /\ Len(<<"open">>) = 1
    BY DEF SessionStates
  <2> QED
    BY <2>1, <2>2
<1> QED
  BY <1>2, <1>3, <1>4, <1>5 DEF RepositoryInv

\* The place of each chunk of a page.
LEMMA PlacesFinite ==
  ASSUME NEW w, NEW n \in Nat
  PROVE  /\ IsFiniteSet({<<w, i>> : i \in 1..n}) /\ Cardinality({<<w, i>> : i \in 1..n}) \in Nat
         /\ Cardinality({<<w, i>> : i \in 1..n}) <= n
<1> DEFINE these == {<<w, i>> : i \in 1..n}
           placed == [i \in 1..n |-> <<w, i>>]
           dom == 1..n
<1>1. IsFiniteSet(dom) /\ Cardinality(dom) = n
  BY FS_Interval
<1>2. DOMAIN placed = dom /\ \A b \in these : \E a \in dom : b = placed[a]
  OBVIOUS
<1>3. IsFiniteSet(these) /\ Cardinality(these) \in Nat /\ Cardinality(these) <= Cardinality(dom)
  <2> HIDE DEF these, placed, dom
  <2> QED
    BY <1>1, <1>2, Reached
<1> QED
  BY <1>1, <1>3

LEMMA MakeKept ==
  ASSUME NEW workers, NEW max \in Nat, RepositoryInv(workers, max), NEW w \in workers, page[w] = <<>>,
         NEW p \in MessagePages \cup UserPages, Len(rows) + Len(p) + Cardinality(LeftOf(workers, page)) <= max,
         page' = [page EXCEPT ![w] = p], UNCHANGED <<session, sessions, rows, store>>
  PROVE  RepositoryInv(workers, max)'
<1>1. p \in Seq(StoredChunks) /\ Len(p) \in Nat /\ DOMAIN p = 1..Len(p)
  BY BackendsAssumption
<1>2. page \in [workers -> Seq(StoredChunks)]
  BY DEF RepositoryInv
<1>3. page' \in [workers -> Seq(StoredChunks)] /\ page'[w] = p /\ \A v \in workers \ {w} : page'[v] = page[v]
  BY <1>1, <1>2
<1> DEFINE these == {<<w, i>> : i \in 1..Len(p)}
<1>4. LeftOf(workers, page') = LeftOf(workers, page) \cup these
  BY <1>1, <1>3 DEF LeftOf
<1>5. IsFiniteSet(these) /\ Cardinality(these) \in Nat /\ Cardinality(these) <= Len(p)
  BY <1>1, PlacesFinite
<1>6. IsFiniteSet(LeftOf(workers, page))
  BY DEF RepositoryInv
<1> HIDE DEF these
<1>7. PICK o : o = LeftOf(workers, page)
  OBVIOUS
<1>8. /\ IsFiniteSet(o \cup these) /\ Cardinality(o \cup these) = Cardinality(o) + Cardinality(these) - Cardinality(o \cap these)
      /\ Cardinality(o) \in Nat
  BY <1>5, <1>6, <1>7, FS_Union, FS_CardinalityType
<1>9. IsFiniteSet(o \cap these) /\ Cardinality(o \cap these) \in Nat
  BY <1>5, FS_Intersection, FS_CardinalityType
<1>10. Cardinality(o \cup these) <= Cardinality(o) + Len(p) /\ Cardinality(o \cup these) \in Nat
  BY <1>1, <1>5, <1>8, <1>9, FS_CardinalityType
<1>11. Listed(rows) /\ Len(rows) \in Nat
  BY ListedAppend DEF RepositoryInv
<1>12. /\ IsFiniteSet(LeftOf(workers, page')) /\ Len(rows) + Cardinality(LeftOf(workers, page')) <= max
  <2>1. LeftOf(workers, page') = o \cup these
    BY <1>4, <1>7
  <2>2. Len(rows) + Len(p) + Cardinality(o) <= max
    BY <1>7
  <2>3. PICK n \in Nat : n = Cardinality(o \cup these)
    BY <1>10
  <2>4. PICK m \in Nat : m = Cardinality(o)
    BY <1>8
  <2>5. Len(rows) + n <= max
    BY <1>1, <1>10, <1>11, <2>2, <2>3, <2>4
  <2> QED
    BY <1>8, <2>1, <2>3, <2>5
<1> QED
  BY <1>3, <1>11, <1>12 DEF RepositoryInv

LEMMA StoreKept ==
  ASSUME NEW workers, NEW max \in Nat, RepositoryInv(workers, max), NEW w \in workers, page[w] # <<>>,
         NEW e, e.session = session, e.type = Head(page[w]).type, rows' = Append(rows, e),
         NEW touched, store' = [x \in DOMAIN store \cup touched |-> IF x \in touched THEN Len(rows) + 1 ELSE store[x]],
         page' = [page EXCEPT ![w] = Tail(@)], UNCHANGED <<session, sessions>>
  PROVE  RepositoryInv(workers, max)'
<1>1. page \in [workers -> Seq(StoredChunks)] /\ Listed(rows) /\ IsFiniteSet(LeftOf(workers, page))
  BY DEF RepositoryInv
<1>2. PICK s : s = page[w]
  OBVIOUS
<1>3. /\ s \in Seq(StoredChunks) /\ Len(s) \in Nat \ {0} /\ DOMAIN s = 1..Len(s)
      /\ Head(s) \in StoredChunks /\ Tail(s) \in Seq(StoredChunks) /\ DOMAIN Tail(s) = 1..Len(s) - 1
  BY <1>1, <1>2
<1>4. page' \in [workers -> Seq(StoredChunks)] /\ page'[w] = Tail(s) /\ \A v \in workers \ {w} : page'[v] = page[v]
  BY <1>1, <1>2, <1>3
<1>5. LeftOf(workers, page') = LeftOf(workers, page) \ {<<w, Len(s)>>} /\ <<w, Len(s)>> \in LeftOf(workers, page)
  <2>1. ASSUME NEW x
        PROVE  x \in LeftOf(workers, page') <=> x \in LeftOf(workers, page) /\ x # <<w, Len(s)>>
    <3>1. x \in LeftOf(workers, page') <=> \E v \in workers : \E i \in DOMAIN page'[v] : x = <<v, i>>
      BY DEF LeftOf
    <3>2. x \in LeftOf(workers, page) <=> \E v \in workers : \E i \in DOMAIN page[v] : x = <<v, i>>
      BY DEF LeftOf
    <3>3. \A i : i \in 1..Len(s) - 1 <=> i \in 1..Len(s) /\ i # Len(s)
      BY <1>3
    <3> QED
      BY <1>2, <1>3, <1>4, <3>1, <3>2, <3>3
  <2>2. <<w, Len(s)>> \in LeftOf(workers, page)
    <3>1. Len(s) \in DOMAIN page[w]
      BY <1>2, <1>3
    <3> QED
      BY <3>1 DEF LeftOf
  <2> QED
    BY <2>1, <2>2
<1>6. /\ IsFiniteSet(LeftOf(workers, page')) /\ Cardinality(LeftOf(workers, page)) \in Nat
      /\ Cardinality(LeftOf(workers, page')) = Cardinality(LeftOf(workers, page)) - 1
  <2>1. PICK o : o = LeftOf(workers, page)
    OBVIOUS
  <2>2. PICK x : x = <<w, Len(s)>>
    OBVIOUS
  <2>3. IsFiniteSet(o) /\ x \in o /\ LeftOf(workers, page') = o \ {x}
    BY <1>1, <1>5, <2>1, <2>2
  <2>4. IsFiniteSet(o \ {x}) /\ Cardinality(o \ {x}) = Cardinality(o) - 1 /\ Cardinality(o) \in Nat
    BY <2>3, FS_RemoveElement, FS_CardinalityType
  <2> QED
    BY <2>1, <2>3, <2>4
<1>7. /\ Listed(rows') /\ Len(rows) \in Nat /\ Len(rows') = Len(rows) + 1
      /\ DOMAIN rows = 1..Len(rows) /\ DOMAIN rows' = 1..Len(rows) + 1
      /\ rows'[Len(rows) + 1] = e /\ \A i \in 1..Len(rows) : rows'[i] = rows[i]
  BY <1>1, ListedAppend
<1>8. Len(rows') + Cardinality(LeftOf(workers, page')) <= max
  BY <1>6, <1>7 DEF RepositoryInv
<1>9. ASSUME NEW k \in DOMAIN rows'
      PROVE  rows'[k].session \in 1..session' /\ rows'[k].type \in RM!Kinds
  <2>1. CASE k = Len(rows) + 1
    <3>1. e.type \in RM!Kinds
      BY <1>2, <1>3 DEF StoredChunks
    <3>2. session \in 1..session
      BY DEF RepositoryInv
    <3> QED
      BY <1>7, <2>1, <3>1, <3>2
  <2>2. CASE k \in DOMAIN rows
    BY <1>7, <2>2 DEF RepositoryInv
  <2> QED
    BY <1>7, <2>1, <2>2
<1>10. ASSUME NEW x \in DOMAIN store'
       PROVE  store'[x] \in DOMAIN rows'
  <2>1. x \in DOMAIN store \cup touched /\ (x \notin touched => store[x] \in DOMAIN rows)
    BY DEF RepositoryInv
  <2> QED
    BY <1>7, <2>1
<1> QED
  BY <1>4, <1>6, <1>7, <1>8, <1>9, <1>10 DEF RepositoryInv

\* A worker that gives up, and all of them when the process dies.
LEMMA PagesLost ==
  ASSUME NEW workers, NEW max \in Nat, RepositoryInv(workers, max),
         page' \in [workers -> Seq(StoredChunks)], LeftOf(workers, page') \subseteq LeftOf(workers, page),
         session' = session, sessions' \in Seq(SessionStates), Len(sessions') = Len(sessions),
         \A s \in 1..session - 1 : sessions'[s] = sessions[s], UNCHANGED <<rows, store>>
  PROVE  RepositoryInv(workers, max)'
<1>1. IsFiniteSet(LeftOf(workers, page)) /\ Len(rows) \in Nat
  BY ListedAppend DEF RepositoryInv
<1>2. PICK after : after = LeftOf(workers, page')
  OBVIOUS
<1>3. /\ IsFiniteSet(after) /\ Cardinality(after) <= Cardinality(LeftOf(workers, page))
      /\ Cardinality(after) \in Nat /\ Cardinality(LeftOf(workers, page)) \in Nat
  BY <1>1, <1>2, FS_Subset, FS_CardinalityType
<1>4. IsFiniteSet(LeftOf(workers, page')) /\ Len(rows) + Cardinality(LeftOf(workers, page')) <= max
  BY <1>1, <1>2, <1>3 DEF RepositoryInv
<1> QED
  BY <1>4 DEF RepositoryInv

LEMMA GivesUpKept ==
  ASSUME NEW workers, NEW max \in Nat, RepositoryInv(workers, max), NEW w \in workers,
         page' = [page EXCEPT ![w] = <<>>], UNCHANGED <<session, sessions, rows, store>>
  PROVE  RepositoryInv(workers, max)'
<1>1. page \in [workers -> Seq(StoredChunks)]
  BY DEF RepositoryInv
<1>2. page' \in [workers -> Seq(StoredChunks)] /\ page'[w] = <<>> /\ \A v \in workers \ {w} : page'[v] = page[v]
  BY <1>1
<1>3. LeftOf(workers, page') \subseteq LeftOf(workers, page)
  BY <1>2 DEF LeftOf
<1>4. sessions' \in Seq(SessionStates)
  BY DEF RepositoryInv
<1> QED
  BY <1>2, <1>3, <1>4, PagesLost

LEMMA MarkedSeq ==
  ASSUME NEW s \in Seq(SessionStates), NEW i \in Nat, NEW x \in SessionStates
  PROVE  LET n == [s EXCEPT ![i] = x]
         IN n \in Seq(SessionStates) /\ Len(n) = Len(s) /\ \A j \in 1..i - 1 : n[j] = s[j]
<1>1. PICK n : n = [s EXCEPT ![i] = x]
  OBVIOUS
<1>2. Len(s) \in Nat /\ s \in [1..Len(s) -> SessionStates]
  OBVIOUS
<1>3. n \in [1..Len(s) -> SessionStates] /\ \A j \in 1..Len(s) : j # i => n[j] = s[j]
  BY <1>1, <1>2
<1>4. n \in Seq(SessionStates) /\ Len(n) = Len(s)
  BY <1>2, <1>3
<1>5. \A j \in 1..i - 1 : n[j] = s[j]
  <2>1. ASSUME NEW j \in 1..i - 1
        PROVE  n[j] = s[j]
    <3>1. j # i
      OBVIOUS
    <3> QED
      BY <1>1, <1>3, <3>1
  <2> QED
    BY <2>1
<1> QED
  BY <1>1, <1>4, <1>5

LEMMA CloseKept ==
  ASSUME NEW workers, NEW max \in Nat, RepositoryInv(workers, max),
         sessions' = [sessions EXCEPT ![session] = "finished"], UNCHANGED <<session, page, rows, store>>
  PROVE  RepositoryInv(workers, max)'
<1>1. sessions' \in Seq(SessionStates) /\ Len(sessions') = Len(sessions) /\ \A s \in 1..session - 1 : sessions'[s] = sessions[s]
  <2>1. sessions \in Seq(SessionStates) /\ session \in Nat /\ "finished" \in SessionStates
    BY DEF RepositoryInv, SessionStates
  <2> QED
    BY <2>1, MarkedSeq
<1>2. page' \in [workers -> Seq(StoredChunks)] /\ LeftOf(workers, page') \subseteq LeftOf(workers, page)
  BY DEF RepositoryInv
<1> QED
  BY <1>1, <1>2, PagesLost

LEMMA CrashKept ==
  ASSUME NEW workers, NEW max \in Nat, RepositoryInv(workers, max),
         sessions' = [sessions EXCEPT ![session] = "crashed"], page' = [w \in workers |-> <<>>],
         UNCHANGED <<session, rows, store>>
  PROVE  RepositoryInv(workers, max)'
<1>1. sessions' \in Seq(SessionStates) /\ Len(sessions') = Len(sessions) /\ \A s \in 1..session - 1 : sessions'[s] = sessions[s]
  <2>1. sessions \in Seq(SessionStates) /\ session \in Nat /\ "crashed" \in SessionStates
    BY DEF RepositoryInv, SessionStates
  <2> QED
    BY <2>1, MarkedSeq
<1>2. <<>> \in Seq(StoredChunks)
  OBVIOUS
<1>3. page' \in [workers -> Seq(StoredChunks)] /\ LeftOf(workers, page') \subseteq LeftOf(workers, page)
  BY <1>2 DEF LeftOf
<1> QED
  BY <1>1, <1>3, PagesLost

LEMMA NewKept ==
  ASSUME NEW workers, NEW max \in Nat, RepositoryInv(workers, max), sessions[session] # "open",
         session < MaxSessions, session' = session + 1, sessions' = Append(sessions, "open"),
         UNCHANGED <<page, rows, store>>
  PROVE  RepositoryInv(workers, max)'
<1>1. session \in Nat \ {0} /\ sessions \in Seq(SessionStates) /\ Len(sessions) = session /\ MaxSessions \in Nat
  BY BackendsAssumption DEF RepositoryInv
<1>2. sessions' \in Seq(SessionStates) /\ Len(sessions') = session' /\ session' \in 1..MaxSessions
  <2>1. session' \in 1..MaxSessions
    BY <1>1
  <2>2. "open" \in SessionStates
    BY DEF SessionStates
  <2>3. Append(sessions, "open") \in Seq(SessionStates) /\ Len(Append(sessions, "open")) = Len(sessions) + 1
    BY <1>1, <2>2
  <2> QED
    BY <1>1, <2>1, <2>3
<1>3. \A s \in 1..session' - 1 : sessions'[s] # "open"
  BY <1>1 DEF RepositoryInv
<1>4. \A x : x \in 1..session => x \in 1..session'
  BY <1>1
<1> QED
  BY <1>2, <1>3, <1>4 DEF RepositoryInv
-----------------------------------------------------------------------------
LEMMA RepositoryCounts == \A S : RM!Cardinality(S) = Cardinality(S) /\ RU!Cardinality(S) = Cardinality(S)
BY DEF RM!Cardinality, RU!Cardinality, Cardinality

\* Messages, by both workers of a stream; users, by one.
LEMMA MessagesInit == ASSUME RM!Init PROVE RepositoryInv(Workers, MaxChunks)
BY RepositoryInit, BackendsAssumption DEF RM!Init, RM!Empty

LEMMA MessagesKept ==
  ASSUME RepositoryInv(Workers, MaxChunks), RM!Next
  PROVE  RepositoryInv(Workers, MaxChunks)'
<1>1. MaxChunks \in Nat
  BY BackendsAssumption
<1>2. CASE RM!Close
  BY <1>1, <1>2, CloseKept DEF RM!Close
<1>3. CASE RM!Crash
  BY <1>1, <1>3, CrashKept DEF RM!Crash
<1>4. CASE RM!New
  BY <1>1, <1>4, NewKept DEF RM!New
<1>5. ASSUME NEW w \in Workers, RM!Make(w)
      PROVE  RepositoryInv(Workers, MaxChunks)'
  <2>1. RM!Left = LeftOf(Workers, page)
    BY DEF RM!Left, LeftOf
  <2>2. PICK p \in MessagePages : /\ Len(rows) + Len(p) + Cardinality(RM!Left) <= MaxChunks
                                  /\ page' = [page EXCEPT ![w] = p]
    BY <1>5, RepositoryCounts DEF RM!Make
  <2> QED
    BY <1>1, <1>5, <2>1, <2>2, MakeKept DEF RM!Make
<1>6. ASSUME NEW w \in Workers, RM!InsertChunk(w)
      PROVE  RepositoryInv(Workers, MaxChunks)'
  <2>1. CASE page' = [page EXCEPT ![w] = <<>>] /\ UNCHANGED <<rows, store>>
    BY <1>1, <1>6, <2>1, GivesUpKept DEF RM!InsertChunk
  <2>2. CASE ~(page' = [page EXCEPT ![w] = <<>>] /\ UNCHANGED <<rows, store>>)
    <3>1. PICK c : c = Head(page[w])
      OBVIOUS
    <3>2. PICK e : e = [type |-> c.type, ch |-> c.ch, only |-> c.only, rows |-> RM!Inserted(c), session |-> session, at |-> at[w]]
      OBVIOUS
    <3>3. PICK touched : touched = UNION {RM!ViewsOf(c, r) : r \in RM!Range0(RM!Inserted(c))}
      OBVIOUS
    <3>4. /\ rows' = Append(rows, e) /\ page' = [page EXCEPT ![w] = Tail(@)] /\ page[w] # <<>>
          /\ store' = RM!Stored(c, Len(rows) + 1) /\ UNCHANGED <<session, sessions>>
      BY <1>6, <2>2, <3>1, <3>2 DEF RM!InsertChunk
    <3>5. store' = [x \in DOMAIN store \cup touched |-> IF x \in touched THEN Len(rows) + 1 ELSE store[x]]
      BY <3>3, <3>4 DEF RM!Stored
    <3>6. e.session = session /\ e.type = Head(page[w]).type
      BY <3>1, <3>2
    <3> QED
      BY <1>1, <3>4, <3>5, <3>6, StoreKept
  <2> QED
    BY <2>1, <2>2
<1> QED
  BY <1>2, <1>3, <1>4, <1>5, <1>6 DEF RM!Next

LEMMA UsersInit == ASSUME RU!Init PROVE RepositoryInv({"channel"}, MaxChunks + 1)
BY RepositoryInit, BackendsAssumption DEF RU!Init, RU!Empty

LEMMA UsersKept ==
  ASSUME RepositoryInv({"channel"}, MaxChunks + 1), RU!Next
  PROVE  RepositoryInv({"channel"}, MaxChunks + 1)'
<1>1. PICK max \in Nat : max = MaxChunks + 1
  BY BackendsAssumption
<1>2. PICK workers : workers = {"channel"}
  OBVIOUS
<1> SUFFICES ASSUME RepositoryInv(workers, max) PROVE RepositoryInv(workers, max)'
  BY <1>1, <1>2
<1>3. CASE RU!Close
  BY <1>1, <1>3, CloseKept DEF RU!Close
<1>4. CASE RU!Crash
  BY <1>1, <1>2, <1>4, CrashKept DEF RU!Crash
<1>5. CASE RU!New
  BY <1>1, <1>5, NewKept DEF RU!New
<1>6. ASSUME NEW w \in workers, RU!Make(w)
      PROVE  RepositoryInv(workers, max)'
  <2>1. RU!Left = LeftOf(workers, page)
    BY <1>2 DEF RU!Left, LeftOf
  <2>2. PICK p \in UserPages : /\ Len(rows) + Len(p) + Cardinality(RU!Left) <= max
                               /\ page' = [page EXCEPT ![w] = p]
    BY <1>1, <1>6, RepositoryCounts DEF RU!Make
  <2> QED
    BY <1>1, <1>6, <2>1, <2>2, MakeKept DEF RU!Make
<1>7. ASSUME NEW w \in workers, RU!InsertChunk(w)
      PROVE  RepositoryInv(workers, max)'
  <2>1. CASE page' = [page EXCEPT ![w] = <<>>] /\ UNCHANGED <<rows, store>>
    BY <1>1, <1>7, <2>1, GivesUpKept DEF RU!InsertChunk
  <2>2. CASE ~(page' = [page EXCEPT ![w] = <<>>] /\ UNCHANGED <<rows, store>>)
    <3>1. PICK c : c = Head(page[w])
      OBVIOUS
    <3>2. PICK e : e = [type |-> c.type, ch |-> c.ch, only |-> c.only, rows |-> RU!Inserted(c), session |-> session, at |-> at[w]]
      OBVIOUS
    <3>3. PICK touched : touched = UNION {RU!ViewsOf(c, r) : r \in RU!Range0(RU!Inserted(c))}
      OBVIOUS
    <3>4. /\ rows' = Append(rows, e) /\ page' = [page EXCEPT ![w] = Tail(@)] /\ page[w] # <<>>
          /\ store' = RU!Stored(c, Len(rows) + 1) /\ UNCHANGED <<session, sessions>>
      BY <1>7, <2>2, <3>1, <3>2 DEF RU!InsertChunk
    <3>5. store' = [x \in DOMAIN store \cup touched |-> IF x \in touched THEN Len(rows) + 1 ELSE store[x]]
      BY <3>3, <3>4 DEF RU!Stored
    <3>6. e.session = session /\ e.type = Head(page[w]).type
      BY <3>1, <3>2
    <3> QED
      BY <1>1, <3>4, <3>5, <3>6, StoreKept
  <2> QED
    BY <2>1, <2>2
<1> QED
  BY <1>2, <1>3, <1>4, <1>5, <1>6, <1>7 DEF RU!Next

\* An invariant of the database gives the types of its variables.
LEMMA RepositoryTypes ==
  ASSUME NEW workers, NEW max \in Nat, RepositoryInv(workers, max)
  PROVE  /\ session \in 1..MaxSessions /\ DOMAIN sessions = 1..session
         /\ \A s \in 1..session - 1 : sessions[s] # "open"
         /\ Len(rows) <= max
         /\ \A k \in DOMAIN rows : rows[k].session \in 1..session /\ rows[k].type \in RM!Kinds
         /\ \A x \in DOMAIN store : store[x] \in DOMAIN rows
<1>1. Len(rows) \in Nat /\ Cardinality(LeftOf(workers, page)) \in Nat
  BY ListedAppend, FS_CardinalityType DEF RepositoryInv
<1> QED
  BY <1>1 DEF RepositoryInv

LEMMA MessagesTypes == ASSUME RepositoryInv(Workers, MaxChunks) PROVE RM!TypeOK
BY RepositoryTypes, BackendsAssumption DEF RM!TypeOK

LEMMA UsersTypes == ASSUME RepositoryInv({"channel"}, MaxChunks + 1) PROVE RU!TypeOK
BY RepositoryTypes, BackendsAssumption DEF RU!TypeOK, RU!Kinds, RM!Kinds

LEMMA RepositoryIdle ==
  ASSUME NEW workers, NEW max, RepositoryInv(workers, max), UNCHANGED repository
  PROVE  RepositoryInv(workers, max)'
BY DEF RepositoryInv, repository
-----------------------------------------------------------------------------
(* All of them.                                                            *)

BackendsInv ==
  /\ part = "dir" => DirInv
  /\ part = "db" => DbInv
  /\ part = "messages" => RepositoryInv(Workers, MaxChunks)
  /\ part = "users" => RepositoryInv({"channel"}, MaxChunks + 1)
  /\ part = "erc" => ErcInv

LEMMA BackendsInitInv == ASSUME BackendsInit PROVE BackendsInv
<1>1. /\ Init /\ Db!Init /\ ER!Init
      /\ IF part = "users" THEN RU!Init ELSE RM!Init
  BY DEF BackendsInit
<1>2. DirInv /\ DbInv /\ ErcInv
  BY <1>1, DirInitInv, DbInitInv, ErcInitInv
<1>3. part = "users" => RepositoryInv({"channel"}, MaxChunks + 1)
  BY <1>1, UsersInit
<1>4. part = "messages" => RepositoryInv(Workers, MaxChunks)
  BY <1>1, MessagesInit
<1> QED
  BY <1>2, <1>3, <1>4 DEF BackendsInv

LEMMA BackendsStepKept == ASSUME BackendsInv, [BackendsNext]_all PROVE BackendsInv'
<1>1. ASSUME DirClose \/ \E w \in Workers : DirBegin(w) \/ DirCall(w)
      PROVE  BackendsInv'
  <2>1. part = "dir" /\ part' = "dir" /\ Next
    BY <1>1 DEF DirClose, DirBegin, DirCall, Next
  <2>2. DirInv'
    BY <2>1, DirStepKept DEF BackendsInv
  <2> QED
    BY <2>1, <2>2 DEF BackendsInv
<1>2. ASSUME NEW w \in Workers, DbStep(w)
      PROVE  BackendsInv'
  <2>1. part = "db" /\ part' = "db" /\ Db!Step(w)
    BY <1>2 DEF DbStep
  <2>2. DbInv'
    BY <2>1, DbStepKept DEF BackendsInv
  <2> QED
    BY <2>1, <2>2 DEF BackendsInv
<1>3. ASSUME Storing
      PROVE  BackendsInv'
  <2>1. part' = part /\ ((part = "messages" /\ RM!Next) \/ (part = "users" /\ RU!Next))
    BY <1>3 DEF Storing
  <2>2. CASE part = "messages" /\ RM!Next
    <3>1. RepositoryInv(Workers, MaxChunks)'
      BY <2>2, MessagesKept DEF BackendsInv
    <3> QED
      BY <2>1, <2>2, <3>1 DEF BackendsInv
  <2>3. CASE part = "users" /\ RU!Next
    <3>1. RepositoryInv({"channel"}, MaxChunks + 1)'
      BY <2>3, UsersKept DEF BackendsInv
    <3> QED
      BY <2>1, <2>3, <3>1 DEF BackendsInv
  <2> QED
    BY <2>1, <2>2, <2>3
<1>4. ASSUME Recording
      PROVE  BackendsInv'
  <2>1. part = "erc" /\ part' = "erc" /\ ER!Next
    BY <1>4 DEF Recording
  <2>2. ErcInv'
    BY <2>1, ErcStepKept DEF BackendsInv
  <2> QED
    BY <2>1, <2>2 DEF BackendsInv
<1>5. ASSUME UNCHANGED all
      PROVE  BackendsInv'
  <2>1. part' = part /\ UNCHANGED vars /\ UNCHANGED dbOnly /\ UNCHANGED repository /\ UNCHANGED erc
    BY <1>5 DEF all
  <2>2. part = "dir" => DirInv'
    BY <2>1, DirIdle DEF BackendsInv
  <2>3. part = "db" => DbInv'
    BY <2>1, DbIdle DEF BackendsInv, vars, dbOnly
  <2>4. part = "messages" => RepositoryInv(Workers, MaxChunks)'
    BY <2>1, RepositoryIdle DEF BackendsInv
  <2>5. part = "users" => RepositoryInv({"channel"}, MaxChunks + 1)'
    <3>1. PICK workers : workers = {"channel"}
      OBVIOUS
    <3>2. PICK max : max = MaxChunks + 1
      OBVIOUS
    <3>3. RepositoryInv(workers, max) => RepositoryInv(workers, max)'
      BY <2>1, RepositoryIdle
    <3> QED
      BY <3>1, <3>2, <3>3 DEF BackendsInv
  <2>6. part = "erc" => ErcInv'
    BY <2>1, ErcIdleKept DEF BackendsInv
  <2> QED
    BY <2>1, <2>2, <2>3, <2>4, <2>5, <2>6 DEF BackendsInv
<1> QED
  BY <1>1, <1>2, <1>3, <1>4, <1>5 DEF BackendsNext

LEMMA BackendsAlways == BackendsSpec => []BackendsInv
<1>1. BackendsInit => BackendsInv
  BY BackendsInitInv
<1>2. BackendsInv /\ [BackendsNext]_all => BackendsInv'
  BY BackendsStepKept
<1> QED
  BY <1>1, <1>2, PTL DEF BackendsSpec

\* The variables of each part have their types, the reference counts, what is stored and what is in
\* progress among them (dirproc, dbase.DBP, repository, directory.ERC).
THEOREM BackendsTypes == BackendsSpec => []BackendsTypeOK
<1>1. BackendsInv => BackendsTypeOK
  BY MessagesTypes, UsersTypes DEF BackendsInv, BackendsTypeOK, DirInv, DbInv, ErcInv, ErcTypes
<1> QED
  BY <1>1, BackendsAlways, PTL

\* A channel or a thread is handed over for conversion whole, whatever the order of the calls of the
\* two workers and wherever one fails (dirproc/conversation.go, dbase/dbp.go); and a session recorded in
\* a directory holds all that was asked for unless it ended with an error (directory.ERC).
THEOREM BackendsHandOver == BackendsSpec => []HandedOver
<1>1. BackendsInv => HandedOver
  BY DirHandsOverWhole, ErcRefusesKnown, ErcInfoReadable DEF BackendsInv, HandedOver, DbInv
<1> QED
  BY <1>1, BackendsAlways, PTL

\* The reference count of an open file is what is outstanding of its channel or thread, so that it drops
\* to zero with the last of it (dirproc/filetracker.go, directory.ERC).
THEOREM BackendsCounts == BackendsSpec => []DirCounts
<1>1. BackendsInv => DirCounts
  BY ErcClosesWhole DEF BackendsInv, DirCounts, DirInv
<1> QED
  BY <1>1, BackendsAlways, PTL
=============================================================================
