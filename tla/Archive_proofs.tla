---------------------------- MODULE Archive_proofs ----------------------------
(***************************************************************************)
(* Proof that completed runs leave no gap in an archive, for any workspace *)
(* and any number of runs, interruptions and posts.                        *)
(***************************************************************************)
EXTENDS Archive, FiniteSetTheorems, WellFoundedInduction, TLAPS

Parameters == PageSize \in Nat \ {0} /\ Lookback \in Nat /\ MaxTime \in Nat

-----------------------------------------------------------------------------
(* The newest and the oldest of a set of times, and pages.                 *)

Less == OpToRel(<, Nat)

LEMMA MinIn ==
  ASSUME NEW S, S \subseteq Nat, S # {}
  PROVE  Min(S) \in S /\ \A y \in S : Min(S) <= y
<1>1. PICK x \in S : \A y \in S : ~(<<y, x>> \in Less)
  BY NatLessThanWellFounded, WFMin DEF Less
<1>2. ASSUME NEW y \in S PROVE x <= y
  <2>1. y < x => <<y, x>> \in Less
    BY DEF Less, OpToRel
  <2> QED
    BY <1>1, <2>1
<1> QED
  BY <1>2 DEF Min

LEMMA MaxIn ==
  ASSUME NEW n \in Nat, NEW S, S \subseteq 0..n, S # {}
  PROVE  Max(S) \in S /\ \A y \in S : Max(S) >= y
<1> DEFINE T == {n - x : x \in S}
<1>1. T \subseteq Nat /\ T # {}
  <2>1. \A x \in S : x \in 0..n /\ n - x \in Nat
    OBVIOUS
  <2> QED
    BY <2>1
<1>2. PICK z \in T : \A y \in T : z <= y
  BY <1>1, MinIn
<1>3. PICK x \in S : z = n - x
  BY <1>2
<1>4. \A y \in S : n - x <= n - y
  BY <1>2, <1>3
<1>5. \A y \in S : x >= y
  BY <1>4
<1> QED
  BY <1>5 DEF Max

\* A page is the newest part of what is wanted, and is empty only if nothing is.
LEMMA PageNewest ==
  ASSUME Parameters, NEW W, W \subseteq Message, IsFiniteSet(W)
  PROVE  /\ Page(W) \subseteq W
         /\ \A x \in Page(W), y \in W : x.ts <= y.ts => y \in Page(W)
         /\ W # {} => Page(W) # {}
<1>1. \A m \in W : m.ts \in 0..MaxTime /\ m.ts \in Nat
  BY DEF Message, Parameters
<1>2. ASSUME NEW x \in Page(W), NEW y \in W, x.ts <= y.ts PROVE y \in Page(W)
  <2> DEFINE A(m) == {z \in W : z.ts > m.ts}
  <2>1. IsFiniteSet(A(x)) /\ A(y) \subseteq A(x)
    BY <1>1, <1>2, FS_Subset DEF Page
  <2>2. Cardinality(A(y)) <= Cardinality(A(x)) /\ Cardinality(A(y)) \in Nat /\ Cardinality(A(x)) \in Nat
    BY <2>1, FS_Subset, FS_CardinalityType
  <2>3. Cardinality(A(x)) < PageSize
    BY <1>2 DEF Page
  <2> QED
    BY <2>2, <2>3 DEF Page, Parameters
<1>3. ASSUME W # {} PROVE Page(W) # {}
  <2> DEFINE S == {m.ts : m \in W}
  <2>1. Max(S) \in S /\ \A y \in S : Max(S) >= y
    BY <1>1, <1>3, MaxIn DEF Parameters
  <2>2. PICK m \in W : m.ts = Max(S)
    BY <2>1
  <2>3. \A z \in W : z.ts <= m.ts
    BY <1>1, <2>1, <2>2
  <2>5. {z \in W : z.ts > m.ts} = {}
    BY <1>1, <2>3
  <2>4. Cardinality({z \in W : z.ts > m.ts}) = 0
    BY <2>5, FS_EmptySet
  <2> QED
    BY <2>4 DEF Page, Parameters
<1> QED
  BY <1>2, <1>3 DEF Page

-----------------------------------------------------------------------------
(* What is where.                                                          *)

Places ==
  /\ now \in 0..MaxTime
  /\ posted \subseteq Message /\ IsFiniteSet(posted) /\ \A m \in posted : m.ts <= now
  /\ \A r \in replies : r.root \in posted /\ r.ts \in 1..now /\ r.root.ts < r.ts
  /\ stored \subseteq posted /\ storedReplies \subseteq replies /\ opened \subseteq posted
  /\ atStart.messages \subseteq posted /\ atStart.replies \subseteq replies
  /\ \A r \in atStart.replies : r.root \in atStart.messages
  /\ \A c \in DOMAIN window : window[c] \in Int /\ window[c] <= now
  /\ todo \subseteq DOMAIN window
  /\ fetching = Nothing \/
       /\ fetching \in [chan : DOMAIN window \ todo, oldest : Int, before : 1..MaxTime + 1]
       /\ fetching.oldest = window[fetching.chan]
  /\ run \in {"idle", "ok"} => todo = {} /\ fetching = Nothing /\ threads = {}
  /\ \A t \in threads : t.root \in posted /\ t.oldest \in Int /\ t.oldest <= now

\* What the run has of the messages that it wants: the message, and its replies or an order for them.
Order(m) == [root |-> m, oldest |-> 0]
Has(m) ==
  m \in stored /\ \A r \in atStart.replies : r.root = m => r \in storedReplies \/ Order(m) \in threads
Ahead(m) == m.chan \in todo \/ (fetching # Nothing /\ fetching.chan = m.chan /\ m.ts < fetching.before)
Progress ==
  run # "idle" => \A m \in atStart.messages :
    m.chan \in DOMAIN window /\ m.ts > window[m.chan] => Ahead(m) \/ Has(m)

\* As long as all runs complete: nothing is missing below a stored message, except below the cursor
\* of the channel at hand, nor below the windows.
Cut(c) == IF fetching # Nothing /\ fetching.chan = c THEN fetching.before ELSE 0
NoHole ==
  clean /\ run # "failed" =>
    /\ \A m \in posted, s \in stored :
         m.chan = s.chan /\ m.ts <= s.ts /\ Cut(m.chan) <= m.ts => m \in stored
    /\ run # "idle" => \A m \in posted :
         m.chan \in DOMAIN window /\ m.ts <= window[m.chan] => m \in stored

\* Threads are fetched at once, so that there are no holes in them whatever is interrupted.
ThreadsWhole ==
  /\ \A r \in replies, s \in storedReplies : r.root = s.root /\ r.ts <= s.ts => r \in storedReplies
  /\ \A t \in threads, r \in replies : r.root = t.root /\ r.ts <= t.oldest => r \in storedReplies
  /\ run # "idle" /\ IncludeThreads => \A r \in atStart.replies :
       r.root \in opened => r \in storedReplies \/ \E t \in threads : t.root = r.root

AInv == Places /\ Progress /\ NoHole /\ ThreadsWhole

LEMMA InitAInv == ASSUME Parameters, Init PROVE AInv
<1>1. IsFiniteSet(posted)
  BY FS_EmptySet DEF Init
<1>2. DOMAIN window = {}
  BY DEF Init
<1> QED
  BY <1>1, <1>2 DEF Init, Parameters, AInv, Places, Progress, NoHole, ThreadsWhole, Nothing

-----------------------------------------------------------------------------
(* The workspace, and the ends of a run.                                   *)

LEMMA PostKept == ASSUME Parameters, AInv, NEW c \in Channels, Post(c) PROVE AInv'
<1> DEFINE m == [chan |-> c, ts |-> now + 1]
<1>1. /\ now < MaxTime /\ now' = now + 1 /\ posted' = posted \cup {m}
      /\ UNCHANGED <<replies, database, run, session, runs, work, history>>
  BY DEF Post
<1>2. now \in 0..MaxTime /\ now + 1 \in 1..MaxTime /\ m \in Message
  BY <1>1 DEF Parameters, AInv, Places, Message
<1>3. IsFiniteSet(posted')
  BY <1>1, FS_AddElement DEF AInv, Places
<1>4. Places'
  BY <1>1, <1>2, <1>3 DEF AInv, Places, database, work, history, Message
<1>5. Progress'
  BY <1>1 DEF AInv, Progress, Ahead, Has, database, work, history
<1>6. \A s \in stored : s.ts <= now
  BY DEF AInv, Places
<1>7. \A s \in stored : ~(m.ts <= s.ts)
  BY <1>2, <1>6 DEF AInv, Places, Message
<1>8. \A d \in DOMAIN window : ~(m.ts <= window[d])
  BY <1>2 DEF AInv, Places
<1>9. NoHole'
  BY <1>1, <1>7, <1>8 DEF AInv, NoHole, Cut, database, work, history
<1>10. ThreadsWhole'
  BY <1>1 DEF AInv, ThreadsWhole, database, work, history
<1> QED
  BY <1>4, <1>5, <1>9, <1>10 DEF AInv

LEMMA RespondKept == ASSUME Parameters, AInv, NEW m \in posted, Respond(m) PROVE AInv'
<1> DEFINE r == [root |-> m, ts |-> now + 1]
<1>1. /\ now < MaxTime /\ now' = now + 1 /\ replies' = replies \cup {r}
      /\ UNCHANGED <<posted, database, run, session, runs, work, history>>
  BY DEF Respond
<1>2. now \in 0..MaxTime /\ now + 1 \in 1..MaxTime /\ m.ts <= now /\ m.ts \in Nat
  BY <1>1 DEF Parameters, AInv, Places, Message
<1>3. r.root \in posted' /\ r.ts \in 1..now' /\ r.root.ts < r.ts
  BY <1>1, <1>2
<1>4. Places'
  BY <1>1, <1>2, <1>3 DEF AInv, Places, database, work, history, Message
<1>5. Progress'
  BY <1>1 DEF AInv, Progress, Ahead, Has, database, work, history
<1>6. NoHole'
  BY <1>1 DEF AInv, NoHole, Cut, database, work, history
<1>7. /\ \A s \in storedReplies : ~(r.ts <= s.ts)
      /\ \A t \in threads : ~(r.ts <= t.oldest)
  BY <1>2 DEF AInv, Places
<1>8. ThreadsWhole'
  BY <1>1, <1>7 DEF AInv, ThreadsWhole, database, work, history
<1> QED
  BY <1>4, <1>5, <1>6, <1>8 DEF AInv

LEMMA EndKept == ASSUME Parameters, AInv, Succeed \/ Fail \/ Close \/ Crash PROVE AInv'
<1>1. UNCHANGED <<now, posted, replies, stored, storedReplies, opened, window, atStart>>
  BY DEF Succeed, Fail, Close, Crash, workspace, database, history
<1>2. CASE Succeed \/ Fail
  <2>1. run = "run" /\ run' \in {"ok", "failed"} /\ UNCHANGED <<todo, fetching, threads, clean>>
        /\ (run' = "ok" => todo = {} /\ fetching = Nothing /\ threads = {})
    BY <1>2 DEF Succeed, Fail, work, history
  <2> QED
    BY <1>1, <2>1 DEF AInv, Places, Progress, NoHole, ThreadsWhole, Ahead, Has, Order, Cut
<1>3. CASE Close \/ Crash
  <2>1. /\ run' = "idle" /\ todo' = {} /\ fetching' = Nothing /\ threads' = {}
        /\ clean' => clean /\ run = "ok"
    BY <1>3 DEF Close, Crash
  <2>2. Places'
    BY <1>1, <2>1 DEF AInv, Places
  <2>3. NoHole'
    BY <1>1, <2>1 DEF AInv, Places, NoHole, Cut
  <2> QED
    BY <1>1, <2>1, <2>2, <2>3 DEF AInv, Progress, ThreadsWhole
<1> QED
  BY <1>2, <1>3

-----------------------------------------------------------------------------
(* The beginning of a run.                                                 *)

\* The window of a channel lies at or below a message that is stored, or has no message below it.
LEMMA WindowsBelow ==
  ASSUME Parameters, Places, NEW c \in DOMAIN Windows
  PROVE  /\ Windows[c] \in Int /\ Windows[c] <= now
         /\ Windows[c] <= 0 \/ \E s \in stored : s.chan = c /\ Windows[c] <= s.ts
<1>1. now \in Nat /\ Lookback \in Nat /\ stored \subseteq Message /\ \A s \in stored : s.ts \in 1..now
  BY DEF Parameters, Places, Message
<1>2. CASE c \in {m.chan : m \in stored}
  <2> DEFINE S == {m.ts : m \in {x \in stored : x.chan = c}}
  <2>1. S # {} /\ S \subseteq 0..now
    BY <1>1, <1>2
  <2>2. Max(S) \in S
    BY <1>1, <2>1, MaxIn
  <2>3. PICK s \in stored : s.chan = c /\ s.ts = Max(S)
    BY <2>2
  <2>4. LatestMessages[c] = Max(S) /\ c \in DOMAIN LatestMessages
    BY <1>2 DEF LatestMessages
  <2>5. Windows[c] = s.ts - Lookback
    BY <2>3, <2>4 DEF Windows, Oldest
  <2>6. s.ts \in 1..now /\ s.chan = c
    BY <1>1, <2>3
  <2>7. Windows[c] \in Int /\ Windows[c] <= now /\ Windows[c] <= s.ts
    BY <1>1, <2>5, <2>6
  <2> QED
    BY <2>6, <2>7
<1>3. CASE c \notin {m.chan : m \in stored}
  <2>1. Windows[c] = 0
    BY <1>3 DEF Windows, LatestMessages
  <2> QED
    BY <1>1, <2>1
<1> QED
  BY <1>2, <1>3

\* What is asked for of a thread in the list lies at or below a reply that is stored, or the thread's start.
LEMMA ItemsBelow ==
  ASSUME Parameters, Places, NEW t \in ThreadItems
  PROVE  /\ t.root \in opened /\ t.oldest \in Int /\ t.oldest <= now
         /\ t.oldest <= t.root.ts \/ \E s \in storedReplies : s.root = t.root /\ t.oldest <= s.ts
<1>1. /\ now \in Nat /\ Lookback \in Nat
      /\ \A m \in opened : m.ts \in 0..now
      /\ \A s \in storedReplies : s.ts \in 0..now
  BY DEF Parameters, Places, Message
<1>2. PICK m \in opened : t = [root |-> m, oldest |-> Oldest(LatestThreads[m])]
  BY DEF ThreadItems
<1> DEFINE S == {m.ts} \cup {r.ts : r \in {x \in storedReplies : x.root = m}}
<1>3. S # {} /\ S \subseteq 0..now
  BY <1>1
<1>4. Max(S) \in S
  BY <1>1, <1>3, MaxIn
<1>5. LatestThreads[m] = Max(S)
  BY DEF LatestThreads
<1>6. t.root = m /\ t.oldest = Max(S) - Lookback
  BY <1>2, <1>5 DEF Oldest
<1>7. CASE Max(S) = m.ts
  BY <1>1, <1>6, <1>7
<1>8. ASSUME NEW s \in storedReplies, s.root = m, Max(S) = s.ts
      PROVE  t.oldest \in Int /\ t.oldest <= now /\ s.root = t.root /\ t.oldest <= s.ts
  BY <1>1, <1>6, <1>8
<1> QED
  BY <1>4, <1>6, <1>7, <1>8, <1>1

LEMMA BeginKept == ASSUME Parameters, AInv, Begin PROVE AInv'
<1>1. /\ run = "idle" /\ run' = "run"
      /\ window' = Windows /\ todo' = DOMAIN Windows /\ threads' = ThreadItems /\ fetching' = Nothing
      /\ atStart' = [messages |-> posted, replies |-> replies]
      /\ UNCHANGED <<now, posted, replies, stored, storedReplies, opened, clean>>
  BY DEF Begin, workspace, database
<1>2. Places
  BY DEF AInv
<1>3. todo = {} /\ fetching = Nothing /\ threads = {}
  BY <1>1, <1>2 DEF Places
<1>4. /\ atStart'.messages = posted /\ atStart'.replies = replies
      /\ \A r \in replies : r.root \in posted
  BY <1>1, <1>2 DEF Places
<1>5. Places'
  BY <1>1, <1>2, <1>4, WindowsBelow, ItemsBelow DEF Places
<1>6. Progress'
  BY <1>1 DEF Progress, Ahead
<1>7. NoHole'
  <2> SUFFICES ASSUME clean
               PROVE  /\ \A m \in posted, s \in stored :
                           m.chan = s.chan /\ m.ts <= s.ts /\ Cut(m.chan)' <= m.ts => m \in stored
                      /\ \A m \in posted :
                           m.chan \in DOMAIN Windows /\ m.ts <= Windows[m.chan] => m \in stored
    BY <1>1 DEF NoHole, Cut
  <2>1. \A m \in posted, s \in stored : m.chan = s.chan /\ m.ts <= s.ts => m \in stored
    BY <1>1, <1>2, <1>3 DEF AInv, NoHole, Cut, Places, Message
  <2>2. ASSUME NEW m \in posted, m.chan \in DOMAIN Windows, m.ts <= Windows[m.chan] PROVE m \in stored
    <3>1. m.ts \in Nat \ {0} /\ \A s \in stored : s.ts \in Nat
      BY <1>2 DEF Places, Message
    <3> QED
      BY <1>2, <2>1, <2>2, <3>1, WindowsBelow
  <2> QED
    BY <2>1, <2>2
<1>8. ThreadsWhole'
  <2>1. ASSUME NEW t \in ThreadItems, NEW r \in replies, r.root = t.root, r.ts <= t.oldest
        PROVE  r \in storedReplies
    <3>1. /\ r.ts \in Nat /\ r.root.ts < r.ts /\ r.root.ts \in Nat /\ t.oldest \in Int
          /\ \A s \in storedReplies : s.ts \in Nat
      BY <1>2, ItemsBelow DEF Places, Message
    <3> QED
      BY <1>2, <2>1, <3>1, ItemsBelow DEF AInv, ThreadsWhole
  <2>2. ASSUME IncludeThreads, NEW r \in replies, r.root \in opened
        PROVE  \E t \in ThreadItems : t.root = r.root
    <3> DEFINE t == [root |-> r.root, oldest |-> Oldest(LatestThreads[r.root])]
    <3>1. t \in ThreadItems
      BY <2>2 DEF ThreadItems
    <3>2. t.root = r.root
      OBVIOUS
    <3> QED
      BY <3>1, <3>2
  <2> QED
    BY <1>1, <1>4, <2>1, <2>2 DEF AInv, ThreadsWhole
<1> QED
  BY <1>5, <1>6, <1>7, <1>8 DEF AInv

-----------------------------------------------------------------------------
(* The run.                                                                *)

LEMMA NextChannelKept == ASSUME Parameters, AInv, NextChannel PROVE AInv'
<1>1. /\ run \in {"run", "failed"} /\ fetching = Nothing
      /\ UNCHANGED <<now, posted, replies, stored, storedReplies, opened, run, threads, window, atStart, clean>>
  BY DEF NextChannel, Active, workspace, database, history
<1>2. PICK c \in todo : fetching' = [chan |-> c, oldest |-> window[c], before |-> MaxTime + 1]
                        /\ todo' = todo \ {c}
  BY DEF NextChannel
<1>3. MaxTime \in Nat /\ c \in DOMAIN window /\ window[c] \in Int /\ todo \subseteq DOMAIN window
  BY DEF Parameters, AInv, Places
<1>4. fetching' # Nothing /\ fetching'.chan = c /\ fetching'.before = MaxTime + 1
      /\ fetching'.oldest = window[c]
  BY <1>2, <1>3 DEF Nothing
<1>5. Places'
  <2>1. fetching' \in [chan : DOMAIN window' \ todo', oldest : Int, before : 1..MaxTime + 1]
    BY <1>1, <1>2, <1>3
  <2> QED
    BY <1>1, <1>2, <1>3, <1>4, <2>1 DEF AInv, Places
<1>6. \A m \in posted : m.ts \in Nat /\ m.ts < MaxTime + 1
  BY <1>3 DEF AInv, Places, Message
<1>7. Progress'
  <2>1. \A m \in atStart.messages : Ahead(m) => Ahead(m)'
    BY <1>1, <1>2, <1>4, <1>6 DEF Ahead, AInv, Places
  <2>2. \A m \in atStart.messages : Has(m) => Has(m)'
    BY <1>1 DEF Has
  <2> QED
    BY <1>1, <2>1, <2>2 DEF AInv, Progress
<1>8. NoHole'
  BY <1>1, <1>4, <1>6 DEF AInv, NoHole, Cut
<1>9. ThreadsWhole'
  BY <1>1 DEF AInv, ThreadsWhole
<1> QED
  BY <1>5, <1>7, <1>8, <1>9 DEF AInv

LEMMA FetchThreadKept == ASSUME Parameters, AInv, FetchThread PROVE AInv'
<1>1. /\ run \in {"run", "failed"}
      /\ UNCHANGED <<now, posted, replies, stored, run, todo, fetching, window, atStart, clean>>
  BY DEF FetchThread, Active, workspace, history
<1>2. PICK t \in threads :
        /\ storedReplies' = storedReplies \cup {r \in replies : r.root = t.root /\ r.ts > t.oldest}
        /\ opened' = opened \cup {t.root}
        /\ threads' = threads \ {t}
  BY DEF FetchThread
<1>3. t.root \in posted /\ t.oldest \in Int /\ \A r \in replies : r.ts \in Nat \ {0}
  BY DEF AInv, Places
<1>4. \A r \in replies : r.root = t.root => r \in storedReplies'
  BY <1>2, <1>3 DEF AInv, ThreadsWhole
<1>5. Places'
  BY <1>1, <1>2, <1>3 DEF AInv, Places
<1>6. Progress'
  <2>1. \A m : Ahead(m) => Ahead(m)'
    BY <1>1 DEF Ahead
  <2>2. atStart.replies \subseteq replies /\ \A m : Order(m).root = m
    BY DEF AInv, Places, Order
  <2>3. \A m : Has(m) => Has(m)'
    <3> SUFFICES ASSUME NEW m, Has(m), NEW r \in atStart.replies, r.root = m
                 PROVE  r \in storedReplies' \/ Order(m) \in threads'
      BY <1>1 DEF Has, Order
    <3>1. CASE Order(m) = t
      BY <1>4, <2>2, <3>1
    <3>2. CASE Order(m) # t
      BY <1>2, <3>2 DEF Has
    <3> QED
      BY <3>1, <3>2
  <2> QED
    BY <1>1, <2>1, <2>3 DEF AInv, Progress
<1>7. NoHole'
  BY <1>1 DEF AInv, NoHole, Cut
<1>8. ThreadsWhole'
  <2>1. \A r \in replies, s \in storedReplies' :
          r.root = s.root /\ r.ts <= s.ts => r \in storedReplies'
    BY <1>2, <1>4 DEF AInv, ThreadsWhole
  <2>2. \A u \in threads', r \in replies : r.root = u.root /\ r.ts <= u.oldest => r \in storedReplies'
    BY <1>2 DEF AInv, ThreadsWhole
  <2>3. ASSUME IncludeThreads, NEW r \in atStart.replies, r.root \in opened'
        PROVE  r \in storedReplies' \/ \E u \in threads' : u.root = r.root
    <3>1. CASE r.root = t.root
      BY <1>4, <3>1 DEF AInv, Places
    <3>2. CASE r.root # t.root
      BY <1>1, <1>2, <2>3, <3>2 DEF AInv, ThreadsWhole
    <3> QED
      BY <3>1, <3>2
  <2> QED
    BY <1>1, <2>1, <2>2, <2>3 DEF ThreadsWhole
<1> QED
  BY <1>5, <1>6, <1>7, <1>8 DEF AInv

\* What lies between the window and the cursor is on the page, or below the cursor that follows.
LEMMA PageCovers ==
  ASSUME Parameters, Places, FetchPage, NEW m \in posted, m.chan = fetching.chan,
         m.ts > fetching.oldest, m.ts < fetching.before
  PROVE  \/ m \in Page(Wanted)
         \/ fetching' # Nothing /\ m.ts < fetching'.before
<1> DEFINE page == Page(Wanted)
<1>1. Wanted \subseteq posted /\ posted \subseteq Message /\ IsFiniteSet(posted)
  BY DEF Wanted, Places
<1>2. IsFiniteSet(Wanted) /\ Wanted \subseteq Message
  BY <1>1, FS_Subset
<1>3. m \in Wanted
  BY DEF Wanted
<1>4. CASE ~HasMore(Wanted)
  BY <1>3, <1>4 DEF HasMore
<1>5. CASE HasMore(Wanted)
  <2>1. page # {} /\ page \subseteq Wanted
    BY <1>2, <1>3, PageNewest
  <2> DEFINE T == {x.ts : x \in page}
  <2>2. T \subseteq Nat /\ T # {}
    BY <1>1, <2>1 DEF Message
  <2>3. PICK x \in page : x.ts = Cursor(page)
    BY <2>2, MinIn DEF Cursor
  <2>4. x.ts <= m.ts => m \in page
    BY <1>2, <1>3, PageNewest
  <2>5. fetching' = [fetching EXCEPT !.before = x.ts] /\ x.ts \in 1..MaxTime
    BY <1>1, <1>5, <2>1, <2>3 DEF FetchPage, Message
  <2>6. fetching # Nothing /\ fetching.before \in Nat /\ fetching \in [chan : DOMAIN window \ todo, oldest : Int, before : 1..MaxTime + 1]
    BY DEF FetchPage, Places, Parameters
  <2>7. fetching'.before = x.ts /\ fetching' # Nothing
    BY <2>5, <2>6 DEF Nothing
  <2> QED
    BY <1>1, <2>4, <2>5, <2>7 DEF Message
<1> QED
  BY <1>4, <1>5

\* The cursor moves to a message of the page.
LEMMA CursorMoves ==
  ASSUME Parameters, Places, FetchPage
  PROVE  \/ fetching' = Nothing
         \/ /\ fetching' \in [chan : {fetching.chan}, oldest : {fetching.oldest}, before : 1..MaxTime + 1]
            /\ \E x \in Page(Wanted) : fetching'.before = x.ts
<1> DEFINE page == Page(Wanted)
<1>1. fetching \in [chan : DOMAIN window \ todo, oldest : Int, before : 1..MaxTime + 1]
  BY DEF FetchPage, Places
<1>2. Wanted \subseteq posted /\ Wanted \subseteq Message /\ IsFiniteSet(Wanted)
  BY FS_Subset DEF Wanted, Places
<1>3. CASE ~HasMore(Wanted)
  BY <1>3 DEF FetchPage
<1>4. CASE HasMore(Wanted)
  <2>1. Wanted # {}
    BY <1>4 DEF HasMore, Page
  <2>2. page # {} /\ page \subseteq Wanted
    BY <1>2, <2>1, PageNewest
  <2> DEFINE T == {x.ts : x \in page}
  <2>3. T \subseteq Nat /\ T # {}
    BY <1>2, <2>2 DEF Message
  <2>4. PICK x \in page : x.ts = Cursor(page)
    BY <2>3, MinIn DEF Cursor
  <2>5. fetching' = [fetching EXCEPT !.before = x.ts] /\ x.ts \in 1..MaxTime
    BY <1>2, <1>4, <2>2, <2>4 DEF FetchPage, Message
  <2>6. fetching'.before = x.ts
        /\ fetching' \in [chan : {fetching.chan}, oldest : {fetching.oldest}, before : 1..MaxTime + 1]
    BY <1>1, <2>5 DEF Parameters
  <2> QED
    BY <2>4, <2>6
<1> QED
  BY <1>3, <1>4

LEMMA FetchPageKept == ASSUME Parameters, AInv, FetchPage PROVE AInv'
<1> DEFINE page == Page(Wanted)
<1>1. /\ run \in {"run", "failed"} /\ fetching # Nothing
      /\ stored' = stored \cup page
      /\ threads' = threads \cup {[root |-> m, oldest |-> 0] : m \in Started(page)}
      /\ UNCHANGED <<now, posted, replies, storedReplies, opened, run, todo, window, atStart, clean>>
  BY DEF FetchPage, Active, workspace, history
<1>2. Places
  BY DEF AInv
<1>3. /\ fetching \in [chan : DOMAIN window \ todo, oldest : Int, before : 1..MaxTime + 1]
      /\ fetching.oldest = window[fetching.chan]
  BY <1>1, <1>2 DEF Places
<1>4. page \subseteq posted /\ \A x \in page : x.chan = fetching.chan /\ x.ts < fetching.before
  BY DEF Page, Wanted
<1>5. fetching' = Nothing \/
        /\ fetching' \in [chan : {fetching.chan}, oldest : {fetching.oldest}, before : 1..MaxTime + 1]
        /\ \E x \in page : fetching'.before = x.ts
  BY <1>2, CursorMoves
<1>6. \A m \in posted : m.ts \in Nat
  BY <1>2 DEF Places, Message
<1>7. Places'
  <2>1. \A t \in threads' : t.root \in posted /\ t.oldest \in Int /\ t.oldest <= now
    BY <1>1, <1>2, <1>4 DEF Places, Started, Parameters
  <2>2. fetching' = Nothing \/
          /\ fetching' \in [chan : DOMAIN window \ todo, oldest : Int, before : 1..MaxTime + 1]
          /\ fetching'.oldest = window[fetching'.chan]
    BY <1>3, <1>5
  <2> QED
    BY <1>1, <1>2, <1>4, <2>1, <2>2 DEF Places
<1>8. ASSUME NEW m \in posted, m.chan = fetching.chan, m.ts > fetching.oldest, m.ts < fetching.before
      PROVE  m \in page \/ (fetching' # Nothing /\ m.ts < fetching'.before)
  BY <1>2, <1>8, PageCovers
<1>9. Progress'
  <2> SUFFICES ASSUME NEW m \in atStart.messages, m.chan \in DOMAIN window, m.ts > window[m.chan]
               PROVE  Ahead(m)' \/ Has(m)'
    BY <1>1 DEF Progress
  <2>1. m \in posted /\ atStart.replies \subseteq replies
    BY <1>2 DEF Places
  <2>2. CASE Has(m)
    BY <1>1, <2>2 DEF Has, Order
  <2>3. CASE m.chan \in todo
    BY <1>1, <2>3 DEF Ahead
  <2>4. CASE m.chan = fetching.chan /\ m.ts < fetching.before
    <3>1. CASE m \in page
      <4>1. \A r \in atStart.replies : r.root = m => m \in Started(page)
        BY <2>1, <3>1 DEF Started
      <4> QED
        BY <1>1, <3>1, <4>1 DEF Has, Order
    <3>2. CASE fetching' # Nothing /\ m.ts < fetching'.before
      BY <1>5, <2>4, <3>2 DEF Ahead
    <3> QED
      BY <1>3, <1>8, <2>1, <2>4, <3>1, <3>2
  <2> QED
    BY <1>1, <2>2, <2>3, <2>4 DEF AInv, Progress, Ahead
<1>10. NoHole'
  <2> SUFFICES ASSUME clean, run # "failed" PROVE NoHole'
    BY <1>1 DEF NoHole
  <2>1. \A m \in posted : m.chan \in DOMAIN window /\ m.ts <= window[m.chan] => m \in stored
    BY <1>1 DEF AInv, NoHole
  <2>2. ASSUME NEW m \in posted, NEW s \in stored', m.chan = s.chan, m.ts <= s.ts, Cut(m.chan)' <= m.ts
        PROVE  m \in stored'
    <3>1. CASE m.chan # fetching.chan
      <4>1. s \in stored /\ Cut(m.chan) <= m.ts
        BY <1>1, <1>4, <1>6, <2>2, <3>1 DEF Cut
      <4> QED
        BY <1>1, <2>2, <4>1 DEF AInv, NoHole
    <3>2. CASE m.chan = fetching.chan /\ ~(m.ts < fetching.before)
      <4>1. s \in posted /\ s.ts \in Nat /\ m.ts \in Nat
        BY <1>1, <1>2, <1>4, <1>6 DEF Places
      <4>2. s \in stored /\ Cut(m.chan) <= m.ts
        BY <1>1, <1>3, <1>4, <2>2, <3>2, <4>1 DEF Cut
      <4> QED
        BY <1>1, <2>2, <4>2 DEF AInv, NoHole
    <3>3. CASE m.chan = fetching.chan /\ m.ts < fetching.before /\ ~(m.ts > fetching.oldest)
      BY <1>1, <1>3, <1>6, <2>1, <3>3
    <3>4. CASE m.chan = fetching.chan /\ m.ts < fetching.before /\ m.ts > fetching.oldest
      <4>1. ~(fetching' # Nothing /\ m.ts < fetching'.before)
        BY <1>5, <1>6, <2>2, <3>4 DEF Cut
      <4> QED
        BY <1>1, <1>8, <3>4, <4>1
    <3> QED
      BY <3>1, <3>2, <3>3, <3>4
  <2> QED
    BY <1>1, <2>1, <2>2 DEF NoHole
<1>11. ThreadsWhole'
  <2>1. ASSUME NEW m \in Started(page), NEW r \in replies PROVE ~(r.ts <= 0)
    BY <1>2 DEF Places
  <2>2. \A t \in threads', r \in replies : r.root = t.root /\ r.ts <= t.oldest => r \in storedReplies
    BY <1>1, <2>1 DEF AInv, ThreadsWhole
  <2> QED
    BY <1>1, <2>2 DEF AInv, ThreadsWhole
<1> QED
  BY <1>7, <1>9, <1>10, <1>11 DEF AInv

-----------------------------------------------------------------------------
(* The theorems.                                                           *)

LEMMA StepKept == ASSUME Parameters, AInv, [Next]_vars PROVE AInv'
<1>1. CASE UNCHANGED vars
  <2>1. UNCHANGED <<now, posted, replies, stored, storedReplies, opened, run, todo, fetching, threads,
                    window, atStart, clean>>
    BY <1>1 DEF vars, workspace, database, work, history
  <2>2. Places' /\ Progress'
    BY <2>1 DEF AInv, Places, Progress, Ahead, Has, Order
  <2> QED
    BY <2>1, <2>2 DEF AInv, NoHole, ThreadsWhole, Cut
<1>2. CASE Fetch
  BY <1>2, NextChannelKept, FetchPageKept, FetchThreadKept DEF Fetch
<1> QED
  BY <1>1, <1>2, PostKept, RespondKept, BeginKept, EndKept DEF Next

LEMMA Invariance == ASSUME Parameters PROVE Spec => []AInv
<1>1. Init => AInv
  BY InitAInv
<1>2. AInv /\ [Next]_vars => AInv'
  BY StepKept
<1> QED
  BY <1>1, <1>2, PTL DEF Spec

\* The rest of the types.
Types ==
  /\ replies \subseteq Reply /\ run \in {"idle", "run", "ok", "failed"}
  /\ session \in {"none", "unfinished", "finished"} /\ runs \in 0..MaxRuns
  /\ DOMAIN window \subseteq Channels /\ clean \in BOOLEAN

LEMMA TypesKept == ASSUME Parameters, MaxRuns \in Nat, AInv, Types, [Next]_vars PROVE Types'
<1>1. CASE \E c \in Channels : Post(c)
  BY <1>1 DEF Types, Post, database, history
<1>2. CASE \E m \in posted : Respond(m)
  <2>1. PICK m \in posted : Respond(m)
    BY <1>2
  <2>2. [root |-> m, ts |-> now + 1] \in Reply
    BY <2>1 DEF Respond, AInv, Places, Parameters, Reply
  <2> QED
    BY <2>1, <2>2 DEF Types, Respond, database, history
<1>3. CASE Begin
  <2>1. DOMAIN Windows \subseteq Channels
    BY DEF Windows, LatestMessages, AInv, Places, Message
  <2> QED
    BY <1>3, <2>1 DEF Types, Begin, workspace, database
<1>4. CASE Fetch
  BY <1>4 DEF Fetch, NextChannel, FetchPage, FetchThread, Types, workspace, database, history
<1>5. CASE Succeed \/ Fail \/ Close \/ Crash
  BY <1>5 DEF Succeed, Fail, Close, Crash, Types, workspace, database, work, history
<1>6. CASE UNCHANGED vars
  BY <1>6 DEF Types, vars, workspace, database, work, history
<1> QED
  BY <1>1, <1>2, <1>3, <1>4, <1>5, <1>6 DEF Next

\* Every variable of an archive keeps its type: what is stored has been posted, and what is being
\* fetched is in the window of the run.
THEOREM ArchiveTypes == ASSUME Parameters, MaxRuns \in Nat PROVE Spec => []TypeOK
<1>1. Init => AInv /\ Types
  BY InitAInv DEF Init, Types
<1>2. AInv /\ Types /\ [Next]_vars => (AInv /\ Types)'
  BY StepKept, TypesKept
<1>3. AInv /\ Types => TypeOK
  BY DEF AInv, Places, Types, TypeOK
<1> QED
  BY <1>1, <1>2, <1>3, PTL DEF Spec

LEMMA Settled ==
  ASSUME AInv, run = "ok"
  PROVE  \A m \in atStart.messages : m.chan \in DOMAIN window /\ m.ts > window[m.chan] =>
           m \in stored /\ \A r \in atStart.replies : r.root = m => r \in storedReplies
BY DEF AInv, Places, Progress, Ahead, Has

\* A run that ends without an error holds every message of its window that had been posted when
\* it began, and the threads these start, whatever earlier runs have left: the order
\* in which conversations.go fetches, and the transactions of the database, lose nothing.
THEOREM CompletedRunsHoldTheirWindow == ASSUME Parameters PROVE Spec => []WindowComplete
<1>1. ASSUME AInv PROVE WindowComplete
  <2> SUFFICES ASSUME run = "ok" PROVE WindowComplete
    BY DEF WindowComplete
  <2>1. \A r \in atStart.replies : r.root \in atStart.messages
    BY <1>1 DEF AInv, Places
  <2> QED
    BY <1>1, <2>1, Settled DEF WindowComplete
<1> QED
  BY <1>1, Invariance, PTL

\* As long as every run completes there is no gap between the windows that resume takes from the
\* latest messages stored, for any page size and lookback, while people go on posting.
THEOREM CompletedRunsLeaveNoGap == ASSUME Parameters PROVE Spec => []NoGap
<1>1. ASSUME AInv PROVE NoGap
  <2> SUFFICES ASSUME run = "ok", clean, NEW m \in atStart.messages, m.chan \in DOMAIN window
               PROVE  m \in stored
    BY DEF NoGap
  <2>1. m \in posted /\ m.ts \in Nat /\ window[m.chan] \in Int
    BY <1>1 DEF AInv, Places, Message
  <2>2. CASE m.ts <= window[m.chan]
    BY <1>1, <2>1, <2>2 DEF AInv, NoHole
  <2>3. CASE m.ts > window[m.chan]
    BY <1>1, <2>3, Settled
  <2> QED
    BY <2>1, <2>2, <2>3
<1> QED
  BY <1>1, Invariance, PTL

\* resume -threads brings every thread in the database up to date: a thread is fetched whole, so that
\* what is newer than its latest reply is all that can be missing.
THEOREM KnownThreadsAreKept == ASSUME Parameters PROVE Spec => []KnownThreads
<1>1. ASSUME AInv PROVE KnownThreads
  <2>1. run = "ok" => threads = {}
    BY <1>1 DEF AInv, Places
  <2> QED
    BY <1>1, <2>1 DEF KnownThreads, AInv, ThreadsWhole
<1> QED
  BY <1>1, Invariance, PTL
=============================================================================
