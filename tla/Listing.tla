-------------------------------- MODULE Listing --------------------------------
(* "list users" and "list channels" (cmd/slackdump/internal/list) and the caches   *)
(* of users and channels they share with other processes (internal/cache/cache.go, *)
(* usercache.go, channelcache.go).  A cache file is encrypted with a key of its    *)
(* own that is written when it is created; its entries follow one by one, with     *)
(* nothing that says how many there are.  Any process may be killed.               *)
EXTENDS Naturals, FiniteSets
CONSTANTS
  Runs,          \* function from the processes to the commands each may be: [what, flag, resolve]
  Entries,       \* how many users there are, and channels
  MaxFaults      \* bound: failures of Slack and the disk, kills, and caches that expire
VARIABLES
  cmd,      \* [process -> its command and flags]
  task,     \* [process -> [cache -> where its retrieval is, and how many entries it has]]
  file,     \* [cache -> key, entries with the key each was written with, torn line, age]
  clean,    \* history: the caches written to their end by their last writer, nobody beside it
  faults
vars == <<cmd, task, file, clean, faults>>

Procs == DOMAIN Runs
Caches == {"users", "channels"}
None == "none"
Absent == [key |-> None, at |-> [i \in 1..Entries |-> None], torn |-> FALSE, fresh |-> FALSE]
Whole(key) == [key |-> key, at |-> [i \in 1..Entries |-> key], torn |-> FALSE, fresh |-> TRUE]
Off == [pc |-> "off", n |-> 0, pos |-> 0, key |-> None, ok |-> FALSE, api |-> FALSE]
Idle == [pc |-> "idle", what |-> "users", flag |-> FALSE]

Init ==
  /\ cmd = [p \in Procs |-> Idle] /\ task = [p \in Procs |-> [w \in Caches |-> Off]]
  /\ clean \in SUBSET Caches /\ faults = 0
  /\ file = [w \in Caches |-> IF w \in clean THEN Whole("old") ELSE Absent]
Fault == faults < MaxFaults /\ faults' = faults + 1

\* runListUsers and runListChannels; "-no-chan-cache" switches the cache of channels on.
ListCached(p) ==
  /\ cmd[p].pc = "idle"
  /\ \E r \in Runs[p] :
       /\ cmd' = [cmd EXCEPT ![p] = [pc |-> "retrieve", what |-> r.what, flag |-> r.flag]]
       /\ task' = [task EXCEPT ![p] = [w \in Caches |->
            IF w = r.what \/ r.resolve THEN [Off EXCEPT !.pc = "load"] ELSE Off]]
  /\ UNCHANGED <<file, clean, faults>>

Set(p, w, t) == task' = [task EXCEPT ![p][w] = t]
T(p, w) == task[p][w]
Step(p, w, pc) == Set(p, w, [T(p, w) EXCEPT !.pc = pc])

\* load: a file that is missing or too old is as good as none; it is opened with the key in it.
UsesCache(p, w) == IF w = "users" THEN ~cmd[p].flag ELSE cmd[p].flag
Load(p, w) ==
  /\ T(p, w).pc = "load"
  /\ IF UsesCache(p, w) /\ file[w].key # None /\ file[w].fresh
     THEN Set(p, w, [T(p, w) EXCEPT !.pc = "read", !.n = 0, !.key = file[w].key, !.ok = w \in clean])
     ELSE Step(p, w, "fetch")
  /\ UNCHANGED <<cmd, file, clean, faults>>

\* read decodes entries up to the end of the file.  One that cannot be decoded fails the users, and
\* sends the channels to the API.
Legible(p, w, i) == file[w].at[i] = T(p, w).key
Read(p, w) ==
  LET n == T(p, w).n + 1
      ends == \A i \in n..Entries : file[w].at[i] = None
  IN
  /\ T(p, w).pc = "read"
  /\ IF n <= Entries /\ Legible(p, w, n) THEN Set(p, w, [T(p, w) EXCEPT !.n = n])
     ELSE IF ends /\ ~file[w].torn THEN Step(p, w, "done")
     ELSE Step(p, w, IF w = "users" THEN "failed" ELSE "fetch")
  /\ UNCHANGED <<cmd, file, clean, faults>>

\* fetchUsers and GetChannels; the channels wait for the users before they are saved.
Fetch(p, w) ==
  /\ T(p, w).pc = "fetch"
  /\ \/ Set(p, w, [T(p, w) EXCEPT !.pc = IF w = "users" THEN "create" ELSE "join", !.n = Entries, !.api = TRUE])
        /\ UNCHANGED faults
     \/ Step(p, w, "failed") /\ Fault
  /\ UNCHANGED <<cmd, file, clean>>
Ended(p, w) == T(p, w).pc \in {"off", "done", "failed"}
Join(p) ==
  /\ T(p, "channels").pc = "join" /\ Ended(p, "users") /\ Step(p, "channels", "create")
  /\ UNCHANGED <<cmd, file, clean, faults>>

\* save truncates the file; that it fails is logged and no more.
Writes(p, w) == T(p, w).pc = "write"
Create(p, w) ==
  /\ T(p, w).pc = "create"
  /\ \/ /\ file' = [file EXCEPT ![w] = [Absent EXCEPT !.key = p, !.fresh = TRUE]]
        /\ task' = [q \in Procs |-> [task[q] EXCEPT ![w] =
             IF q = p THEN [T(q, w) EXCEPT !.pc = "write", !.pos = 0, !.ok = ~\E r \in Procs : Writes(r, w)]
             ELSE [T(q, w) EXCEPT !.ok = FALSE]]]
        /\ clean' = clean \ {w} /\ UNCHANGED faults
     \/ Step(p, w, "done") /\ Fault /\ UNCHANGED <<file, clean>>
  /\ UNCHANGED <<cmd>>
\* writeSlice: each entry where this writer is in the file, whoever has truncated it since.
WriteSlice(p, w) ==
  LET i == T(p, w).pos + 1 IN
  /\ Writes(p, w)
  /\ \/ /\ file' = [file EXCEPT ![w].at[i] = p] /\ UNCHANGED faults
        /\ IF i < Entries THEN Set(p, w, [T(p, w) EXCEPT !.pos = i]) /\ UNCHANGED clean
           ELSE Step(p, w, "done") /\ clean' = IF T(p, w).ok THEN clean \cup {w} ELSE clean
     \/ file' = [file EXCEPT ![w].torn = TRUE] /\ Step(p, w, "done") /\ Fault /\ UNCHANGED clean
  /\ UNCHANGED <<cmd>>

\* Retrieve has returned: the listing is printed, and saved unless the user keeps the old file.
Returns(p) ==
  /\ cmd[p].pc = "retrieve"
  /\ LET w == cmd[p].what IN
     \/ T(p, w).pc = "failed" /\ cmd' = [cmd EXCEPT ![p].pc = "failed"]
     \/ T(p, w).pc = "done" /\ Ended(p, "users") /\ cmd' = [cmd EXCEPT ![p].pc = "print"]
  /\ UNCHANGED <<task, file, clean, faults>>
SaveData(p) ==
  /\ cmd[p].pc = "print"
  /\ \/ cmd' = [cmd EXCEPT ![p].pc = "ok"] /\ UNCHANGED faults
     \/ cmd' = [cmd EXCEPT ![p].pc = "failed"] /\ Fault
  /\ UNCHANGED <<task, file, clean>>
\* The process is killed, and its goroutines with it.
Kill(p) ==
  /\ cmd[p].pc \in {"retrieve", "print"} /\ Fault
  /\ cmd' = [cmd EXCEPT ![p].pc = "failed"] /\ task' = [task EXCEPT ![p] = [w \in Caches |-> Off]]
  /\ UNCHANGED <<file, clean>>
Expire(w) ==
  /\ file[w].fresh /\ Fault /\ file' = [file EXCEPT ![w].fresh = FALSE]
  /\ UNCHANGED <<cmd, task, clean>>

Next ==
  \/ \E p \in Procs :
       \/ ListCached(p) \/ Join(p) \/ Returns(p) \/ SaveData(p) \/ Kill(p)
       \/ \E w \in Caches : Load(p, w) \/ Read(p, w) \/ Fetch(p, w) \/ Create(p, w) \/ WriteSlice(p, w)
  \/ \E w \in Caches : Expire(w)
Spec == Init /\ [][Next]_vars

TypeOK ==
  /\ \A p \in Procs : /\ cmd[p].pc \in {"idle", "retrieve", "print", "ok", "failed"}
                      /\ \A w \in Caches : T(p, w).n \in 0..Entries /\ T(p, w).pos \in 0..Entries
  /\ clean \subseteq Caches /\ faults \in 0..MaxFaults

\* What is listed is everything when it comes from Slack, and when the cache had been written to its
\* end before it was opened and was not written anew meanwhile; and only then must it be.  Such a
\* cache never fails a command, and a failed users cache leaves the channels without names at most.
ListingIsWhole ==
  \A p \in Procs, w \in Caches :
    /\ T(p, w).pc = "done" /\ (T(p, w).api \/ T(p, w).ok) => T(p, w).n = Entries
    /\ T(p, w).pc = "failed" /\ T(p, w).key # None /\ ~T(p, w).api /\ faults = 0 => ~T(p, w).ok
    /\ cmd[p].pc \in {"print", "ok"} => T(p, cmd[p].what).pc = "done" /\ Ended(p, "users")
\* A cache that no writer was interrupted in, and none was beside, is legible to its end.
CleanIsLegible ==
  \A w \in clean : file[w].key # None /\ ~file[w].torn /\ \A i \in 1..Entries : file[w].at[i] = file[w].key
================================================================================
