------------------------------- MODULE FileMgr -------------------------------
(***************************************************************************)
(* Opening the files of a chunk directory (internal/chunk/filemgr.go and   *)
(* Directory.Open, cachedFromReader in directory.go): each compressed file *)
(* is unpacked once into a temporary file, every Open returns a handle of  *)
(* its own, and the index of the chunks is kept in a file beside it.       *)
(*                                                                         *)
(* The readers run concurrently; the manager's mutex covers the bookkeeping*)
(* of handles and nothing of the index.                                    *)
(***************************************************************************)
EXTENDS Naturals, FiniteSets

CONSTANTS
  Readers,      \* goroutines that open and close files
  Names,        \* compressed files of the directory
  Damaged,      \* those that cannot be unpacked
  Broken,       \* those with a line that is no chunk
  MaxHandles,   \* bound: handles opened
  MayDestroy    \* Directory.Close happens while readers are at work

VARIABLES
  known,        \* names that have been unpacked
  handles,      \* the manager's map: [name -> handle, or 0]
  opened,       \* handles that are open in the process
  last,         \* the last handle given out
  idx,          \* [name -> "none", "partial" or "whole"]: the index file
  reader,       \* [Readers -> control point, name, handle, whether the index was read]
  destroyed     \* Destroy has run

vars == <<known, handles, opened, last, idx, reader, destroyed>>

NoName == "noname"
Resting == [pc |-> "idle", name |-> NoName, handle |-> 0, index |-> "none"]

Init ==
  /\ known = {}
  /\ handles = [n \in Names |-> 0]
  /\ opened = {}
  /\ last = 0
  /\ idx = [n \in Names |-> "none"]
  /\ reader = [r \in Readers |-> Resting]
  /\ destroyed = FALSE

Fail(r) == reader' = [reader EXCEPT ![r] = Resting]

\* A new handle of file n for reader r replaces the one the map held.
NewHandle(r, n) ==
  /\ last' = last + 1
  /\ opened' = opened \union {last + 1}
  /\ handles' = [handles EXCEPT ![n] = last + 1]
  /\ reader' = [reader EXCEPT ![r] = [pc |-> "index", name |-> n, handle |-> last + 1,
                                      index |-> "none"]]

\* filemgr.Open of a file unpacked before, or for the first time.
OpenKnown(r, n) ==
  /\ reader[r].pc = "idle" /\ last < MaxHandles
  /\ n \in known
  /\ IF destroyed
     THEN Fail(r) /\ UNCHANGED <<last, opened, handles>>
     ELSE NewHandle(r, n)
  /\ UNCHANGED <<known, idx, destroyed>>

OpenNew(r, n) ==
  /\ reader[r].pc = "idle" /\ last < MaxHandles
  /\ n \notin known
  /\ IF n \in Damaged \/ destroyed
     THEN Fail(r) /\ UNCHANGED <<known, last, opened, handles>>
     ELSE NewHandle(r, n) /\ known' = known \union {n}
  /\ UNCHANGED <<idx, destroyed>>

\* cachedFromReader: an index file is read; one that is still being written cannot be decoded,
\* and the handle stays open.
ReadIndex(r) ==
  LET n == reader[r].name IN
  /\ reader[r].pc = "index" /\ idx[n] # "none"
  /\ IF idx[n] = "partial"
     THEN Fail(r)
     ELSE reader' = [reader EXCEPT ![r].pc = "reading", ![r].index = idx[n]]
  /\ UNCHANGED <<known, handles, opened, last, idx, destroyed>>

\* Without one the chunks are indexed (a failure leaves the handle open), ...
NoIndex(r) ==
  /\ reader[r].pc = "index" /\ idx[reader[r].name] = "none"
  /\ IF reader[r].name \in Broken THEN Fail(r) ELSE reader' = [reader EXCEPT ![r].pc = "create"]
  /\ UNCHANGED <<known, handles, opened, last, idx, destroyed>>

\* ... the index file is created, which empties it, ...
CreateIndex(r) ==
  LET n == reader[r].name IN
  /\ reader[r].pc = "create"
  /\ IF destroyed
     THEN Fail(r) /\ UNCHANGED idx
     ELSE /\ idx' = [idx EXCEPT ![n] = "partial"]
          /\ reader' = [reader EXCEPT ![r].pc = "write"]
  /\ UNCHANGED <<known, handles, opened, last, destroyed>>

\* ... and written.
WriteIndex(r) ==
  LET n == reader[r].name IN
  /\ reader[r].pc = "write"
  /\ idx' = [idx EXCEPT ![n] = IF destroyed THEN "none" ELSE "whole"]
  /\ reader' = [reader EXCEPT ![r].pc = "reading", ![r].index = "whole"]
  /\ UNCHANGED <<known, handles, opened, last, destroyed>>

\* Close takes the name out of the map and closes the handle the map held.
CloseByName(r) ==
  /\ reader[r].pc = "reading"
  /\ opened' = opened \ {handles[reader[r].name]}
  /\ handles' = [handles EXCEPT ![reader[r].name] = 0]
  /\ reader' = [reader EXCEPT ![r] = Resting]
  /\ UNCHANGED <<known, last, idx, destroyed>>

\* wrappedfile.Close: the name is taken out of the map, and the handle itself is closed.
CloseFile(r) ==
  /\ reader[r].pc = "reading"
  /\ handles' = [handles EXCEPT ![reader[r].name] = 0]
  /\ opened' = opened \ {reader[r].handle}
  /\ reader' = [reader EXCEPT ![r] = Resting]
  /\ UNCHANGED <<known, last, idx, destroyed>>

\* Destroy closes the handles in the map and removes the directory of temporary files.
Destroy ==
  /\ MayDestroy /\ ~destroyed
  /\ destroyed' = TRUE
  /\ opened' = opened \ {handles[n] : n \in Names}
  /\ handles' = [n \in Names |-> 0]
  /\ idx' = [n \in Names |-> "none"]
  /\ UNCHANGED <<known, last, reader>>

Next ==
  \/ \E r \in Readers :
       \/ \E n \in Names : OpenKnown(r, n) \/ OpenNew(r, n)
       \/ ReadIndex(r) \/ NoIndex(r) \/ CreateIndex(r) \/ WriteIndex(r) \/ CloseFile(r)
  \/ Destroy

Spec == Init /\ [][Next]_vars

----------------------------------------------------------------------------
(* Properties. *)

Handles == 1..MaxHandles

TypeOK ==
  /\ known \subseteq Names
  /\ handles \in [Names -> {0} \union Handles]
  /\ opened \subseteq Handles /\ last \in {0} \union Handles
  /\ idx \in [Names -> {"none", "partial", "whole"}]
  /\ \A r \in Readers :
       /\ reader[r].pc \in {"idle", "index", "create", "write", "reading"}
       /\ reader[r].name \in Names \union {NoName}
       /\ reader[r].handle \in {0} \union Handles
  /\ destroyed \in BOOLEAN

\* A reader at a file has a handle that nobody else has and that only Destroy closes under it,
\* and it reads by a whole index.
HandleUsable ==
  \A r \in Readers :
    reader[r].pc # "idle" =>
      /\ reader[r].handle \in opened \/ destroyed
      /\ \A q \in Readers : q # r => reader[q].handle # reader[r].handle
      /\ reader[r].pc = "reading" => reader[r].index = "whole"

=============================================================================
