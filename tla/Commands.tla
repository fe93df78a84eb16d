------------------------------ MODULE Commands ------------------------------
(***************************************************************************)
(* The commands of the program as the sequences of steps their functions   *)
(* make: what they open, what they leave to be closed when they return     *)
(* (defer), what they close themselves and what can fail on the way        *)
(* (cmd/slackdump/internal: dump, export, archive, resume, convertcmd,     *)
(* emoji, view).                                                           *)
(*                                                                         *)
(* A goroutine that is waited for (the coordinator of the conversions, the *)
(* workers of a downloader, a progress bar) is a resource like a file: it  *)
(* is opened when it starts, and closed when it has ended.  Temporary      *)
(* directories are those of a run without debug logging, which keeps them. *)
(***************************************************************************)
EXTENDS Naturals, Sequences, SequencesExt

CONSTANT Names    \* the commands

VARIABLES
  cmd,      \* the command
  at,       \* its next step; past the last one it returns
  open,     \* resources that are open
  defers,   \* what is deferred, the latest last; "|" is where a called function begins
  done,     \* what has been done: the steps that succeeded
  kept,     \* the target of a conversion is not removed
  result    \* "none", "ok" or "error"

vars == <<cmd, at, open, defers, done, kept, result>>

----------------------------------------------------------------------------
(* The steps. *)

Step(op, what) == [op |-> op, what |-> what]
Open(r) == Step("open", <<r>>)      \* may fail
Start(r) == Step("start", <<r>>)    \* cannot fail
Defer(s) == Step("defer", s)        \* closed when the function returns, in this order
Try(x) == Step("try", <<x>>)        \* may fail
Close(r) == Step("close", <<r>>)    \* closed here; may fail, and what r does is done then
Stop(r) == Step("stop", <<r>>)      \* closed here; cannot fail
Keep == Step("keep", <<>>)          \* remove = false
Call == Step("call", <<>>)          \* the steps up to Return are a function of their own
Return == Step("return", <<>>)

\* Closed by the Close of a controller: the processors in their order.
Controller == <<"files", "avatars", "dbp">>
DirController == <<"avatars", "files">>

DumpV3 ==
  <<Open("tmpdir"), Open("cd"), Defer(<<"cd">>), Start("files"), Defer(<<"files">>), Try("template"),
    Start("coord"), Try("run"), Close("coord")>>
DumpV31 ==
  <<Open("tmpdir"), Defer(<<"tmpdir">>), Open("conn"), Defer(<<"conn">>), Open("dbp"), Defer(<<"dbp">>),
    Start("files"), Defer(<<"files">>), Try("template"), Start("coord"), Defer(Controller),
    Try("run"), Close("coord")>>
RunDump(dump) ==
  <<Try("list"), Try("overwrite"), Open("fsa"), Defer(<<"fsa">>), Try("client")>> \o dump

ExportV31 ==
  <<Open("tmpdir"), Open("conn"), Defer(<<"conn">>), Open("dbp"), Defer(<<"dbp">>), Defer(<<"tmpdir">>),
    Start("coord"), Defer(<<"coord">>), Start("files"), Start("avatars"), Defer(Controller),
    Try("run"), Try("index"), Close("coord")>>
\* The deferred function closes the coordinator before the processors.
ExportEarly ==
  <<Open("tmpdir"), Open("cd"), Defer(<<"cd">>), Start("coord"), Defer(<<"coord">>),
    Defer(<<"cd", "tmpdir">>), Start("files"), Start("avatars"), Defer(DirController),
    Try("run"), Try("index"), Close("coord")>>

ExportV3 ==
  <<Open("tmpdir"), Open("cd"), Defer(<<"cd">>), Defer(<<"cd", "tmpdir">>),
    Start("coord"), Defer(<<"coord">>), Start("files"), Start("avatars"), Defer(DirController),
    Try("run"), Try("index"), Close("coord")>>
RunExport(export) ==
  <<Try("list"), Try("overwrite"), Try("client"), Open("fsa"), Defer(<<"fsa">>)>> \o export

ChunkArchive ==
  <<Try("list"), Try("client"), Try("overwrite"), Open("cd"), Defer(<<"cd">>),
    Start("files"), Start("avatars"), Start("dbp"), Defer(Controller), Try("run")>>
DBArchive ==
  <<Try("list"), Try("client"), Try("mkdir"), Try("overwrite"), Open("conn"), Defer(<<"conn">>),
    Open("dbp"), Start("files"), Start("avatars"), Defer(Controller), Try("run")>>
\* searchControllerv31 collects what is to be stopped, runSearch defers it.
Search ==
  <<Try("query"), Try("overwrite"), Try("client"), Open("cd"), Open("conn"), Start("files"),
    Open("dbp"), Defer(<<"conn", "cd">>), Defer(Controller), Try("run")>>
Resume ==
  <<Try("args"), Open("src"), Defer(<<"src">>), Try("type"), Try("latest"), Try("client"),
    Try("workspace"), Close("src"), Open("conn"), Defer(<<"conn">>), Open("dbp"), Start("files"),
    Start("avatars"), Defer(Controller), Try("run")>>

\* toChunk with db2chunk, toDatabase with chunk2db and with dbConvert; "dir" is removed when the
\* function returns unless it was to be kept.
ToChunk ==
  <<Try("type"), Open("src"), Defer(<<"src">>), Call, Open("dir"), Defer(<<"dir">>), Open("cd"),
    Start("dbp"), Defer(<<"dbp">>), Try("convert"), Keep, Return, Try("copy files"), Try("copy avatars")>>
Insert == <<Open("conn"), Defer(<<"conn">>), Open("dbp"), Defer(<<"dbp">>), Open("tx"), Defer(<<"tx">>),
            Try("convert"), Close("tx"), Keep>>
DbConvertFast ==
  <<Try("type"), Open("cd"), Defer(<<"cd">>), Start("src"), Defer(<<"src">>), Call, Open("dir"), Defer(<<"dir">>)>>
  \o Insert \o <<Return, Try("copy files"), Try("copy avatars")>>
DbConvert ==
  <<Try("type"), Open("src"), Defer(<<"src">>), Open("dir"), Defer(<<"dir">>), Start("fsa"), Defer(<<"fsa">>)>>
  \o Insert
ToDump == <<Try("type"), Open("src"), Defer(<<"src">>), Open("fsa"), Defer(<<"fsa">>), Try("convert")>>
ToExport ==
  <<Try("type"), Open("fsa"), Defer(<<"fsa">>), Try("storage"), Open("src"), Defer(<<"src">>), Try("convert")>>
RunConvert(convert) == <<Try("args"), Try("overwrite")>> \o convert

Emoji ==
  <<Try("overwrite"), Open("fsa"), Defer(<<"fsa">>), Try("provider"), Start("bar"), Defer(<<"bar">>),
    Try("download")>>
View ==
  <<Try("type"), Open("src"), Defer(<<"src">>), Start("bar"), Try("viewer"), Stop("bar"), Try("serve")>>

\* Tools: a function called within a function has its own deferred closings.
Redownload ==
  <<Try("args"), Try("type"), Open("src"), Defer(<<"src">>), Try("channels"), Try("client"), Start("files"),
    Defer(<<"files">>), Try("storage"), Defer(<<"files">>), Try("download")>>
Hydrate ==
  <<Try("args"), Open("tmpdir"), Defer(<<"tmpdir">>),
    Call, Open("zip"), Defer(<<"zip">>), Open("src"), Defer(<<"src">>), Start("fsa"), Defer(<<"fsa">>),
      Call, Open("files"), Defer(<<"files">>), Try("download"), Return, Return,
    Call, Open("in"), Defer(<<"in">>), Try("extract"), Return,
    Call, Open("out"), Defer(<<"out">>), Start("pack"), Defer(<<"pack">>), Try("pack"), Return>>
Obfuscate ==
  <<Try("args"), Open("in"), Defer(<<"in">>), Try("target"), Open("out"), Defer(<<"out">>), Try("obfuscate")>>
Record ==
  <<Try("args"), Try("client"), Open("conn"), Defer(<<"conn">>), Open("dbp"), Defer(<<"dbp">>),
    Start("rec"), Call, Defer(<<"rec">>), Try("stream"), Return, Try("close")>>
SearchConvert ==
  <<Open("in"), Defer(<<"in">>), Try("output"), Try("mkdir"), Open("cd"), Defer(<<"cd">>), Open("dbp"),
    Defer(<<"dbp">>), Try("messages"), Try("channels"), Open("users"), Defer(<<"users">>), Try("convert")>>
Format ==
  <<Try("args"), Open("src"), Defer(<<"src">>), Try("overwrite"), Open("fsa"), Defer(<<"fsa">>)>>

StepsOf(c) ==
  CASE c = "dump -chunk" -> RunDump(DumpV3)
    [] c = "dump" -> RunDump(DumpV31)
    [] c = "export" -> RunExport(ExportV31)
    [] c = "export -chunk" -> RunExport(ExportV3)
    [] c = "archive -chunk" -> ChunkArchive
    [] c = "archive" -> DBArchive
    [] c = "search" -> Search
    [] c = "resume" -> Resume
    [] c = "convert to chunk" -> RunConvert(ToChunk)
    [] c = "convert chunk to database" -> RunConvert(DbConvertFast)
    [] c = "convert to database" -> RunConvert(DbConvert)
    [] c = "convert to dump" -> RunConvert(ToDump)
    [] c = "convert to export" -> RunConvert(ToExport)
    [] c = "emoji" -> Emoji
    [] c = "view" -> View
    [] c = "tools redownload" -> Redownload
    [] c = "tools hydrate" -> Hydrate
    [] c = "tools obfuscate" -> Obfuscate
    [] c = "tools record stream" -> Record
    [] c = "tools search convert" -> SearchConvert
    [] c = "format" -> Format

\* What an open resource uses, as far as the command has opened it.
Uses(r) ==
  CASE r = "cd" -> {"tmpdir"} \union (IF cmd = "convert to chunk" THEN {"dir"} ELSE {})
    [] r = "conn" -> {"tmpdir", "dir"} \union (IF cmd = "search" THEN {"cd"} ELSE {})
    [] r = "tx" -> {"conn"}
    [] r \in {"dbp", "users"} ->
         IF cmd \in {"archive -chunk", "convert to chunk", "tools search convert"} THEN {"cd"} ELSE {"conn"}
    [] r \in {"files", "avatars"} -> {"fsa"}
    [] r = "rec" -> {"dbp"}
    [] r = "pack" -> {"out", "tmpdir"}
    [] r = "coord" -> {"conn", "cd", "fsa"}
    [] r = "fsa" -> {"dir"} \union (IF cmd = "tools hydrate" THEN {"tmpdir"} ELSE {})
    [] r = "src" -> {"zip"} \union (IF cmd = "convert chunk to database" THEN {"cd"} ELSE {})
    [] OTHER -> {}

----------------------------------------------------------------------------
(* A run of a command. *)

Init ==
  /\ cmd \in Names /\ at = 1
  /\ open = {} /\ defers = <<>> /\ done = {} /\ kept = FALSE /\ result = "none"

Steps == StepsOf(cmd)
Did(op, x) == <<op, x>> \in done
Here(op) == result = "none" /\ at <= Len(Steps) /\ Steps[at].op = op
It == Steps[at].what[1]
On == at' = at + 1 /\ UNCHANGED <<cmd, result>>

\* An error is returned by every function up to the command.
Fail ==
  /\ result = "none" /\ at <= Len(Steps) /\ Steps[at].op \in {"open", "try", "close"}
  /\ result' = "error"
  /\ open' = IF Steps[at].op = "close" /\ It # "tx" THEN open \ {It} ELSE open
  /\ UNCHANGED <<cmd, at, defers, done, kept>>

\* Opened or started; a resource that is there already stays.
Acquire ==
  /\ Here("open") \/ Here("start")
  /\ open' = open \union {It} /\ done' = done \union {<<"open", It>>}
  /\ On /\ UNCHANGED <<defers, kept>>

Work ==
  /\ Here("try")
  /\ done' = done \union {<<"try", It>>}
  /\ On /\ UNCHANGED <<open, defers, kept>>

\* The closing of a coordinator waits until its requests are served.
Release ==
  /\ Here("close") \/ Here("stop")
  /\ open' = open \ {It} /\ done' = done \union {<<"close", It>>}
  /\ On /\ UNCHANGED <<defers, kept>>

Note ==
  /\ Here("defer") \/ Here("call") \/ Here("keep")
  /\ defers' = CASE Here("defer") -> defers \o Reverse(Steps[at].what)
                 [] Here("call") -> Append(defers, "|")
                 [] OTHER -> defers
  /\ kept' = (kept \/ Here("keep"))
  /\ On /\ UNCHANGED <<open, done>>

\* What is deferred is closed from the end when the command returns, or the called function.
Closing == result = "error" \/ at > Len(Steps) \/ Here("return")
Unwind ==
  /\ Closing /\ defers # <<>>
  /\ LET r == Last(defers) IN
     /\ defers' = Front(defers)
     /\ open' = IF r = "dir" /\ kept THEN open ELSE open \ {r}
     /\ at' = IF r = "|" /\ Here("return") THEN at + 1 ELSE at
  /\ UNCHANGED <<cmd, done, kept, result>>

Return0 ==
  /\ result = "none" /\ at > Len(Steps) /\ defers = <<>>
  /\ result' = "ok"
  /\ UNCHANGED <<cmd, at, open, defers, done, kept>>

Next == Fail \/ Acquire \/ Work \/ Release \/ Note \/ Unwind \/ Return0

Spec == Init /\ [][Next]_vars

----------------------------------------------------------------------------
(* Properties. *)

Resources == {"tmpdir", "cd", "conn", "dbp", "tx", "files", "avatars", "coord", "fsa", "src", "dir",
              "bar", "zip", "in", "out", "pack", "rec", "users"}

TypeOK ==
  /\ cmd \in Names /\ at \in 1..(Len(Steps) + 1) /\ open \subseteq Resources
  /\ \A i \in DOMAIN defers : defers[i] \in Resources \union {"|"}
  /\ result \in {"none", "ok", "error"}

Returned == result # "none" /\ defers = <<>>

\* What a command that fails is known to leave behind: nobody waits for the coordinator of a dump
\* then, nothing is stopped when the controller of a search cannot be made, and the temporary
\* directory of an export is there before its removal is deferred; nothing stops the progress bar
\* of a viewer that cannot be made.
LeftByFailure ==
  CASE cmd = "dump" -> {"coord"}
    [] cmd = "dump -chunk" -> {"tmpdir", "coord"}
    [] cmd \in {"export", "export -chunk"} -> IF Did("open", "coord") THEN {} ELSE {"tmpdir"}
    [] cmd = "search" -> IF Did("open", "dbp") THEN {} ELSE {"cd", "conn", "files"}
    [] cmd = "view" -> IF Did("try", "viewer") THEN {} ELSE {"bar"}
    [] OTHER -> {}

\* A command closes what it opens, whatever fails: all that is left is the target of a
\* conversion, what LeftByFailure names, and, as they are never closed, the temporary directory of a
\* dump and the handle of a chunk directory that is written.
NothingLeftOpen ==
  Returned =>
    open \subseteq {"dir"} \union (IF cmd = "dump -chunk" THEN {"tmpdir"} ELSE {})
                   \union (IF cmd = "convert to chunk" THEN {"cd"} ELSE {})
                   \union (IF result = "error" THEN LeftByFailure ELSE {})

\* Nothing is closed or removed under what still uses it: goroutines end before their files,
\* transactions before their connection, and so on.  A dump that fails leaves its coordinator
\* running, and an export removes its directory while the connection is open.
ClosedInOrder ==
  \A r \in open : \A u \in Uses(r) : Did("open", u) =>
    \/ u \in open
    \/ r = "coord" /\ cmd \in {"dump", "dump -chunk"} /\ result = "error"
    \/ r = "conn" /\ u = "tmpdir" /\ cmd = "export"
    \/ r \in {"cd", "conn"} /\ u = "dir" /\ cmd = "convert to chunk"

\* The database of a resume is not open for writing while it is read.
OneConnection == cmd = "resume" => ~{"src", "conn"} \subseteq open

\* A conversion into a directory leaves a target that is whole, or none: it is kept only when all
\* was inserted and committed, and removed otherwise; only files may be missing from it when
\* copying them failed.
TargetWholeOrGone ==
  Returned /\ Did("open", "dir") =>
    /\ ("dir" \in open) = kept
    /\ kept => Did("try", "convert")
    /\ kept /\ Did("open", "tx") => Did("close", "tx")
    /\ result = "ok" => kept
    /\ result = "error" /\ kept => cmd \in {"convert to chunk", "convert chunk to database"}
=============================================================================
