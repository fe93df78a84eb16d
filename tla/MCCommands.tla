------------------------------ MODULE MCCommands ------------------------------
(* The commands as the steps they make, and what they convert with: the two       *)
(* coordinators of conversions, the passes over a source, the search, and the     *)
(* windows a command is set up in.  part says which one a behaviour is about; the *)
(* parts share nothing here.  The coordinator has two conversation workers, four  *)
(* channels to convert, room for two of them.                                     *)
EXTENDS ExportCoordinator, TLC
CONSTANTS w1, w2, r1, r2, r3, r4,
  DumpCallers, DumpRequests, DumpFailing, MayCancel,      \* of DumpCoordinator
  SearchPages, FilePages, InfoCap, SearchFaults, Wants,   \* of Search
  MenuItems, MenuConfig, ParamKind, ParamValues, ParamStarts, IsValid(_), IsReady(_),  \* of Wizard
  LinesBeyond, MailBound, WindowBound,
  FileTree, DepthBound, ReadBound, RemovedBound,          \* of FileList
  ClockMax                                                \* of TimeEntry
VARIABLES part, cmd, at, open, defers, done, kept, result,
  dWorker, dCur, dCaller, dJob, dWaiter, dOpen, dCancelled, dFate,
  source, copying, encoded, dumped,
  want, cancelled, interrupted, searcher, page, passing, infoC, informer, informing, seen, srC,
  call, files, filePage, workspace, outcome, recorded, late,
  value, cursor, focused, selected, cfg, mail, opened, hasty, stray, spoiled,
  tree, Directory, listed, viewStack, reads, chosen, outside, dotted,
  entry, timeFocused, calendar, state,
  asked, eAt, ePage, got, failed, blank, resultC, eSeen, eList, phase, err, faults, eof

MCClients == {w1, w2}
MCRequests == {r1, r2, r3, r4}
CM == INSTANCE Commands WITH Names <-
  {"dump", "dump -chunk", "export", "export -chunk", "archive", "archive -chunk", "search", "resume",
   "convert to chunk", "convert chunk to database", "convert to database", "convert to dump",
   "convert to export", "emoji", "view", "tools redownload", "tools hydrate", "tools obfuscate",
   "tools record stream", "tools search convert", "format"}

\* Two workers place four requests, two of which cannot be converted.
MCDumpCallers == {"c1", "c2"}
MCDumpRequests == {"q1", "q2", "q3", "q4"}
MCDumpFailing == {"q2", "q4"}
DC == INSTANCE DumpCoordinator WITH Callers <- DumpCallers, Failing <- DumpFailing,
  Requests <- DumpRequests,
  worker <- dWorker, cur <- dCur, caller <- dCaller, job <- dJob, waiter <- dWaiter,
  requestsOpen <- dOpen, cancelled <- dCancelled, fate <- dFate

\* Every channel of up to three messages, before one that may be missing; two messages to a chunk,
\* threads of three replies.
Kinds == {"plain", "file", "broadcast", "start", "startFile", "startMissing", "startBroken", "broken"}
Channels == UNION {[1..n -> Kinds] : n \in 0..3} \union {<<"missing">>}
SC == INSTANCE SourceConvert WITH
  Sources <- {<<c, d>> : c \in Channels, d \in {<<"start", "plain">>, <<"missing">>}},
  ChunkSize <- 2, NumReplies <- 3, Copying <- {"off", "ok", "fails", "ignored"}

\* Two pages of two messages from three channels, two pages of files; whatever fails.
MCSearchPages == << <<"a", "b">>, <<"a", "c">> >>
MCSearchFaults == {"searcher", "info", "files", "workspace", "cancel"}
MCWants == {{"messages"}, {"files"}, {"messages", "files"}}
\* A search is answered with a page at least, be it empty.
ASSUME SearchAssumption ==
  /\ SearchPages \in Seq(Seq(STRING)) /\ SearchPages # <<>>
  /\ FilePages \in Nat \ {0} /\ InfoCap \in Nat
SE == INSTANCE Search WITH Pages <- SearchPages, Faults <- SearchFaults, result <- outcome

\* A menu with two configuration windows, a parameter of every kind, from two settings.
MCItems == <<"config", "run", "separator", "config", "exit">>
MCConfig ==
  [i \in {1, 4} |-> IF i = 1 THEN << <<"list">>, <<"name">> >>
                    ELSE << <<"from", "flag">>, <<"out">>, <<"fixed", "limits">> >>]
MCKind == [list |-> "pick", name |-> "text", from |-> "date", flag |-> "bool", out |-> "new",
           fixed |-> "none", limits |-> "filepick"]
MCValues == [list |-> {"a", "b"}, name |-> {"x", "bad"}, from |-> {"zero", "now"}, flag |-> {"on", "off"},
             out |-> {"x", "bad"}, fixed |-> {"x"}, limits |-> {"x", "bad"}]
MCStarts == {[list |-> "a", name |-> "x", from |-> d, flag |-> "on", out |-> "x", fixed |-> "x",
              limits |-> "x"] : d \in {"zero", "now"}}
MCValid(v) == v # "bad"
MCReady(v) == v["list"] = "a"
WZ == INSTANCE Wizard WITH
  Items <- MenuItems, Config <- MenuConfig, Kind <- ParamKind, Values <- ParamValues, Starts <- ParamStarts,
  Valid <- IsValid, Ready <- IsReady, Beyond <- LinesBeyond, MaxMail <- MailBound, MaxWindows <- WindowBound
SomeStart == CHOOSE s \in ParamStarts : TRUE

\* Directories in one another.
Dir(fs, ds) == [files |-> fs, dirs |-> ds]
MCTree == (<<>> :> Dir(<<"x">>, <<"a">>)) @@ (<<"a">> :> Dir(<<"x", "y">>, <<"b">>))
          @@ (<<"a", "b">> :> Dir(<<"y">>, <<>>))
FL == INSTANCE FileList WITH files <- listed, panicked <- outside, Tree <- FileTree,
  MaxDepth <- DepthBound, MaxReads <- ReadBound, MaxRemoved <- RemovedBound

\* Hours and minutes.
MCClock == <<23, 59>>
TE == INSTANCE TimeEntry WITH MaxNum <- ClockMax

\* The menu neither begins nor ends with a separator; the parameters start with values of theirs, the two of
\* a bool and that of a date among them, and the files to pick are the same for all.  A directory is in one
\* that is there, no name is ".."; each pair of digits is one of a number.
ASSUME WindowsAssumption ==
  /\ MenuItems \in Seq({"config", "run", "separator", "exit"}) /\ MenuItems # <<>>
  /\ MenuItems[1] # "separator" /\ MenuItems[Len(MenuItems)] # "separator"
  /\ \A s \in ParamStarts :
       DOMAIN s = DOMAIN ParamKind /\ \A p \in DOMAIN ParamKind : s[p] \in ParamValues[p]
  /\ \A p \in DOMAIN ParamKind :
       /\ ParamKind[p] = "bool" => {"on", "off"} \subseteq ParamValues[p]
       /\ ParamKind[p] = "date" => {"zero", "now"} \subseteq ParamValues[p]
       /\ \A q \in DOMAIN ParamKind :
            ParamKind[p] = "filepick" /\ ParamKind[q] = "filepick" => ParamValues[p] = ParamValues[q]
  /\ LinesBeyond \in Nat /\ MailBound \in Nat /\ WindowBound \in Nat
  /\ LET names == FL!Names \ {".."} IN FileTree \in [DOMAIN FileTree -> [files : Seq(names), dirs : Seq(names)]]
  /\ <<>> \in DOMAIN FileTree
  /\ \A d \in DOMAIN FileTree :
       /\ FL!Parent(d) \in DOMAIN FileTree
       /\ \A k \in DOMAIN FileTree[d].dirs : Append(d, FileTree[d].dirs[k]) \in DOMAIN FileTree
  /\ ClockMax \in Seq(0..99) /\ ClockMax # <<>>

\* The lines of a configuration window are counted in two ways, over the groups and by their ends, and a
\* parameter is drawn where it is looked for.
ASSUME LinesAssumption ==
  \A c \in WZ!Configs :
    /\ WZ!LastLine(c) \in Nat \ {0}
    /\ \A k \in 1..(WZ!LastLine(c) + LinesBeyond) :
         WZ!Locate(c, k) = WZ!Drawn(c, k) /\ WZ!Drawn(c, k) \in DOMAIN ParamKind \union {WZ!Nothing}

\* Three listings of channels, the largest of two pages, with a channel in two of them; users of two
\* channels, or of a channel and two direct messages; one fault, or two.
EC == INSTANCE EdgeClient WITH MaxFaults <- 2,
  EdgeCalls <- {"channels", "public", "direct", "mixed", "users", "emoji"},
  Pages <- [boot |-> << <<"c", "g">> >>, ims |-> << <<"d">>, <<"e">> >>, search |-> << <<"c">>, <<"f">> >>,
            counts |-> << <<"g", "m">> >>, info |-> << <<>> >>,
            public |-> << <<"u1">>, <<"u2">> >>, direct |-> << <<"u3">>, <<"u4">> >>,
            users |-> << <<>>, <<"u1", "u2">>, <<"u3">> >>, emoji |-> << <<"e1">>, <<"e2">>, <<"e3">> >>],
  call <- asked, at <- eAt, page <- ePage, seen <- eSeen, list <- eList

command == <<cmd, at, open, defers, done, kept, result>>
dump == <<dWorker, dCur, dCaller, dJob, dWaiter, dOpen, dCancelled, dFate>>
convert == <<source, copying, encoded, dumped>>
search == <<want, cancelled, interrupted, searcher, page, passing, infoC, informer, informing, seen,
  srC, call, files, filePage, workspace, outcome, recorded, late>>
windows == <<value, focused, selected, cfg, mail, opened, stray, spoiled>>
list == <<tree, Directory, listed, viewStack, reads, chosen, outside, dotted>>
time == <<entry, timeFocused, calendar, state>>
edge == <<asked, eAt, ePage, got, failed, blank, resultC, eSeen, eList, phase, err, faults, eof>>
gui == <<windows, list, time, cursor, hasty>>
all == <<part, vars, command, dump, convert, search, gui, edge>>

CommandsInit ==
  /\ part \in {"coordinator", "command", "dump", "convert", "search", "wizard", "list", "time", "edge"}
  /\ Init /\ CM!Init /\ DC!Init
  /\ part # "command" => cmd = "dump"
  /\ IF part = "convert" THEN SC!Init
     ELSE source = <<>> /\ copying = "off" /\ encoded = SC!Nothing /\ dumped = SC!Nothing
  /\ SE!Init
  /\ part # "search" => want = {"files"}
  /\ WZ!Init /\ FL!Init /\ TE!Init
  /\ EC!Init /\ (part # "edge" => asked = "users")
  /\ part # "wizard" => value = SomeStart

Coordinating(A) == part = "coordinator" /\ A /\ UNCHANGED <<part, command, dump, convert, search, gui, edge>>
Commanding(A) == part = "command" /\ A /\ UNCHANGED <<part, vars, dump, convert, search, gui, edge>>
Dumping(A) == part = "dump" /\ A /\ UNCHANGED <<part, vars, command, convert, search, gui, edge>>
Converting(A) == part = "convert" /\ A /\ UNCHANGED <<part, vars, command, dump, search, gui, edge>>
Searching(A) == part = "search" /\ A /\ UNCHANGED <<part, vars, command, dump, convert, gui, edge>>
Showing(wizard, lister, clock) ==
  /\ \/ part = "wizard" /\ wizard /\ UNCHANGED <<list, time>>
     \/ part = "list" /\ lister /\ UNCHANGED <<windows, time>>
     \/ part = "time" /\ clock /\ UNCHANGED <<windows, list, hasty>>
  /\ UNCHANGED <<part, vars, command, dump, convert, search, edge>>

Calling(A) == part = "edge" /\ A /\ UNCHANGED <<part, vars, command, dump, convert, search, gui>>

CommandsNext ==
  \/ Coordinating(Next) \/ Commanding(CM!Next) \/ Dumping(DC!Next) \/ Converting(SC!Next)
  \/ Searching(SE!Next) \/ Calling(EC!Next) \/ Showing(WZ!Next, FL!Next, TE!Next)
CommandsSpec ==
  /\ CommandsInit /\ [][CommandsNext]_all
  /\ WF_all(Coordinating(Worker)) /\ WF_all(Coordinating(Start)) /\ WF_all(Coordinating(CloseReturn))
  /\ \A c \in Clients : /\ WF_all(Coordinating(TestError(c))) /\ WF_all(Coordinating(TestClosed(c)))
                        /\ WF_all(Coordinating(Put(c)))
  /\ WF_all(Dumping(DC!Goes)) /\ WF_all(Searching(SE!Goes)) /\ WF_all(Calling(EC!Next))

\* Whatever fails, a command closes what it has opened, in an order in which nothing is closed under
\* what still uses it, and a conversion leaves a whole target or none.
CommandsCleanUp ==
  part = "command" =>
    CM!TypeOK /\ CM!NothingLeftOpen /\ CM!ClosedInOrder /\ CM!OneConnection /\ CM!TargetWholeOrGone

\* What a command waits for is accounted for: no error of a conversion for the dump is lost; a search
\* that succeeds has recorded all results and the channels they are from, and nothing is recorded after it.
WaitsAccounted ==
  /\ part = "dump" => DC!TypeOK /\ DC!DumpAccounted
  /\ part = "search" => SE!TypeOK /\ SE!SearchWhole

\* What is passed over is taken whole: a source is encoded with its threads counted at every chunk, and a
\* dump of it holds the same; a listing from the private API has each entry once, unless a refusal is
\* taken for its end or two goroutines append to it.
PassesWhole ==
  /\ part = "convert" => SC!TypeOK /\ SC!EncodedWhole /\ SC!SameInBoth
  /\ part = "edge" => EC!TypeOK /\ EC!CallIsWhole

\* Keys and messages reach the window they are for: one window has the focus, its cursor on what it
\* shows; what comes late or is cancelled changes nothing unless keys outran the messages.
WindowsAgree ==
  /\ part = "wizard" => WZ!TypeOK /\ WZ!FocusAgrees /\ WZ!StrayNeedsHaste /\ WZ!CancelKeeps
  /\ part = "list" => FL!TypeOK /\ FL!ListIsOfDirectory /\ FL!BackRestores /\ FL!PanicNeedsCause
  /\ part = "time" => TE!TypeOK /\ TE!EntryIsTime /\ TE!TypedIsTaken /\ TE!OneField

\* Transform, Start and Close return, and so do the wait for the dump, a search and a
\* listing.
CommandsReturn ==
  /\ CallsReturn
  /\ part = "dump" => DC!WaitReturns
  /\ part = "search" => SE!SearchReturns
  /\ part = "edge" => EC!CallReturns
=============================================================================
