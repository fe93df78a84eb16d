-------------------------------- MODULE MCRuns --------------------------------
(* What a command starts and waits for: the run of the controller and the list    *)
(* it is given, the conversion to the export format, the download of the emojis.  *)
(* They share nothing here; part says which one a behaviour is about.             *)
EXTENDS Runner, FiniteSets
CONSTANTS
  EcChannels, EcMessages, EcDay, EcThread, Uncopied, FullDays, Avatars, IndexFails, EcWorkers, \* of ExportConvert
  EmPages, Aliases, Broken, EmWorkers, Ways                                                   \* of EmojiDl
VARIABLES part, chC, worker, index, written, erred, request, requestOpen, copier, avatar,
  result, resultOpen, forward, merged, hand, ecErrC, errOpen, failed, status, ecCancelled,
  panicked, copied, way, gen, sentTotal, emWorker, emResultOpen, main, emojis, stored, indexed,
  emCancelled, args, elMode, member, loaded, elItem, includes, excludes, elSent, phase, page

\* Each source of links and each source of users, with and without a coordinator.
SomeModes == {{"api", "transform"}, {"channelUsers", "transform"}, {"api", "channelUsers"}}
SomeFaults == {{"cancel"}, {"users", "list", "link", "close"}}

\* Two channels; messages on two days, a thread and one whose start is missing; a file that
\* cannot be copied and a day that cannot be written.
MCChannels == <<"c1", "c2">>
MCMsgs == {"m1", "m2", "m3", "m4"}
MCMessages == [c \in {"c1", "c2"} |-> IF c = "c1" THEN <<"m1", "m2", "m3">> ELSE <<"m4">>]
MCDay == [m \in MCMsgs |-> IF m \in {"m1", "m2"} THEN "d1" ELSE "d2"]
MCThread == [m \in MCMsgs |-> IF m = "m3" THEN "missing" ELSE IF m = "m1" THEN "none" ELSE "ok"]
MCAvatars == <<"nil">>
\* A source may list a channel twice; the messages of a channel are in the order of their times, so
\* those of a day are together.
ASSUME ConvertAssumption ==
  /\ EcChannels \in Seq(STRING) /\ EcWorkers # {} /\ IsFiniteSet(EcWorkers)
  /\ \A n \in DOMAIN EcChannels :
       LET s == EcMessages[EcChannels[n]] IN
       /\ s \in Seq(DOMAIN EcDay)
       /\ \A i, j, k \in DOMAIN s : i <= j /\ j <= k /\ EcDay[s[i]] = EcDay[s[k]] => EcDay[s[j]] = EcDay[s[i]]
  /\ Avatars \in Seq({"nil", "error"})
EC == INSTANCE ExportConvert WITH Channels <- EcChannels, Messages <- EcMessages,
  Day <- EcDay, Thread <- EcThread, Swallows <- FALSE, Workers <- EcWorkers,
  errC <- ecErrC, cancelled <- ecCancelled

\* Two pages of emojis, an alias and one that cannot be fetched; the plain list with all files, and the
\* edge list when its second page fails and the first failure ends it.
MCEmPages == << <<"a", "b">>, <<"c">> >>
Way(edge, failAt, failFast) == [edge |-> edge, failAt |-> failAt, files |-> TRUE, failFast |-> failFast]
MCWays == {Way(FALSE, 0, FALSE), Way(TRUE, 2, TRUE)}
\* The edge list, the first page of which cannot be had.
MCTotalWays == {Way(TRUE, 1, FALSE)}
ASSUME EmojiAssumption ==
  /\ EmPages \in Seq(Seq(STRING)) /\ EmWorkers # {}
  /\ \A p \in DOMAIN EmPages : \A i \in DOMAIN EmPages[p] : EmPages[p][i] # "none"
  /\ Ways \subseteq [edge : BOOLEAN, failAt : Nat, files : BOOLEAN, failFast : BOOLEAN]
EM == INSTANCE EmojiDl WITH Pages <- EmPages, Workers <- EmWorkers, worker <- emWorker,
  resultOpen <- emResultOpen, cancelled <- emCancelled

\* Every command line of up to two entries, of channels and files; one file is in itself.
E(prefix, id, time) == [prefix |-> prefix, id |-> id, time |-> time, parses |-> TRUE]
Line(text) == [E("#", text, "") EXCEPT !.parses = FALSE]
Entries == {E("", "C1", ""), E("", "C1", "t"), E("^", "C1", ""), E("", "C2", "bad"), E("^", "C3", ""),
            E("@", "f1", ""),
            E("@", "f3", ""), E("@", "f5", ""), [E("", "C?", "") EXCEPT !.parses = FALSE]}
EL == INSTANCE EntityList WITH Arguments <- UNION {[1..n -> Entries] : n \in 0..2},
  Files <- [f1 |-> <<Line("comment"), E("^", "C2", "bad"), E("@", "f2", "")>>,
            f2 |-> <<E("", "C1", ""), E("^", "C4", "")>>, f3 |-> <<E("", "C3", ""), E("@", "f4", "")>>,
            f4 |-> <<E("@", "f3", "")>>, f5 |-> <<E("", "C1", ""), E("", "C2", ""), E("", "C3", "")>>],
  Unended <- {"f2"}, MaxEntries <- 3, Listed <- << <<"C1", "C2">>, <<"C3", "C1", "C4">> >>,
  Strange <- {"C4"}, UserModes <- {"run", "refresh", "format"}, mode <- elMode, item <- elItem,
  sent <- elSent

convert == <<chC, worker, index, written, erred, request, requestOpen, copier, avatar, result,
  resultOpen, forward, merged, hand, ecErrC, errOpen, failed, status, ecCancelled, panicked,
  copied>>
emoji == <<way, gen, sentTotal, emWorker, emResultOpen, main, emojis, stored, indexed, emCancelled>>
list == <<args, elMode, member, loaded, elItem, includes, excludes, elSent, phase, page>>
all == <<part, vars, convert, emoji, list>>

RunsInit ==
  /\ part \in {"runner", "convert", "emoji", "list"} /\ Init /\ EC!Init /\ EL!Init /\ EM!Init
  /\ part # "list" => args = <<>> /\ elMode = "run" /\ ~member
  /\ part # "emoji" => ~way.edge
  /\ part # "runner" => mode.uses = {"api", "transform"} /\ mode.faults = {"cancel"}

Running(A) == part = "runner" /\ A /\ UNCHANGED <<part, convert, emoji, list>>
Converting(A) == part = "convert" /\ A /\ UNCHANGED <<part, vars, emoji, list>>
Emojis(A) == part = "emoji" /\ A /\ UNCHANGED <<part, vars, convert, list>>
Listing(A) == part = "list" /\ A /\ UNCHANGED <<part, vars, convert, emoji>>

RunsNext == Running(Next) \/ Converting(EC!Next) \/ Emojis(EM!Next) \/ Listing(EL!Next)
\* As long as a goroutine of a part can go on, one does; no step repeats, so all of them get there.
RunsSpec ==
  /\ RunsInit /\ [][RunsNext]_all
  /\ WF_all(Running(Users \/ Generator \/ Loop \/ Channel \/ Conv \/ CloseErrC \/ Collect
       \/ Convert \/ SendError("gen") \/ \E g \in Workers : Ending(g)))
  /\ WF_all(Converting((\E w \in EcWorkers : EC!Worker(w)) \/ EC!WriteIndexStep \/ EC!Copier
       \/ EC!AvatarWorker \/ EC!Merge("files") \/ EC!Merge("avatars") \/ EC!Result
       \/ EC!CloseRequests \/ EC!CloseErrors \/ EC!Read))
  /\ WF_all(Emojis(EM!Generator \/ EM!Caller \/ EM!CloseResults \/ \E w \in EmWorkers : EM!Worker(w)))

\* The download of the emojis alone.
TotalSpec ==
  /\ part = "emoji" /\ Init /\ EC!Init /\ EL!Init /\ EM!Init /\ args = <<>>
  /\ [][Emojis(EM!Next)]_all
  /\ WF_all(Emojis(EM!Generator \/ EM!Caller \/ EM!CloseResults \/ \E w \in EmWorkers : EM!Worker(w)))

\* A run takes all that its list asks for and nothing that it excludes.
SelectionHonoured == part = "list" => EL!TypeOK /\ EL!SelectionHonoured

\* The conversion to the export format and the download of the emojis report success for whole
\* results only.
SuccessMeansWhole ==
  /\ part = "runner" => TypeOK
  /\ part = "convert" => EC!TypeOK /\ EC!OkMeansConverted
  /\ part = "emoji" => EM!TypeOK /\ EM!OkMeansEmojis

\* All of them return, the controller's run when it is cancelled too.
RunsReturn ==
  /\ part = "runner" => Ends /\ EndsWhenCancelled
  /\ part = "convert" => EC!ConvertReturns
  /\ part = "emoji" => EM!DownloadEnds

\* "if there's a generator error, this will receive 0": the wait for the total ends.
TotalArrives == EM!TotalArrives
=============================================================================
