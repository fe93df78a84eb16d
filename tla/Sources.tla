-------------------------------- MODULE Sources --------------------------------
(* An archive on the disk, as it is written and as source.Load reads it back:      *)
(* source/source.go (which format it is in), source/filestorage.go (where the      *)
(* attachments of each format are), source/dump.go, the opening of exports, chunk  *)
(* directories and databases, the index of an export (internal/structures/index.go)*)
(* and what the viewer answers from them.  What the formats do with messages is in *)
(* ExportSource, ChunkFile and Repository.  A conversation is <<channel, thread>>, *)
(* thread "" for the whole channel; a path is a tuple.                             *)
EXTENDS Integers, Sequences, FiniteSets, FiniteSetsExt
CONSTANTS
  Plans,      \* what is archived: records of a format and container, the set of conversations, for a
              \* dump whether it is converted and named by ID, for an export its file storage
  Kind,       \* function from channels to "public", "private", "mpim" or "im"
  User,       \* function from the "im" channels to the other user
  Me,         \* the user who archives
  Threads,    \* function from channels to the sets of their threads
  Attached,   \* function from conversations to the IDs of their attachments
  Name,       \* function from IDs of attachments to names
  Safe        \* function from the names to sanitized names (SanitizeFilename)
VARIABLES
  plan,
  disk,       \* the paths written
  index,      \* the channels of each index file written, their members where they are "im"
  phase,      \* "writing", "written", "stopped", "open" or "refused"
  source,     \* what is opened: its type, the type of its storage and the files indexed there
  channels    \* function from the channels it has to what it knows: their kind and user
vars == <<plan, disk, index, phase, source, channels>>

Channels == DOMAIN Kind
ChannelsOf(convs) == {k[1] : k \in convs}
FilesOf(k) == IF k \in DOMAIN Attached THEN Attached[k] ELSE {}
\* A whole channel has the attachments of its threads too.
AllFiles(k) ==
  FilesOf(k) \cup IF k[2] # "" THEN {} ELSE UNION {FilesOf(<<k[1], t>>) : t \in Threads[k[1]]}

\* Where the conversations and their attachments go; a dump has the attachments of a thread in the
\* directory of its channel.
ExportChanName(c) == IF Kind[c] = "im" THEN c ELSE "name of " \o c
PathOf(k) ==
  CASE plan.format = "dump" -> IF plan.byID THEN <<"json", k>> ELSE <<"named", k>>
    [] plan.format = "export" -> <<"days", ExportChanName(k[1])>>
    [] plan.format = "chunk" -> <<"json.gz", k>>
    [] plan.format = "database" -> <<"slackdump.sqlite">>
FilePath(k, f) ==
  CASE plan.storage = "mattermost" -> <<"__uploads", f, Safe[Name[f]]>>
    [] plan.storage = "old" -> <<"__uploads", f, Name[f]>>
    [] plan.storage = "standard" -> <<"attachments", ExportChanName(k[1]), f, Safe[Name[f]]>>
    [] plan.storage = "dump" -> <<"in directory", k[1], f, Safe[Name[f]]>>

NoIndex == [public |-> {}, private |-> {}, mpim |-> {}, im |-> {}]
NoSource == [type |-> "none", storage |-> "none", files |-> {}]
Init ==
  /\ plan \in Plans /\ index = NoIndex /\ phase = "writing"
  /\ disk = IF plan.format = "database" THEN {<<"slackdump.sqlite">>} ELSE {}
  /\ source = NoSource /\ channels = <<>>

Write(path) == disk' = disk \cup {path} /\ UNCHANGED <<plan, index, phase, source, channels>>
ByConversion == plan.format = "dump" /\ plan.converted
\* A conversion to a dump begins with the channels.
WriteChannels == phase = "writing" /\ ByConversion /\ Write(<<"channels.json">>)
Convert(k) ==
  phase = "writing" /\ (ByConversion => <<"channels.json">> \in disk) /\ Write(PathOf(k))
\* Attachments come before, with and after the conversation they are of.
Download(k, f) == phase = "writing" /\ plan.storage # "none" /\ Write(FilePath(k, f))
WrittenAll ==
  \A k \in plan.convs : /\ PathOf(k) \in disk
                        /\ plan.storage # "none" => \A f \in AllFiles(k) : FilePath(k, f) \in disk

\* MakeExportIndex: every channel by its kind, the members of an "im" are the two users.
MakeExportIndex(c) == IF Kind[c] = "im" THEN <<c, <<User[c], Me>>>> ELSE <<c, <<>>>>
\* Marshal writes one file after another; the first that fails ends the export.
IndexFiles == <<"public", "private", "mpim", "im">>
Marshal ==
  /\ phase = "writing" /\ plan.format = "export" /\ WrittenAll
  /\ \E n \in 0..Len(IndexFiles) :
       /\ index' = [kind \in DOMAIN index |->
            IF \E i \in 1..n : IndexFiles[i] = kind
            THEN {MakeExportIndex(c) : c \in {x \in ChannelsOf(plan.convs) : Kind[x] = kind}} ELSE {}]
       /\ disk' = IF n > 0 THEN disk \cup {<<"channels.json">>} ELSE disk
       /\ phase' = IF n = Len(IndexFiles) THEN "written" ELSE "stopped"
  /\ UNCHANGED <<plan, source, channels>>
Finish ==
  /\ phase = "writing" /\ plan.format # "export" /\ WrittenAll
  /\ ByConversion => <<"channels.json">> \in disk
  /\ phase' = "written"
  /\ disk' = IF plan.format = "chunk" THEN disk \cup {<<"workspace.json.gz">>} ELSE disk
  /\ UNCHANGED <<plan, index, source, channels>>
Stop == phase = "writing" /\ phase' = "stopped" /\ UNCHANGED <<plan, disk, index, source, channels>>

Has(kind) == \E p \in disk : p[1] = kind
\* What there is at the root tells the format, in this order; chunks do not come in a ZIP.
SrcType ==
  IF Has("json") THEN "dump"
  ELSE IF Has("json.gz") \/ Has("workspace.json.gz")
       THEN (IF plan.container = "zip" THEN "unknown" ELSE "chunk")
  ELSE IF Has("channels.json") THEN "export"
  ELSE IF Has("slackdump.sqlite") THEN "database" ELSE "unknown"

\* The storages: __uploads is one, attachments are found by their IDs, and so are the files of a dump
\* in the directories named like its conversations.
StdFiles == {p \in disk : p[1] = "attachments"}
DumpFiles == {p \in disk : p[1] = "in directory" /\ <<"json", <<p[2], "">>>> \in disk}
LoadStorage ==
  IF Has("__uploads") THEN [storage |-> "mattermost", files |-> {}]
  ELSE IF SrcType = "export" /\ StdFiles # {} THEN [storage |-> "standard", files |-> StdFiles]
  ELSE [storage |-> "none", files |-> {}]

\* dmsToChannels: the most frequent member is taken for the user, any of them in a tie.
Members == UNION {{d[2][1], d[2][2]} : d \in index.im}
Occurs(u) == MapThenSumSet(LAMBDA d : Cardinality({i \in {1, 2} : d[2][i] = u}), index.im)
MostFrequentMember ==
  IF Members = {} THEN {"nobody"} ELSE {u \in Members : \A v \in Members : Occurs(v) <= Occurs(u)}
Except(me, members) ==
  IF members[1] # me THEN members[1] ELSE IF members[2] # me THEN members[2] ELSE "nobody"
Restore(me) ==
  LET kindOf(c) == CHOOSE kind \in DOMAIN index : \E e \in index[kind] : e[1] = c
      entry(c) == CHOOSE e \in index[kindOf(c)] : e[1] = c
  IN [c \in {e[1] : e \in UNION {index[kind] : kind \in DOMAIN index}} |->
       [kind |-> kindOf(c), user |-> IF kindOf(c) = "im" THEN Except(me, entry(c)[2]) ELSE "nobody"]]

\* Of a dump with no channels.json the files tell the IDs.
Known(c) == [kind |-> Kind[c], user |-> IF Kind[c] = "im" THEN User[c] ELSE "nobody"]
Plain == [kind |-> "public", user |-> "nobody"]
DumpChannels ==
  IF <<"channels.json">> \in disk THEN [c \in ChannelsOf(plan.convs) |-> Known(c)]
  ELSE [c \in {p[2][1] : p \in {q \in disk : q[1] = "json"}} |-> Plain]

Load ==
  /\ phase \in {"written", "stopped"}
  /\ IF SrcType = "unknown"
     THEN phase' = "refused" /\ UNCHANGED <<source, channels>>
     ELSE /\ phase' = "open"
          /\ source' = IF SrcType = "dump"
                       THEN [type |-> "dump", storage |-> "dump", files |-> DumpFiles]
                       ELSE [type |-> SrcType, storage |-> LoadStorage.storage, files |-> LoadStorage.files]
          /\ CASE SrcType = "dump" -> channels' = DumpChannels
               [] SrcType = "export" -> \E me \in MostFrequentMember : channels' = Restore(me)
               [] OTHER -> channels' = [c \in ChannelsOf(plan.convs) |-> Known(c)]
  /\ UNCHANGED <<plan, disk, index>>

\* Where the source finds an attachment: in __uploads under the safe or the original name, elsewhere
\* where it is indexed.
File(f) ==
  IF source.storage = "mattermost"
  THEN {<<"__uploads", f, n>> : n \in {Safe[Name[f]], Name[f]}} \cap disk
  ELSE {p \in source.files : p[3] = f}

\* A dump answers from the file of the channel, or from those of its threads.
InDump(k) == <<"json", k>> \in disk
AllMessages(c) ==
  CASE source.type = "dump" -> InDump(<<c, "">>) \/ \E t \in Threads[c] : InDump(<<c, t>>)
    [] source.type = "export" -> c \in DOMAIN channels /\ <<"days", ExportChanName(c)>> \in disk
    [] OTHER -> c \in DOMAIN channels
AllThreadMessages(c, t) ==
  IF source.type = "dump" THEN InDump(<<c, "">>) \/ InDump(<<c, t>>) ELSE AllMessages(c)
\* The pages of the viewer: a conversation needs its messages and the channel, an attachment its file.
ChannelHandler(c) == AllMessages(c) /\ c \in DOMAIN channels
ThreadHandler(c, t) == AllThreadMessages(c, t) /\ ChannelHandler(c)
FileHandler(f) == File(f) # {}

Next ==
  \/ WriteChannels \/ Marshal \/ Finish \/ Stop \/ Load
  \/ \E k \in plan.convs : Convert(k) \/ \E f \in AllFiles(k) : Download(k, f)
Spec == Init /\ [][Next]_vars

TypeOK ==
  /\ plan \in Plans /\ phase \in {"writing", "written", "stopped", "open", "refused"}
  /\ DOMAIN index = {"public", "private", "mpim", "im"}
  /\ source.type \in {"none", "dump", "export", "chunk", "database"}
  /\ source.files \subseteq disk /\ DOMAIN channels \subseteq Channels

\* The attachments of threads that were dumped without their channel cannot be found; where the user
\* has one conversation with one other, or with oneself, an export does not tell with whom.
Lost(k) == source.type = "dump" /\ ~InDump(<<k[1], "">>)
Ambiguous(c) ==
  Kind[c] = "im" /\ (User[c] = Me \/ Cardinality({d \in DOMAIN channels : Kind[d] = "im"}) = 1)
Complete ==
  /\ WrittenAll
  /\ CASE plan.format = "export" -> \A c \in ChannelsOf(plan.convs) : MakeExportIndex(c) \in index[Kind[c]]
       [] ByConversion -> <<"channels.json">> \in disk
       [] OTHER -> TRUE

\* What is archived whole is opened as what it is, with the channels it is of, and every channel,
\* thread and attachment is found in it; what is not whole is never taken for another format, but for
\* a conversion to a dump that has written only its channels.
ReadsBack ==
  /\ (Complete /\ phase = "refused") => (plan.format = "dump" /\ ~plan.byID)
  /\ Complete /\ phase = "open" =>
       /\ source.type = plan.format
       /\ DOMAIN channels = ChannelsOf(plan.convs)
       /\ plan.format = "dump" => plan.converted \/ \A c \in DOMAIN channels : channels[c] = Plain
       /\ plan.format = "export" =>
            \A c \in DOMAIN channels :
              channels[c].kind = Kind[c] /\ (Ambiguous(c) \/ channels[c] = Known(c))
       /\ \A k \in plan.convs :
            /\ IF k[2] = "" THEN ChannelHandler(k[1]) ELSE ThreadHandler(k[1], k[2])
            /\ plan.storage = "none" \/ Lost(k) \/ \A f \in AllFiles(k) : FileHandler(f)
  /\ phase = "open" => source.type = plan.format \/ (ByConversion /\ source.type = "export")
=============================================================================
