------------------------------ MODULE EntityList ------------------------------
(* What the user asks for and what a run makes of it: internal/structures         *)
(* entity_list.go and url_parse.go (a list of IDs, links, exclusions and files),  *)
(* the generators of internal/chunk/control that turn it into links, format with  *)
(* a list, and internal/structures/index.go, which the channels of an export come *)
(* back from.  An entry is a record of its prefix ("", "^" or "@"), what it names *)
(* (a channel, a thread as <<channel, ts>> or a file), its time ("", a time or    *)
(* "bad") and whether it is an ID or URL that parses.                             *)
EXTENDS Integers, Sequences, FiniteSets, SequencesExt, FiniteSetsExt
CONSTANTS
  Arguments,    \* command lines: a set of sequences of entries
  Files,        \* function from the files that can be read to their lines: entries, "#" and ""
  Unended,      \* the files whose last line has no line feed
  MaxEntries,   \* the most entries read from a file
  Listed,       \* the channels as the API lists them, page by page, none twice on a page
  Strange,      \* the public channels the user is not in
  UserModes     \* set of "run", "refresh" and "format"
VARIABLES
  args,         \* the command line
  mode,         \* what is asked of it; with "member only" or not
  member,
  loaded,       \* "ok", "failed" or "endless", which lasts until no more files can be opened
  item,         \* function from the IDs of the list to the times and inclusion of one entry each
  includes, excludes, \* hasIncludes and hasExcludes of the list
  sent,         \* the links sent, in order: <<ID, time>>
  phase,        \* "load", "list", "pages", "done" or "cancelled"
  page          \* pages listed
vars == <<args, mode, member, loaded, item, includes, excludes, sent, phase, page>>

IsEntry(line) == line.prefix \in {"", "^", "@"}
Key(entry) == <<entry.id, entry.time>>

\* An index holds the keys to include and those to exclude.
EmptyIndex == [result |-> "ok", in |-> {}, out |-> {}]
NoIndex(why) == [EmptyIndex EXCEPT !.result = why]

\* An ID or URL is parsed as a link, whatever its prefix; files are read later.
Parses(entry) == entry.prefix = "@" \/ entry.parses

\* Mutation of Without: inclusions win.
WithoutNothing(in, out) == in
Without(in, out) == in \ out

\* buildEntryIndex: own entries first, then those of the files; exclusions last, so that they win.
Merge(entries, parts) ==
  LET own == ToSet(entries)
      broken == SelectInSeq(parts, LAMBDA p : p.result # "ok")
      out == {Key(e) : e \in {x \in own : x.prefix = "^"}} \cup UNION {p.out : p \in ToSet(parts)}
      in == {Key(e) : e \in {x \in own : x.prefix = ""}} \cup UNION {p.in : p \in ToSet(parts)}
  IN IF \E e \in own : ~Parses(e) THEN NoIndex("failed")
     ELSE IF broken > 0 THEN parts[broken]
     ELSE [result |-> "ok", in |-> Without(in, out), out |-> out]

\* Before each line the entries that ended with a line feed are counted.
Lines(file) == SelectSeq(Files[file], IsEntry)
TooMany(file) ==
  LET all == Files[file]
      open == file \in Unended /\ all # <<>> /\ IsEntry(Last(all))
  IN Len(Lines(file)) - (IF open THEN 1 ELSE 0) >= MaxEntries

\* A file may name files; as deep as there are files, and deeper only if one is in itself.
NamesOf(entries) == SelectSeq(entries, LAMBDA e : e.prefix = "@")
Depth == Cardinality(DOMAIN Files)
LoadAt[depth \in 0..Depth] ==
  [file \in DOMAIN Files |->
    IF TooMany(file) THEN NoIndex("failed")
    ELSE LET names == NamesOf(Lines(file))
             parts == [i \in DOMAIN names |->
               IF names[i].id \notin DOMAIN Files THEN NoIndex("failed")
               ELSE IF depth = 0 THEN NoIndex("endless")
               ELSE LoadAt[depth - 1][names[i].id]]
         IN Merge(Lines(file), parts)]
IndexOf(entries) ==
  LET names == NamesOf(entries)
  IN Merge(entries, [i \in DOMAIN names |->
       IF names[i].id \in DOMAIN Files THEN LoadAt[Depth][names[i].id] ELSE NoIndex("failed")])

\* A time that does not parse is no time.
TimeOf(time) == IF time = "bad" THEN "" ELSE time

Init ==
  /\ args \in Arguments /\ mode \in UserModes /\ member \in BOOLEAN
  /\ loaded = "ok" /\ item = <<>> /\ includes = FALSE /\ excludes = FALSE
  /\ sent = <<>> /\ phase = "load" /\ page = 0

\* fromIndex: the entries of the index come in any order and the last one of an ID stays.
New ==
  LET index == IndexOf(args)
      keys == index.in \cup index.out
      ids == {k[1] : k \in keys}
  IN /\ phase = "load"
     /\ loaded' = index.result
     /\ IF index.result = "ok"
        THEN /\ \E pick \in [ids -> keys] :
                  /\ \A i \in ids : pick[i][1] = i
                  /\ item' = [i \in ids |-> [time |-> TimeOf(pick[i][2]), include |-> pick[i] \in index.in]]
             /\ includes' = (index.in # {}) /\ excludes' = (index.out # {})
             /\ phase' = "list"
        ELSE phase' = "done" /\ UNCHANGED <<item, includes, excludes>>
     /\ UNCHANGED <<args, mode, member, sent, page>>

SentIDs == {s[1] : s \in ToSet(sent)}
Included == {i \in DOMAIN item : item[i].include}
Excluded == {i \in DOMAIN item : ~item[i].include}

\* The list is streamed when it includes anything or when it is refreshed.
FromList == mode = "refresh" \/ (mode = "run" /\ includes)
C ==
  /\ phase = "list" /\ FromList
  /\ \E i \in Included \ SentIDs : sent' = Append(sent, <<i, item[i].time>>)
  /\ UNCHANGED <<args, mode, member, loaded, item, includes, excludes, phase, page>>
EndOfList ==
  /\ phase = "list" /\ (FromList => Included \subseteq SentIDs)
  /\ phase' = IF FromList /\ mode = "run" THEN "done" ELSE "pages"
  /\ UNCHANGED <<args, mode, member, loaded, item, includes, excludes, sent, page>>

\* chanFilter, combinedChannels and the loop of formatSrc over a page of channels.
Passes(c) ==
  CASE mode = "run" -> c \notin Excluded /\ ~(member /\ c \in Strange)
    [] mode = "refresh" -> c \notin SentIDs
    [] mode = "format" -> args # <<>> => c \in Included
Passed(n) ==
  LET through == SelectSeq(Listed[n], Passes) IN [i \in DOMAIN through |-> <<through[i], "">>]
Channels ==
  /\ phase = "pages"
  /\ page' = page + 1
  /\ sent' = sent \o Passed(page')
  /\ phase' = IF page' = Len(Listed) THEN "done" ELSE "pages"
  /\ UNCHANGED <<args, mode, member, loaded, item, includes, excludes>>

\* Cancelled, a generator stops where it is, within a page too.
Cancel ==
  /\ phase \in {"list", "pages"} /\ mode # "format"
  /\ phase' = "cancelled"
  /\ IF phase = "list" THEN UNCHANGED sent
     ELSE \E n \in 0..Len(Passed(page + 1)) : sent' = sent \o SubSeq(Passed(page + 1), 1, n)
  /\ UNCHANGED <<args, mode, member, loaded, item, includes, excludes, page>>

Next == New \/ C \/ EndOfList \/ Channels \/ Cancel
Spec == Init /\ [][Next]_vars

TypeOK ==
  /\ args \in Arguments /\ mode \in UserModes /\ member \in BOOLEAN
  /\ loaded \in {"ok", "failed", "endless"}
  /\ \A i \in DOMAIN item : item[i].include \in BOOLEAN
  /\ includes \in BOOLEAN /\ excludes \in BOOLEAN
  /\ \A i \in DOMAIN sent : Len(sent[i]) = 2
  /\ phase \in {"load", "list", "pages", "done", "cancelled"} /\ page \in 0..Len(Listed)

\* What the user has written, in the arguments and in the files they name at any depth.
FilesFrom(entries) == {e.id : e \in {x \in ToSet(entries) : x.prefix = "@"}}
Reached[depth \in 0..Depth] ==
  IF depth = 0 THEN FilesFrom(args)
  ELSE Reached[depth - 1] \cup UNION {FilesFrom(Lines(f)) : f \in Reached[depth - 1] \cap DOMAIN Files}
Written ==
  {e \in ToSet(args) \cup UNION {ToSet(Lines(f)) : f \in Reached[Depth] \cap DOMAIN Files} : e.prefix # "@"}
About(id) == {e \in Written : e.id = id}
\* All that is written about it gives it one time.
Plain(id) == \A e, f \in About(id) : e.time = f.time
Unwanted(id) == \E e \in About(id) : e.prefix = "^"

\* An exclusion anywhere wins over every inclusion, and what is included is sent with its time, once
\* and if nothing stops the run; without inclusions a run takes all but the exclusions.  An ID that
\* is written with two times may lose one of the two; a refresh takes what is excluded.
SelectionHonoured ==
  /\ loaded = "endless" => \E f \in Reached[Depth] : f \in DOMAIN Files /\ FilesFrom(Lines(f)) # {}
  /\ \A i \in DOMAIN sent : mode # "refresh" => (Plain(sent[i][1]) => ~Unwanted(sent[i][1]))
  /\ mode = "refresh" => IsInjective([i \in DOMAIN sent |-> sent[i][1]])
  /\ phase = "done" /\ loaded = "ok" =>
       LET listed == UNION {ToSet(Listed[p]) : p \in DOMAIN Listed}
           wanted == {e \in Written : e.prefix = "" /\ Plain(e.id) /\ ~Unwanted(e.id)}
       IN /\ mode # "format" => \A e \in wanted : <<e.id, TimeOf(e.time)>> \in ToSet(sent)
          /\ mode = "format" => {e.id : e \in wanted} \cap listed \subseteq SentIDs
          /\ mode = "run" /\ (\A e \in Written : e.prefix # "") =>
               {c \in listed : Plain(c) /\ ~Unwanted(c)} \ (IF member THEN Strange ELSE {}) \subseteq SentIDs
=============================================================================
