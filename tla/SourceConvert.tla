---------------------------- MODULE SourceConvert ----------------------------
(***************************************************************************)
(* The two conversions of a source that are one pass over its channels:    *)
(* SourceEncoder (internal/convert/src2enc.go), which replays it into the  *)
(* chunks of a database, and DumpConverter (internal/convert/dump.go and   *)
(* transform/dump.go), which writes a file for each channel.  Both are     *)
(* functions of the source.  A message is known by its place in its        *)
(* channel, and what matters of it is its kind:                            *)
(*   "plain", "file": a message, a message with a file;                    *)
(*   "broadcast": the copy in the channel of a reply;                      *)
(*   "start", "startFile": starts a thread, one that has a file;           *)
(*   "startMissing", "startBroken": of a thread that is not in the source, *)
(*   or whose replies end in an error;                                     *)
(*   "broken": where the messages of the channel end in an error.          *)
(***************************************************************************)
EXTENDS Integers, Sequences, SequencesExt

CONSTANTS
  Sources,      \* sequences of channels: each a sequence of kinds, or "missing"
  ChunkSize,    \* messages of a chunk
  NumReplies,   \* replies of a thread
  Copying       \* how files are copied: "off", "ok", "fails", "ignored" (they fail, unnoticed)

VARIABLES source, copying, encoded, dumped
vars == <<source, copying, encoded, dumped>>

Missing == <<"missing">>
Channels == DOMAIN source
Starts == {"start", "startFile", "startMissing", "startBroken"}
Readable == {"start", "startFile"}

-----------------------------------------------------------------------------
(* The chunks of the encoder.  A pass carries what has been encoded, the messages of the next *)
(* chunk, the threads found for it, and its error.                                            *)

Chunk(what, ch, of, n, last, items) ==
  [what |-> what, ch |-> ch, of |-> of, threads |-> n, last |-> last, items |-> items]
Begin(out) == [out |-> out, items |-> <<>>, threads |-> 0, err |-> "none"]
Emit(p, chunk) == [p EXCEPT !.out = Append(@, chunk)]
Flush(p, what, ch, of, last) ==
  [Emit(p, Chunk(what, ch, of, p.threads, last, p.items)) EXCEPT !.items = <<>>, !.threads = 0]
FlushFull(p, what, ch, of) == IF Len(p.items) = ChunkSize THEN Flush(p, what, ch, of, FALSE) ELSE p

\* The copier comes before the recorder.
Files(p, ch, of, i, has) ==
  IF p.err # "none" \/ ~has THEN p
  ELSE IF copying = "fails" THEN [p EXCEPT !.err = "copy"]
  ELSE Emit(p, Chunk("files", ch, of, 0, FALSE, <<i>>))

\* A reply: the last but one of "startFile" has the file, "startBroken" ends before its last.
AddReply(p, ch, of, kind, i) ==
  IF p.err # "none" THEN p
  ELSE IF kind = "startBroken" /\ i = NumReplies THEN [p EXCEPT !.err = "iterator"]
  ELSE Files(FlushFull([p EXCEPT !.items = Append(@, i)], "thread", ch, of),
             ch, of, i, kind = "startFile" /\ i = NumReplies - 1)

Replies == [i \in 1..NumReplies |-> i]
EncodeThread(out, ch, of, kind) ==
  LET all == FoldLeft(LAMBDA p, i : AddReply(p, ch, of, kind, i), Begin(out), Replies)
  IN IF kind = "startMissing" THEN [Begin(out) EXCEPT !.err = "notfound"]
     ELSE IF all.err = "none" THEN Flush(all, "thread", ch, of, TRUE) ELSE all

\* A thread is counted if it was encoded without an error; none of its errors is returned.
AddThread(p, ch, i, kind) ==
  IF kind \notin Starts THEN p
  ELSE LET t == EncodeThread(p.out, ch, i, kind)
       IN [p EXCEPT !.out = t.out, !.threads = IF t.err = "none" THEN @ + 1 ELSE @]

\* Mutation of AddMessage: the threads found are not forgotten with the chunk that counts them.
AddMessageKeeping(p, ch, i) ==
  LET kind == source[ch][i]
      q == AddThread([p EXCEPT !.items = Append(@, i)], ch, i, kind)
  IN IF p.err # "none" THEN p
     ELSE IF kind = "broken" THEN [p EXCEPT !.err = "iterator"]
     ELSE [Files(FlushFull(q, "messages", ch, 0), ch, 0, i, kind = "file") EXCEPT !.threads = q.threads]

AddMessage(p, ch, i) ==
  LET kind == source[ch][i]
      q == AddThread([p EXCEPT !.items = Append(@, i)], ch, i, kind)
  IN IF p.err # "none" THEN p
     ELSE IF kind = "broken" THEN [p EXCEPT !.err = "iterator"]
     ELSE Files(FlushFull(q, "messages", ch, 0), ch, 0, i, kind = "file")

\* A channel without messages in the source is passed over; the others are told of when their
\* messages have been encoded.
EncodeChannel(p, ch) ==
  LET all == FoldLeft(LAMBDA q, i : AddMessage(q, ch, i), Begin(p.out),
                      [i \in DOMAIN source[ch] |-> i])
  IN IF p.err # "none" \/ source[ch] = Missing THEN p
     ELSE IF all.err = "none"
     THEN Emit(Flush(all, "messages", ch, 0, TRUE), Chunk("info", ch, 0, 0, FALSE, <<>>))
     ELSE all

Encoded == FoldLeft(EncodeChannel, Begin(<<>>), [ch \in Channels |-> ch])

-----------------------------------------------------------------------------
(* The dump.  A channel is read whole before anything of it is written; files are copied for *)
(* its messages in a pipeline.  copied holds messages <<ch, i, 0>>, replies <<ch, i, reply>>. *)

Kinds(ch) == {source[ch][i] : i \in DOMAIN source[ch]}
Unreadable(ch) == source[ch] = Missing \/ Kinds(ch) \intersect {"broken", "startMissing", "startBroken"} # {}
CannotCopy(ch) == copying = "fails" /\ "file" \in Kinds(ch)

DumpChannel(d, ch) ==
  IF d.err # "none" \/ Unreadable(ch) \/ CannotCopy(ch) THEN [d EXCEPT !.err = "channel"]
  ELSE LET at(S) == {i \in DOMAIN source[ch] : source[ch][i] \in S} IN
       [d EXCEPT !.written = @ \union {<<ch, i, 0>> : i \in DOMAIN source[ch] \ at({"broadcast"})}
                               \union {<<ch, i, r>> : i \in at(Readable), r \in 1..NumReplies},
                 !.copied = @ \union {<<ch, i, 0>> : i \in at(IF copying = "ok" THEN {"file"} ELSE {})}]

Dumped == FoldLeft(DumpChannel, [written |-> {}, copied |-> {}, err |-> "none"],
                   [ch \in Channels |-> ch])

-----------------------------------------------------------------------------
Nothing == [err |-> "not run"]

Init == source \in Sources /\ copying \in Copying /\ encoded = Nothing /\ dumped = Nothing

Encode == encoded = Nothing /\ encoded' = Encoded /\ UNCHANGED <<source, copying, dumped>>
\* An ignored failure is one of the encoder only.
Dump == dumped = Nothing /\ copying # "ignored" /\ dumped' = Dumped /\ UNCHANGED <<source, copying, encoded>>

Next == Encode \/ Dump
Spec == Init /\ [][Next]_vars

-----------------------------------------------------------------------------
(* Properties. *)

TypeOK ==
  /\ source \in Sources /\ copying \in Copying
  /\ encoded.err \in {"not run", "none", "iterator", "copy"} /\ dumped.err \in {"not run", "none", "channel"}

EncodedOK == encoded.err = "none"
Of(what, ch, of) == SelectSeq(encoded.out, LAMBDA c : c.what = what /\ c.ch = ch /\ c.of = of)
Items(chunks) == FlattenSeq([i \in DOMAIN chunks |-> chunks[i].items])
Whole(chunks, n) ==
  /\ Items(chunks) = [i \in 1..n |-> i]
  /\ \A i \in DOMAIN chunks : chunks[i].last = (i = Len(chunks))

\* Threads counted by the messages among the first k chunks.
Counted(ch, k) ==
  FoldLeft(LAMBDA n, i : IF encoded.out[i].what = "messages" /\ encoded.out[i].ch = ch
                         THEN n + encoded.out[i].threads ELSE n, 0, [i \in 1..k |-> i])

\* A conversion that succeeds has encoded each channel it found with all its messages, in order,
\* the last chunk marked, and each thread that can be read; at every chunk of messages it has
\* counted the threads that are encoded to their end and no other, which is what the tests for
\* completeness of the database go by.
EncodedWhole ==
  EncodedOK =>
    \A ch \in Channels : IF source[ch] = Missing THEN Of("messages", ch, 0) = <<>> ELSE
      /\ Whole(Of("messages", ch, 0), Len(source[ch]))
      /\ \A i \in DOMAIN source[ch] :
           source[ch][i] \in Readable /\ ~(source[ch][i] = "startFile" /\ copying = "fails") =>
             Whole(Of("thread", ch, i), NumReplies)
      /\ \A k \in DOMAIN encoded.out :
           encoded.out[k].what = "messages" /\ encoded.out[k].ch = ch =>
             Counted(ch, k) = Len(SelectSeq(SubSeq(encoded.out, 1, k),
                                            LAMBDA c : c.what = "thread" /\ c.ch = ch /\ c.last))

\* What a chunk holds, in the terms of the dump.
HeldBy(c) ==
  LET items == {c.items[j] : j \in DOMAIN c.items}
  IN CASE c.what = "thread" -> {<<c.ch, c.of, r>> : r \in items}
       [] c.what = "messages" -> {<<c.ch, i, 0>> : i \in {j \in items : source[c.ch][j] # "broadcast"}}
       [] OTHER -> {}

\* What can be dumped can be encoded, and then both hold the same messages and replies, the
\* copies of replies apart.
SameInBoth ==
  dumped.err = "none" /\ encoded # Nothing /\ copying # "fails" =>
    EncodedOK /\ dumped.written = UNION {HeldBy(encoded.out[k]) : k \in DOMAIN encoded.out}

\* transform/dump.go:37-38: the pipeline "will be called for each message slice, before it is
\* written to the filesystem".
FilesCopied ==
  dumped.err = "none" /\ copying = "ok" =>
    \A ch \in Channels : \A i \in DOMAIN source[ch] :
      source[ch][i] = "startFile" => <<ch, i, NumReplies - 1>> \in dumped.copied
=============================================================================
