----------------------------- MODULE MCConvStream -----------------------------
(* Instances of ConvStream, with its promise, for TLC. *)
EXTENDS ConvStream

\* A channel of two pages with one thread each, one of them of two pages of
\* replies; a channel without threads; a thread requested directly.
MCChannels == {"C1", "C2"}
MCThreads == {"t1", "t2", "t3"}
MCPages == [c \in MCChannels |-> IF c = "C1" THEN << <<"t1">>, <<"t2">> >> ELSE << <<>> >>]
MCReplies == [t \in MCThreads |-> IF t = "t1" THEN 2 ELSE 1]
MCLinks == << [kind |-> "channel", id |-> "C1"], [kind |-> "thread", id |-> "t3"],
              [kind |-> "channel", id |-> "C2"] >>
=============================================================================
