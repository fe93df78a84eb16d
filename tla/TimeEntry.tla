------------------------------- MODULE TimeEntry ------------------------------
(* The window of a date (cmd/slackdump/internal/ui/updaters/date.go): a calendar  *)
(* with a month, a year and days to move in (bubbles/datepicker), and a time that *)
(* is typed digit by digit or counted up and down (bubbles/btime).  The days      *)
(* themselves are left out.                                                       *)
EXTENDS Integers, Sequences
CONSTANT MaxNum  \* the largest number of each pair of digits: <<23, 59, 59>> in the code
VARIABLES
  entry, cursor, timeFocused,  \* of btime: the digits, the one under the cursor
  calendar,                    \* the focus of the calendar: "month", "year", "days"
  state                        \* of the window: "calendar", "time"

vars == <<entry, cursor, timeFocused, calendar, state>>

Digits == 1..(2 * Len(MaxNum))
PairOf(c) == (c + 1) \div 2
IsHigh(c) == c % 2 = 1
Value(e, p) == e[2 * p - 1] * 10 + e[2 * p]

\* The digits of a valid time.
toEntry(v) == [i \in Digits |-> IF IsHigh(i) THEN v[PairOf(i)] \div 10 ELSE v[PairOf(i)] % 10]

Init ==
  /\ entry = toEntry([p \in DOMAIN MaxNum |-> 0]) /\ cursor = 1 /\ timeFocused = FALSE
  /\ calendar = "days" /\ state = "calendar"

\* Tab: from the days to the time; in the calendar on to the next part.
NextField ==
  /\ state = "calendar"
  /\ IF calendar = "days"
     THEN state' = "time" /\ timeFocused' = TRUE /\ UNCHANGED calendar
     ELSE calendar' = (IF calendar = "month" THEN "year" ELSE "days") /\ UNCHANGED <<state, timeFocused>>
  /\ UNCHANGED <<entry, cursor>>

\* Shift and Tab: from the time to the calendar, in it back to the previous part.
PrevField ==
  /\ IF state = "time"
     THEN state' = "calendar" /\ timeFocused' = FALSE /\ UNCHANGED calendar
     ELSE /\ calendar' = CASE calendar = "days" -> "year" [] OTHER -> "month"
          /\ UNCHANGED <<state, timeFocused>>
  /\ UNCHANGED <<entry, cursor>>

\* Left and right in the calendar: days move the date, the month and the year the focus.
UpdateRight == calendar' = IF calendar = "month" THEN "year" ELSE calendar
UpdateLeft == calendar' = IF calendar = "year" THEN "month" ELSE calendar
Across ==
  /\ state = "calendar" /\ (UpdateRight \/ UpdateLeft)
  /\ UNCHANGED <<entry, cursor, timeFocused, state>>

Timing == state = "time" /\ timeFocused /\ UNCHANGED <<timeFocused, calendar, state>>

\* Left and right in the time.
Left == Timing /\ cursor > 1 /\ cursor' = cursor - 1 /\ UNCHANGED entry
Right == Timing /\ cursor < 2 * Len(MaxNum) /\ cursor' = cursor + 1 /\ UNCHANGED entry

\* Up and down: by ten or one, if the pair stays in its range and the digit does.
Weight == IF IsHigh(cursor) THEN 10 ELSE 1
Increase ==
  /\ Timing /\ UNCHANGED cursor
  /\ Value(entry, PairOf(cursor)) + Weight <= MaxNum[PairOf(cursor)] /\ entry[cursor] < 9
  /\ entry' = [entry EXCEPT ![cursor] = @ + 1]
Decrease ==
  /\ Timing /\ UNCHANGED cursor
  /\ Value(entry, PairOf(cursor)) - Weight >= 0 /\ entry[cursor] > 0
  /\ entry' = [entry EXCEPT ![cursor] = @ - 1]

Delete == Timing /\ entry' = [entry EXCEPT ![cursor] = 0] /\ UNCHANGED cursor

\* Backspace zeroes the pair, or the one before if it is zero.  (The window of a date clears the date
\* instead, and takes Tab and Q for itself; the time on its own does this.)
Backspace ==
  LET p == PairOf(cursor)
      q == IF Value(entry, p) = 0 /\ p > 1 THEN p - 1 ELSE p
  IN Timing /\ cursor' = 2 * q - 1 /\ entry' = [entry EXCEPT ![2 * q - 1] = 0, ![2 * q] = 0]

\* A digit is taken if the pair stays in its range, and the cursor moves on; a first digit that is
\* in it only with a zero after it puts the zero there.
Typed(e, c, v) ==
  LET p == PairOf(c)
      plain == [e EXCEPT ![c] = v]
      zeroed == [e EXCEPT ![c] = v, ![c + 1] = 0]
  IN IF Value(plain, p) <= MaxNum[p]
     THEN [entry |-> plain, cursor |-> IF c < 2 * Len(MaxNum) THEN c + 1 ELSE c]
     ELSE IF IsHigh(c) /\ v * 10 <= MaxNum[p] THEN [entry |-> zeroed, cursor |-> c + 1]
     ELSE [entry |-> e, cursor |-> c]

Type(v) == Timing /\ LET t == Typed(entry, cursor, v) IN entry' = t.entry /\ cursor' = t.cursor

Next ==
  \/ NextField \/ PrevField \/ Across
  \/ Left \/ Right \/ Increase \/ Decrease \/ Delete \/ Backspace
  \/ \E v \in 0..9 : Type(v)

Spec == Init /\ [][Next]_vars
-----------------------------------------------------------------------------
TypeOK == entry \in [Digits -> 0..9] /\ cursor \in Digits

\* Whatever is typed, the digits are those of a time of the day.
EntryIsTime == \A p \in DOMAIN MaxNum : Value(entry, p) <= MaxNum[p]

\* Every number of a pair can be typed over whatever is there, digit after digit.
TypedIsTaken ==
  IsHigh(cursor) =>
    \A n \in 0..MaxNum[PairOf(cursor)] :
      LET t == Typed(entry, cursor, n \div 10)
      IN Value(Typed(t.entry, t.cursor, n % 10).entry, PairOf(cursor)) = n

\* Exactly one of the calendar and the time takes the keys, and the calendar is left only from its days.
OneField == (timeFocused <=> state = "time") /\ (state = "time" => calendar = "days")
=============================================================================
