-------------------------------- MODULE Wizard --------------------------------
(* The wizard of the dump commands (cmd/slackdump/internal/ui: dumpui, bubbles/   *)
(* menu, cfgui, updaters): a menu whose items may be configuration windows, whose *)
(* parameters open windows of their own.  Each is a bubbletea model: keys are     *)
(* handled in turn by the focused one, but what a window asks of the program - to *)
(* be closed, to set a value - is a command run on a goroutine of its own, and    *)
(* its message comes back later, in any order, to whatever window is then open.   *)
EXTENDS Integers, Sequences, FiniteSets, FiniteSetsExt, SequencesExt, Bags
CONSTANTS
  Items,     \* the menu: a sequence of "config", "run", "separator" and "exit"; the first and the
             \* last are no separators (New and Update do not end on one that starts or ends with one)
  Config,    \* item -> the groups of parameters of its window, each a sequence
  Kind,      \* parameter -> the window that changes it: "bool", "date", "text", "new" (a file to be
             \* made), "filepick", "pick", "none"
  Values,    \* parameter -> its values
  Starts,    \* the values the parameters may have at the start
  Valid(_),  \* whether the value passes the validation of a text or of a picked file
  Ready(_),  \* whether the command accepts the parameters (ValidateParamsFn)
  Beyond,    \* bound on the lines past the last one that a digit reaches
  MaxMail,   \* bound on the messages on their way
  MaxWindows \* bound on the windows opened
VARIABLES
  value,     \* parameter -> its value: a variable of the program
  cursor, focused, selected,  \* the menu
  cfg,       \* item -> its configuration window
  mail,      \* the messages on their way, a bag
  opened,    \* windows opened: their number is the identity of a window, which the code does not have
  hasty,     \* a key was pressed while a message was on its way
  stray,     \* a message has reached a window that did not ask for it
  spoiled    \* kinds of parameters that were changed although their window was cancelled

vars == <<value, cursor, focused, selected, cfg, mail, opened, hasty, stray, spoiled>>

Configs == {i \in DOMAIN Items : Items[i] = "config"}
Params == DOMAIN Kind
Nothing == ""      \* no parameter, no value
Closed == [par |-> Nothing, draft |-> Nothing, was |-> Nothing, asking |-> FALSE, id |-> 0]
NoItem == 0
Cancelled == -1

\* The parameter drawn at a line: the lines are counted over the groups.
Drawn(c, line) == LET all == FlattenSeq(Config[c]) IN IF line <= Len(all) THEN all[line] ELSE Nothing

\* The parameter at a line, by the ends of the groups.
Locate(c, line) ==
  LET End(i) == FoldLeft(LAMBDA n, g : n + Len(g), 0, SubSeq(Config[c], 1, i))
      past == {i \in DOMAIN Config[c] : line <= End(i)}
  IN IF past = {} THEN Nothing
     ELSE LET i == Min(past) IN Config[c][i][line - (End(i) - Len(Config[c][i]))]

LastLine(c) == Len(FlattenSeq(Config[c]))
NewConfig(line) == [line |-> line, child |-> Closed, focused |-> FALSE, id |-> 0]

\* A new menu, and its configuration windows.
NewMenu == cursor' = 1 /\ focused' = TRUE /\ selected' = NoItem /\ cfg' = [c \in Configs |-> NewConfig(1)]

Init ==
  /\ value \in Starts
  /\ cursor = 1 /\ focused = TRUE /\ selected = NoItem /\ cfg = [c \in Configs |-> NewConfig(1)]
  /\ mail = EmptyBag /\ opened = 0 /\ hasty = FALSE /\ stray = FALSE /\ spoiled = {}

Close(wnd, id) == [type |-> "close", wnd |-> wnd, v |-> Nothing, id |-> id]
SetValue(kind, v, id) == [type |-> "set", wnd |-> kind, v |-> v, id |-> id]
Send(ms) == mail' = mail (+) SetToBag(ms)
Stay == UNCHANGED mail

\* A key is pressed.
Pressed ==
  /\ selected = NoItem
  /\ BagCardinality(mail) < MaxMail
  /\ hasty' = (hasty \/ mail # EmptyBag)
  /\ UNCHANGED stray

\* A mutant: the keys move the menu under an open window too.
MenuMoveAlways ==
  /\ Pressed
  /\ \/ cursor' = IF cursor = 1 THEN Len(Items) ELSE Max({i \in 1..(cursor - 1) : Items[i] # "separator"})
     \/ cursor' = IF cursor = Len(Items) THEN 1
                  ELSE Min({i \in (cursor + 1)..Len(Items) : Items[i] # "separator"})
  /\ UNCHANGED <<value, focused, selected, cfg, mail, opened, spoiled>>

\* Up and down, over the separators and around the ends.
MenuMove ==
  /\ focused /\ Pressed
  /\ \/ cursor' = IF cursor = 1 THEN Len(Items) ELSE Max({i \in 1..(cursor - 1) : Items[i] # "separator"})
     \/ cursor' = IF cursor = Len(Items) THEN 1
                  ELSE Min({i \in (cursor + 1)..Len(Items) : Items[i] # "separator"})
  /\ UNCHANGED <<value, focused, selected, cfg, mail, opened, spoiled>>

\* Enter: a configuration window is focused, any other item ends the menu; the command only with
\* parameters it accepts.
MenuSelect ==
  /\ focused /\ Pressed
  /\ Items[cursor] = "run" => Ready(value)
  /\ IF Items[cursor] = "config"
     THEN /\ opened < MaxWindows /\ opened' = opened + 1
          /\ focused' = FALSE /\ cfg' = [cfg EXCEPT ![cursor].focused = TRUE, ![cursor].id = opened + 1]
          /\ UNCHANGED selected
     ELSE selected' = cursor /\ UNCHANGED <<opened, focused, cfg>>
  /\ UNCHANGED <<value, cursor, mail, spoiled>>

\* Esc ends the wizard.
MenuQuit ==
  /\ focused /\ Pressed /\ selected' = Cancelled
  /\ UNCHANGED <<value, cursor, focused, cfg, mail, opened, spoiled>>

\* The program of the menu has ended, its messages are gone: after the command, if it did not fail,
\* the menu is shown again.
Again ==
  /\ selected \in DOMAIN Items /\ Items[selected] # "exit"
  /\ NewMenu /\ mail' = EmptyBag
  /\ UNCHANGED <<value, opened, hasty, stray, spoiled>>

\* The configuration window in focus, its parameter's window closed: moves, among them to the line
\* of a digit, which may be past the last.
ConfigMove(c) ==
  /\ cfg[c].focused /\ cfg[c].child = Closed /\ Pressed
  /\ LET line == cfg[c].line last == LastLine(c) IN
     \/ cfg' = [cfg EXCEPT ![c].line = IF line > 1 THEN line - 1 ELSE last]
     \/ cfg' = [cfg EXCEPT ![c].line = IF line < last THEN line + 1 ELSE 1]
     \/ cfg' = [cfg EXCEPT ![c].line = last]
     \/ /\ 1 < last \/ 1 < line
        /\ \E digit \in 1..(last + Beyond) : cfg' = [cfg EXCEPT ![c].line = digit]
  /\ UNCHANGED <<value, cursor, focused, selected, mail, opened, spoiled>>

\* Enter: the window of the parameter.  That of a bool only asks for the opposite value, that of a
\* date without a value for the time it is now.
ConfigSelect(c) ==
  LET p == Locate(c, cfg[c].line) id == opened + 1 IN
  /\ cfg[c].focused /\ cfg[c].child = Closed /\ Pressed
  /\ p # Nothing /\ Kind[p] # "none" /\ opened < MaxWindows
  /\ opened' = id
  /\ cfg' = [cfg EXCEPT ![c].child =
               [par |-> p, draft |-> value[p], was |-> value[p], asking |-> FALSE, id |-> id]]
  /\ CASE Kind[p] = "bool" -> Send({SetValue("bool", IF value[p] = "on" THEN "off" ELSE "on", id)})
       [] Kind[p] = "date" /\ value[p] = "zero" -> Send({SetValue("date", "now", id)})
       [] OTHER -> Stay
  /\ UNCHANGED <<value, cursor, focused, selected, spoiled>>

\* Esc: the window asks to be closed.
ConfigQuit(c) ==
  /\ cfg[c].focused /\ cfg[c].child = Closed /\ Pressed
  /\ Send({Close("cfgui", cfg[c].id)})
  /\ UNCHANGED <<value, cursor, focused, selected, cfg, opened, spoiled>>

\* The window of a parameter in focus, of one of the kinds.
Key(c, kinds) == cfg[c].focused /\ cfg[c].child # Closed /\ Kind[cfg[c].child.par] \in kinds /\ Pressed
Leave(c) == Send({Close("updater", cfg[c].child.id)})
Assign(c, v) == value' = [value EXCEPT ![cfg[c].child.par] = v]

\* Esc: a picked value is put back, any other is left as it is; the question of a file goes.
Cancel(c) ==
  LET ch == cfg[c].child IN
  /\ Key(c, {"date", "text", "new", "filepick", "pick"})
  /\ IF ch.asking
     THEN cfg' = [cfg EXCEPT ![c].child.asking = FALSE] /\ UNCHANGED <<value, mail, spoiled>>
     ELSE /\ IF Kind[ch.par] = "pick" THEN Assign(c, ch.was) ELSE UNCHANGED value
          /\ spoiled' = spoiled \union IF value'[ch.par] # ch.was THEN {Kind[ch.par]} ELSE {}
          /\ Leave(c) /\ UNCHANGED cfg
  /\ UNCHANGED <<cursor, focused, selected, opened>>

\* Enter.  A text that is not valid is not accepted; the name of a file that exists is asked about.
Submit(c) ==
  LET ch == cfg[c].child IN
  /\ Key(c, {"date", "text", "new", "pick"}) /\ ~ch.asking
  /\ CASE Kind[ch.par] = "pick" -> Leave(c) /\ UNCHANGED <<value, cfg>>
       [] Kind[ch.par] = "date" \/ (Kind[ch.par] # "pick" /\ Valid(ch.draft)) ->
            Assign(c, ch.draft) /\ Leave(c) /\ UNCHANGED cfg
       [] Kind[ch.par] = "new" /\ ~Valid(ch.draft) ->
            cfg' = [cfg EXCEPT ![c].child.asking = TRUE] /\ UNCHANGED <<value, mail>>
       [] OTHER -> UNCHANGED <<value, cfg, mail>>
  /\ UNCHANGED <<cursor, focused, selected, opened, spoiled>>

\* The question is answered: the form sends a message of its own.
Confirm(c) ==
  /\ Key(c, {"new"}) /\ cfg[c].child.asking
  /\ \E yes \in {"yes", "no"} : Send({SetValue("form", yes, cfg[c].child.id)})
  /\ UNCHANGED <<value, cursor, focused, selected, cfg, opened, spoiled>>

\* Backspace in a date clears it.
Clear(c) ==
  /\ Key(c, {"date"})
  /\ Assign(c, "zero") /\ Leave(c)
  /\ UNCHANGED <<cursor, focused, selected, cfg, opened, spoiled>>

\* Typing or moving: in a list the value itself follows the cursor.
Edit(c) ==
  /\ Key(c, {"date", "text", "new", "pick"}) /\ ~cfg[c].child.asking
  /\ \E v \in Values[cfg[c].child.par] :
       IF Kind[cfg[c].child.par] = "pick" THEN Assign(c, v) /\ UNCHANGED cfg
       ELSE cfg' = [cfg EXCEPT ![c].child.draft = v] /\ UNCHANGED value
  /\ UNCHANGED <<cursor, focused, selected, mail, opened, spoiled>>

\* Enter on a file: the name comes as a message.
PickFile(c) ==
  /\ Key(c, {"filepick"})
  /\ \E v \in Values[cfg[c].child.par] : Send({SetValue("filepick", v, cfg[c].child.id)})
  /\ UNCHANGED <<value, cursor, focused, selected, cfg, opened, spoiled>>

\* A message that sets something reaches the window of a parameter: one of another kind drops it,
\* one of the same kind takes it for its own.
Apply(c, m) ==
  LET ch == cfg[c].child
      Asks == mail' = (mail (-) SetToBag({m})) (+) SetToBag({Close("updater", ch.id)})
      Taken == mail' = mail (-) SetToBag({m})
      mine == (IF m.wnd = "form" THEN "new" ELSE m.wnd) = Kind[ch.par]
  IN
  /\ stray' = (stray \/ (mine /\ m.id # ch.id))
  /\ CASE ~mine -> Taken /\ UNCHANGED <<value, cfg>>
       [] mine /\ m.wnd = "bool" -> Assign(c, m.v) /\ Asks /\ UNCHANGED cfg
       [] mine /\ m.wnd = "date" -> Assign(c, m.v) /\ Taken /\ cfg' = [cfg EXCEPT ![c].child.draft = m.v]
       [] mine /\ m.wnd = "filepick" ->
            Assign(c, m.v) /\ (IF Valid(m.v) THEN Asks ELSE Taken) /\ UNCHANGED cfg
       [] OTHER ->
            /\ cfg' = [cfg EXCEPT ![c].child.asking = FALSE]
            /\ IF m.v = "yes" THEN Assign(c, ch.draft) /\ Asks ELSE UNCHANGED value /\ Taken

\* A message arrives.  The focused menu drops it; otherwise the close of a configuration window
\* resets the one that is focused, that of a parameter closes whichever is open.
Arrive(m) ==
  /\ BagIn(m, mail) /\ selected = NoItem
  /\ IF focused \/ m.type = "close"
     THEN /\ mail' = mail (-) SetToBag({m}) /\ UNCHANGED value
          /\ IF focused THEN UNCHANGED <<cfg, focused, stray>>
             ELSE IF m.wnd = "cfgui"
             THEN /\ cfg' = [cfg EXCEPT ![cursor] = NewConfig(cfg[cursor].line)] /\ focused' = TRUE
                  /\ stray' = (stray \/ m.id # cfg[cursor].id)
             ELSE /\ cfg' = [cfg EXCEPT ![cursor].child = Closed] /\ UNCHANGED focused
                  /\ stray' = (stray \/ (cfg[cursor].child # Closed /\ m.id # cfg[cursor].child.id))
     ELSE IF cfg[cursor].child = Closed
     THEN mail' = mail (-) SetToBag({m}) /\ UNCHANGED <<value, cfg, focused, stray>>
     ELSE Apply(cursor, m) /\ UNCHANGED focused
  /\ UNCHANGED <<cursor, selected, opened, hasty, spoiled>>

Configuring(c) ==
  \/ ConfigMove(c) \/ ConfigSelect(c) \/ ConfigQuit(c)
  \/ Cancel(c) \/ Submit(c) \/ Confirm(c) \/ Clear(c) \/ Edit(c) \/ PickFile(c)

Next ==
  \/ MenuMove \/ MenuSelect \/ MenuQuit \/ Again
  \/ \E c \in Configs : Configuring(c)
  \/ \E m \in BagToSet(mail) : Arrive(m)

Spec == Init /\ [][Next]_vars
-----------------------------------------------------------------------------
TypeOK ==
  /\ \A p \in Params : value[p] \in Values[p]
  /\ cursor \in DOMAIN Items /\ selected \in {NoItem, Cancelled} \union DOMAIN Items
  /\ IsABag(mail) /\ opened \in 0..MaxWindows
  /\ \A c \in Configs : cfg[c].line \in 1..(LastLine(c) + Beyond)

\* Either the menu has the focus and no window is open, or the one window that has it is that of the
\* item under the cursor, and the parameter it has open is the one drawn under its own cursor.
FocusAgrees ==
  /\ Items[cursor] # "separator"
  /\ \A c \in Configs :
       /\ cfg[c].focused <=> (~focused /\ c = cursor)
       /\ cfg[c].child # Closed => cfg[c].focused /\ cfg[c].child.par = Drawn(c, cfg[c].line)

\* A window is changed or closed by the message of another only if keys were pressed faster than
\* the messages came: messages do not carry the window they are from.
StrayNeedsHaste == stray => hasty

\* Esc leaves a parameter as it was before its window was opened, unless it is a date, whose window
\* sets one that has no value, or a picked file, which is set before it is validated.
CancelKeeps == hasty \/ spoiled \subseteq {"date", "filepick"}
=============================================================================
