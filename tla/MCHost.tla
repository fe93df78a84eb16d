-------------------------------- MODULE MCHost --------------------------------
(* What outlives a single run: the desktop application, the database an archive   *)
(* is kept in, the workspaces a user has logged in to, and the login.  They share *)
(* nothing; part says which one a behaviour is about.                             *)
EXTENDS GuiSync
CONSTANTS PageSize, Lookback, Refresh, IncludeThreads, MaxTime, MaxRuns,   \* of Archive
          Procs, Names, MaxCommands,                                      \* of Workspaces
          Given, MaxFaults, MaxRounds                                     \* of Login
VARIABLES part, now, posted, replies, stored, storedReplies, opened, run, session, runs, todo,
          fetching, threads, window, atStart, clean, creds, current, proc, commands, chosen,
          command, pc, method, input, confirmed, gate, store, selected, savedBy, gaveUp, rounds, faults

\* C1 has two pages, a message about joining, a thread with a reply and a second
\* message whose file name is that of the first; C2 has one message.
MCChannels == {"C1", "C2"}
MCMessages == {"m1", "m2", "m3", "j", "r1"}
MCPages == [c \in MCChannels |-> IF c = "C1" THEN << <<"m1", "j">>, <<"m2">> >> ELSE << <<"m3">> >>]
MCReplies == [m \in MCMessages |-> IF m = "m1" THEN {"r1"} ELSE {}]
MCBase == [m \in MCMessages |-> IF m \in {"m1", "m2"} THEN "a" ELSE "b"]
MCListings == {{}, {"C1", "C2"}}
Thread(c, m) == [chan |-> c, root |-> m]
MCRequests ==
  {[mode |-> "channel", what |-> <<Whole("C1"), Whole("C2")>>, dir |-> "out", formats |-> {"json", "sqlite", "file"}],
   [mode |-> "channel", what |-> <<Whole("C2")>>, dir |-> ".", formats |-> {"json"}],
   [mode |-> "url", what |-> <<Thread("C1", "m1"), BadLink, Thread("C1", "m1"), Thread("C2", "m3")>>,
    dir |-> ".", formats |-> {"file"}]}

\* Two workspaces; the command line gives nothing, or a token with a cookie that does not go with it.
MCNames == <<"acme", "default">>
MCGiven == {[token |-> "none", cookie |-> "none"], [token |-> "client", cookie |-> "wrong"]}

\* As the constants are in each of the three.
ASSUME HostAssumption ==
  /\ PageSize \in Nat \ {0} /\ Lookback \in Nat /\ MaxTime \in Nat /\ MaxRuns \in Nat
  /\ Names \in Seq(STRING) /\ MaxCommands \in Nat
  /\ \E i \in 1..Len(Names) : Names[i] = "default"
  /\ \A i \in 1..Len(Names) : Names[i] \notin {"", "absent", "?"}
  /\ MaxFaults \in Nat /\ MaxRounds \in Nat
  /\ Given \subseteq [token : {"client", "bot", "none"}, cookie : {"right", "wrong", "none"}]

\* The archive is of the channels that GuiSync has.
A == INSTANCE Archive
W == INSTANCE Workspaces
L == INSTANCE Login

archive == <<now, posted, replies, stored, storedReplies, opened, run, session, runs, todo,
             fetching, threads, window, atStart, clean>>
workspaces == <<creds, current, proc, commands, chosen>>
login == <<command, pc, method, input, confirmed, gate, store, selected, savedBy, gaveUp, rounds, faults>>
all == <<part, vars, archive, workspaces, login>>

HostInit ==
  /\ part \in {"gui", "archive", "workspaces", "login"} /\ Init /\ A!Init /\ W!Init /\ L!Init
  /\ part # "gui" => db = NoDb
  /\ part # "login" => store = L!Nothing /\ command = [quick |-> FALSE, flags |-> L!Nothing, os |-> "tested", browser |-> "rod"]

GuiStep == part = "gui" /\ Next /\ UNCHANGED <<part, archive, workspaces, login>>
GuiSyncStep == part = "gui" /\ ~crashed /\ Sync /\ UNCHANGED <<part, archive, workspaces, login>>
GuiTask(t) ==
  part = "gui" /\ ~crashed /\ (Fetched(t) \/ WriteEntry(t)) /\ UNCHANGED <<part, archive, workspaces, login>>
ArchiveStep == part = "archive" /\ A!Next /\ UNCHANGED <<part, vars, workspaces, login>>
WorkspacesStep == part = "workspaces" /\ W!Next /\ UNCHANGED <<part, vars, archive, login>>
LoginStep == part = "login" /\ L!Next /\ UNCHANGED <<part, vars, archive, workspaces>>

HostSpec ==
  /\ HostInit /\ [][GuiStep \/ ArchiveStep \/ WorkspacesStep \/ LoginStep]_all
  /\ WF_all(GuiSyncStep) /\ \A t \in Tasks : WF_all(GuiTask(t))

\* The variables of the components have their types.
HostTypeOK == TypeOK /\ A!TypeOK /\ W!TypeOK /\ L!TypeOK

\* The archive after runs that completed: no window has gaps, and neither have the windows of
\* successive runs or the threads known before.
NothingMissing == A!WindowComplete /\ A!NoGap /\ A!KnownThreads

\* A command works in the workspace that was chosen, with credentials that Slack accepts or that are
\* on its command line; a login succeeds with credentials that work and are kept, fails for a reason,
\* and spoils what was saved only when something fails or the command line says so.
RightWorkspace ==
  /\ W!UsesTheChosen
  /\ L!SuccessIsTrue /\ L!GoesOnLoggedIn /\ L!FailsForAReason /\ L!NothingSpoiled
=============================================================================
