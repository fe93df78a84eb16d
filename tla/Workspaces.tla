----------------------------- MODULE Workspaces -----------------------------
(***************************************************************************)
(* The workspaces a user has logged in to: one file of credentials for     *)
(* each and a file with the name of the current one                        *)
(* (internal/cache/manager.go, auth.go), and the commands that use them    *)
(* (cmd/slackdump/internal/workspace).                                     *)
(*                                                                         *)
(* A process runs one command; several may run at once and any may be      *)
(* killed.  A step is one access to the directory: a file that is created  *)
(* is empty until it is written.                                           *)
(***************************************************************************)
EXTENDS Naturals, Sequences

CONSTANTS
  Procs,        \* processes that may run at once
  Names,        \* names of workspaces, in the order of their files; one is "default"
  MaxCommands   \* bound: commands begun

VARIABLES
  creds,        \* [name -> "none", "partial", "expired" or "valid"]
  current,      \* the file with the current name: "absent", "" or a name
  proc,         \* [Procs -> control point, command, name, whether it ran by itself]
  commands,     \* commands begun
  chosen        \* history: the name the user chose last, "?" when a failure or a race blurs it

vars == <<creds, current, proc, commands, chosen>>

Wsps == {Names[i] : i \in 1..Len(Names)}
Default == "default"
Idle == [pc |-> "idle", cmd |-> "none", name |-> "", alone |-> TRUE]

Exists(n) == creds[n] # "none"
Busy(p) == proc[p].pc # "idle"
Alone(p) == \A q \in Procs \ {p} : ~Busy(q)

Init ==
  /\ creds = [n \in Wsps |-> "none"]
  /\ current = "absent"
  /\ proc = [p \in Procs |-> Idle]
  /\ commands = 0 /\ chosen = "?"

Go(p, pc) == proc' = [proc EXCEPT ![p].pc = pc]
Done(p) == proc' = [proc EXCEPT ![p] = Idle]

Begin(p, cmd, n, pc) ==
  /\ ~Busy(p) /\ commands < MaxCommands
  /\ commands' = commands + 1
  /\ proc' = [q \in Procs |->
       IF q = p THEN [pc |-> pc, cmd |-> cmd, name |-> n, alone |-> Alone(p)]
       ELSE IF Busy(q) THEN [proc[q] EXCEPT !.alone = FALSE] ELSE proc[q]]
  /\ UNCHANGED <<creds, current, chosen>>

\* The commands: new (createWsp), import (CreateAndSelect), select, del (of one or, name by
\* name, of all), and any command that authenticates (AuthCurrent), with -workspace or without.
New(p) == \E n \in Wsps : Begin(p, "new", n, "new")
Import(p) == \E n \in Wsps : Begin(p, "import", n, "save")
SelectCmd(p) == \E n \in Wsps : Begin(p, "select", n, "select")
Del(p) == \E n \in Wsps : Begin(p, "del", n, "del")
Use(p) == Begin(p, "use", "", "current") \/ \E n \in Wsps : Begin(p, "useas", n, "auth")

\* createWsp: a workspace that exists is deleted first, if the user agrees.
CreateWsp(p) ==
  LET n == proc[p].name IN
  /\ proc[p].pc = "new"
  /\ \/ ~Exists(n) /\ Go(p, "load") /\ UNCHANGED <<creds, chosen>>
     \/ Exists(n) /\ Done(p) /\ UNCHANGED <<creds, chosen>>
     \/ /\ Exists(n) /\ Go(p, "load")
        /\ creds' = [creds EXCEPT ![n] = "none"]
        /\ chosen' = IF chosen = n THEN "?" ELSE chosen
  /\ UNCHANGED <<current, commands>>

DelWsp(p) ==
  LET n == proc[p].name IN
  /\ proc[p].pc = "del"
  /\ creds' = [creds EXCEPT ![n] = "none"]
  /\ chosen' = IF chosen = n THEN "?" ELSE chosen
  /\ Done(p)
  /\ UNCHANGED <<current, commands>>

----------------------------------------------------------------------------
(* Manager.Current and selectDefault, the choice of a workspace. *)

\* The current name is taken on trust.
CurrentUnchecked(p) ==
  /\ proc[p].pc = "current"
  /\ proc' = [proc EXCEPT ![p].pc = "auth",
                          ![p].name = IF current \in Wsps THEN current ELSE Default]
  /\ UNCHANGED <<creds, current, commands, chosen>>

FirstAvailable ==
  Names[CHOOSE i \in 1..Len(Names) : Exists(Names[i]) /\ \A j \in 1..(i - 1) : ~Exists(Names[j])]

\* The file names a workspace that exists; otherwise the default one is selected, or the first.
Current(p) ==
  /\ proc[p].pc = "current"
  /\ proc' = [proc EXCEPT ![p] =
       IF ~\E n \in Wsps : Exists(n) THEN [@ EXCEPT !.pc = "auth", !.name = Default]
       ELSE IF current \in Wsps /\ Exists(current) THEN [@ EXCEPT !.pc = "auth", !.name = current]
       ELSE [@ EXCEPT !.pc = "select",
                      !.name = IF Exists(Default) THEN Default ELSE FirstAvailable]]
  /\ UNCHANGED <<creds, current, commands, chosen>>

\* Manager.Select: the workspace must exist; the file is created, ...
Select(p) ==
  /\ proc[p].pc = "select"
  /\ IF Exists(proc[p].name)
     THEN Go(p, "name") /\ current' = ""
     ELSE Done(p) /\ UNCHANGED current
  /\ UNCHANGED <<creds, commands, chosen>>

\* ... and written.
WriteName(p) ==
  /\ proc[p].pc = "name"
  /\ current' = proc[p].name
  /\ chosen' = IF proc[p].alone THEN proc[p].name ELSE "?"
  /\ IF proc[p].cmd = "use" THEN Go(p, "auth") ELSE Done(p)
  /\ UNCHANGED <<creds, commands>>

----------------------------------------------------------------------------
(* authWsp and initProvider. *)

AuthWsp(p) ==
  /\ proc[p].pc = "auth"
  /\ IF Exists(proc[p].name) THEN Go(p, "load") ELSE Done(p)
  /\ UNCHANGED <<creds, current, commands, chosen>>

Authenticated(p) == IF proc[p].cmd \in {"new", "import"} THEN Go(p, "select") ELSE Done(p)

\* Without a token the saved credentials are tried, and the user is asked when they are no good.
Load(p) ==
  /\ proc[p].pc = "load"
  /\ \/ creds[proc[p].name] = "valid" /\ Authenticated(p)
     \/ Go(p, "login")
  /\ UNCHANGED <<creds, current, commands, chosen>>

Login(p) ==
  /\ proc[p].pc = "login"
  /\ Go(p, "save") \/ Done(p)
  /\ UNCHANGED <<creds, current, commands, chosen>>

\* saveCreds creates the file; that it cannot is only logged, except by import.
Save(p) ==
  LET n == proc[p].name IN
  /\ proc[p].pc = "save"
  /\ \/ creds' = [creds EXCEPT ![n] = "partial"] /\ Go(p, "write")
     \/ (IF proc[p].cmd = "import" THEN Done(p) ELSE Authenticated(p)) /\ UNCHANGED creds
  /\ UNCHANGED <<current, commands, chosen>>

WriteCreds(p) ==
  /\ proc[p].pc = "write"
  /\ creds' = IF Exists(proc[p].name) THEN [creds EXCEPT ![proc[p].name] = "valid"] ELSE creds
  /\ Authenticated(p)
  /\ UNCHANGED <<current, commands, chosen>>

----------------------------------------------------------------------------
(* What happens to the processes and to the credentials. *)

Kill(p) ==
  /\ Busy(p)
  /\ Done(p)
  /\ chosen' = IF proc[p].pc = "name" THEN "?" ELSE chosen
  /\ UNCHANGED <<creds, current, commands>>

Expire(n) ==
  /\ creds[n] = "valid" /\ commands > 0
  /\ creds' = [creds EXCEPT ![n] = "expired"]
  /\ UNCHANGED <<current, proc, commands, chosen>>

Next ==
  \/ \E p \in Procs :
       \/ New(p) \/ Import(p) \/ SelectCmd(p) \/ Del(p) \/ Use(p)
       \/ CreateWsp(p) \/ DelWsp(p) \/ Current(p) \/ Select(p) \/ WriteName(p)
       \/ AuthWsp(p) \/ Load(p) \/ Login(p) \/ Save(p) \/ WriteCreds(p) \/ Kill(p)
  \/ \E n \in Wsps : Expire(n)

Spec == Init /\ [][Next]_vars

----------------------------------------------------------------------------
(* Properties. *)

TypeOK ==
  /\ creds \in [Wsps -> {"none", "partial", "expired", "valid"}]
  /\ current \in Wsps \union {"absent", ""}
  /\ \A p \in Procs :
       /\ proc[p].pc \in {"idle", "new", "del", "current", "select", "name", "auth", "load",
                          "login", "save", "write"}
       /\ proc[p].name \in Wsps \union {""}
  /\ chosen \in Wsps \union {"?"}

\* A command works in the workspace the user chose last, as long as that one is not deleted and
\* no other command runs beside it; and whatever was killed before, a workspace is found as long
\* as there is one.
UsesTheChosen ==
  \A p \in Procs :
    proc[p].cmd = "use" /\ proc[p].alone /\ proc[p].pc \in {"auth", "load", "login"} =>
      /\ chosen # "?" => proc[p].name = chosen
      /\ (\E n \in Wsps : Exists(n)) => Exists(proc[p].name)
=============================================================================
