--------------------------------- MODULE Login ---------------------------------
(* Logging in.  A command takes the saved credentials of the workspace if they     *)
(* pass a test, those on its command line, or a browser login (cache/auth.go,      *)
(* workspace.go); when no workspace is known it shows the login menu first         *)
(* (workspaceui): token and cookie, cookie alone, token and cookie file, a file of *)
(* secrets, and a browser driven by rod or playwright (auth).  "workspace new"     *)
(* shows the same menu until the user leaves it.                                   *)
EXTENDS Naturals
CONSTANTS
  Given,       \* what the command line may give: providers, or Nothing
  MaxFaults,   \* calls of Slack, the browser or the disk that fail
  MaxRounds    \* methods picked in the menu
VARIABLES
  command,     \* what the program was started with: [quick, flags, os, browser]
  pc,          \* "auth", "menu", "form", "provider", "create", "save", "select", "retry", "note",
               \* "type", "guard", "ready", "failed" or "left"
  method,      \* "token", "cookie", "tokenfile", "secrets", "browser" or, of initProvider, "again"
  input,       \* what the provider is made from
  confirmed,   \* whether the form was confirmed
  gate,        \* what withBrowserGuard waits for and has happened
  store,       \* the credentials of the workspace: a provider, Nothing, or Partial
  selected,    \* whether the workspace is the current one
  savedBy,     \* how the stored credentials came to be: <<method, confirmed>>
  gaveUp,      \* whether the user left, declined or closed the browser
  rounds, faults
vars == <<command, pc, method, input, confirmed, gate, store, selected, savedBy, gaveUp, rounds, faults>>

Nothing == [token |-> "none", cookie |-> "none"]
Partial == [token |-> "partial", cookie |-> "none"]
Providers == [token : {"client", "bot"}, cookie : {"right", "wrong", "none"}]
\* Slack accepts a bot token as it is, and a client token with its cookie.
Works(p) == p.token = "bot" \/ (p.token = "client" /\ p.cookie = "right")
\* A client token without a cookie is no provider.
IsEmpty(p) == p.token = "none" \/ (p.token = "client" /\ p.cookie = "none")

Commands ==
  [quick : BOOLEAN, flags : Given, os : {"tested", "untested", "unsupported"},
   browser : {"rod", "playwright"}]
Init ==
  /\ command \in {c \in Commands : c.quick \/ (c.flags = Nothing /\ c.os = "tested")}
  /\ store \in {Nothing, [token |-> "client", cookie |-> "right"], [token |-> "client", cookie |-> "wrong"]}
  /\ selected = (store # Nothing)
  /\ pc = IF command.quick THEN "auth" ELSE "menu"
  /\ method = "none" /\ input = Nothing /\ confirmed = FALSE /\ gate = {}
  /\ savedBy = <<"before", TRUE>> /\ gaveUp = FALSE /\ rounds = 0 /\ faults = 0

Goto(l) == pc' = l /\ UNCHANGED <<command, method, input, confirmed, gate, store, selected, savedBy, rounds>>
Fault == faults < MaxFaults /\ faults' = faults + 1
Leave(l) == Goto(l) /\ gaveUp' = TRUE /\ UNCHANGED faults
Move(l) == Goto(l) /\ UNCHANGED <<gaveUp, faults>>
\* The method returns nil: the menu is shown again, or the command goes on when it wanted one login.
Returned == IF command.quick THEN "auth" ELSE "menu"
\* It returns an error: the menu is left; a login of initProvider fails the command.
Error == Goto("failed") /\ UNCHANGED gaveUp

\* AuthData.Type: how to log in with what is on the command line.
AuthType ==
  IF ~IsEmpty(command.flags) THEN "save" ELSE IF command.os = "tested" THEN "type" ELSE "failed"

\* initProvider: the saved credentials, tested; whatever is on the command line is not, and neither
\* are the saved ones looked at then.
TryLoad ==
  /\ pc = "auth" /\ store # Nothing /\ IsEmpty(command.flags)
  /\ \/ Works(store) /\ input' = store /\ pc' = "ready" /\ UNCHANGED <<method, faults>>
     \/ /\ IF Works(store) THEN Fault ELSE UNCHANGED faults
        /\ pc' = AuthType
        /\ method' = "again" /\ UNCHANGED input
  /\ UNCHANGED <<command, confirmed, gate, store, selected, savedBy, gaveUp, rounds>>
AuthProvider ==
  /\ pc = "auth" /\ store # Nothing /\ ~IsEmpty(command.flags)
  /\ input' = command.flags /\ method' = "flags" /\ pc' = AuthType
  /\ UNCHANGED <<command, confirmed, gate, store, selected, savedBy, gaveUp, rounds, faults>>
\* CurrentOrNewProviderCtx: without a workspace the menu is shown, and then it must be there.
ShowUI ==
  /\ pc = "auth" /\ store = Nothing
  /\ Move(IF rounds = 0 THEN "menu" ELSE "failed")

Menu ==
  /\ pc = "menu"
  /\ \/ /\ rounds < MaxRounds /\ rounds' = rounds + 1
        /\ \E m \in {"token", "cookie", "tokenfile", "secrets", "browser"} :
             method' = m /\ pc' = IF m = "browser" THEN "type" ELSE "form"
        /\ input' = Nothing /\ confirmed' = FALSE
        /\ UNCHANGED <<command, gate, store, selected, savedBy, gaveUp, faults>>
     \/ Leave(IF command.quick THEN IF store = Nothing THEN "failed" ELSE "auth" ELSE "left")
     \/ Fault /\ Error

\* The form of a method: what is confirmed has passed the validator, a cookie file as the cookies in
\* it; what is not is dropped, but for the token with a file; escape returns to the menu.
Validated(p) == ~IsEmpty(p) /\ Works(p)
Filled(m, p, c, goesOn) ==
  /\ pc = "form" /\ method = m
  /\ c => Validated(p)
  /\ input' = p /\ confirmed' = c
  /\ pc' = IF goesOn THEN "provider" ELSE Returned
  /\ gaveUp' = (gaveUp \/ ~c)
  /\ UNCHANGED <<command, method, gate, store, selected, savedBy, rounds, faults>>
PrgTokenCookie == \E p \in Providers, c \in BOOLEAN : Filled("token", p, c, c)
PrgCookieOnly == \E p \in {q \in Providers : q.token = "client"}, c \in BOOLEAN : Filled("cookie", p, c, c)
PrgTokenCookieFile == \E p \in Providers, c \in BOOLEAN : Filled("tokenfile", p, c, TRUE)
Abort ==
  /\ pc \in {"form", "type", "note"}
  /\ \/ method = "again" /\ Leave("failed")
     \/ method # "again" /\ ~(method = "secrets" /\ pc = "form") /\ Leave("menu")
     \/ method # "again" /\ (method = "secrets" \/ command.browser = "playwright") /\ pc \in {"form", "type"} /\ Leave(Returned)
FileWithSecrets ==
  /\ pc = "form" /\ method = "secrets"
  /\ \/ \E p \in {q \in Providers : ~IsEmpty(q)} :
          input' = p /\ pc' = "provider" /\ UNCHANGED <<gaveUp, faults>>
     \/ UNCHANGED <<input, gaveUp>> /\ pc' = "failed" /\ Fault
  /\ UNCHANGED <<command, method, confirmed, gate, store, selected, savedBy, rounds>>
\* NewValueAuth: the token file's cookie is the name of the file.
NewValueAuth ==
  /\ pc = "provider"
  /\ \/ /\ IsEmpty(input) /\ Move("failed")
     \/ /\ ~IsEmpty(input) /\ pc' = "create"
        /\ input' = IF method = "tokenfile" THEN [input EXCEPT !.cookie = "wrong"] ELSE input
        /\ UNCHANGED <<command, method, confirmed, gate, store, selected, savedBy, gaveUp, rounds, faults>>
     \/ method = "cookie" /\ Fault /\ Error

\* CreateAndSelect: test, save, select; a method with a form asks whether to try again.
Rejected == IF method \in {"token", "cookie", "tokenfile"} THEN "retry" ELSE "failed"
CreateAndSelect ==
  /\ pc = "create"
  /\ \/ Works(input) /\ Move("save")
     \/ ~Works(input) /\ Move(Rejected)
     \/ Works(input) /\ Fault /\ Goto(Rejected) /\ UNCHANGED gaveUp
\* The file is truncated before it is written; initProvider goes on when it cannot be.
Own == method \in {"flags", "again"}   \* initProvider was called, by Manager.Auth
SaveCreds ==
  /\ pc = "save"
  /\ \/ store' = input /\ savedBy' = <<method, confirmed>> /\ UNCHANGED faults
        /\ pc' = IF Own THEN "ready" ELSE "select"
     \/ /\ Fault /\ pc' = IF Own THEN "ready" ELSE Rejected
        /\ \/ store' = Partial /\ savedBy' = <<method, confirmed>>
           \/ UNCHANGED <<store, savedBy>>
  /\ UNCHANGED <<command, method, input, confirmed, gate, selected, gaveUp, rounds>>
Select ==
  /\ pc = "select"
  /\ \/ selected' = TRUE /\ pc' = "note" /\ UNCHANGED faults
     \/ Fault /\ pc' = Rejected /\ UNCHANGED selected
  /\ UNCHANGED <<command, method, input, confirmed, gate, store, savedBy, gaveUp, rounds>>
AskRetry == pc = "retry" /\ (Move("form") \/ Leave(Returned))
Success == pc = "note" /\ Move(Returned)

\* Rod: the kind of login; cancelling is noticed after the browser has been set up.
LoggedIn(l) ==
  /\ input' = [token |-> "client", cookie |-> "right"] /\ pc' = l
  /\ UNCHANGED <<command, method, confirmed, gate, store, selected, savedBy, gaveUp, rounds, faults>>
Entered == IF method = "again" THEN "save" ELSE "create"
NewRODAuth ==
  /\ pc = "type" /\ command.browser = "rod"
  /\ \/ LoggedIn(Entered)
     \/ method # "again" /\ Leave(Returned)
     \/ Leave("failed")
     \/ Fault /\ Error
\* Playwright: a goroutine waits for the login, and the guard for it, the page and the context.
NewPlaywrightAuth ==
  /\ pc = "type" /\ command.browser = "playwright"
  /\ pc' = "guard" /\ gate' = {}
  /\ UNCHANGED <<command, method, input, confirmed, store, selected, savedBy, gaveUp, rounds, faults>>
Happens ==
  /\ pc = "guard"
  /\ \/ "token" \notin gate /\ gate' = gate \cup {"token"} /\ UNCHANGED <<gaveUp, faults>>
     \/ "closed" \notin gate /\ gate' = gate \cup {"closed"} /\ gaveUp' = TRUE /\ UNCHANGED faults
     \/ "timeout" \notin gate /\ "token" \notin gate /\ gate' = gate \cup {"timeout"} /\ Fault /\ UNCHANGED gaveUp
  /\ UNCHANGED <<command, pc, method, input, confirmed, store, selected, savedBy, rounds>>
WithBrowserGuard ==
  /\ pc = "guard"
  /\ \/ "token" \in gate /\ "timeout" \notin gate /\ LoggedIn(Entered)
     \/ gate \cap {"closed", "timeout"} # {} /\ Move("failed")

Next ==
  \/ TryLoad \/ AuthProvider \/ ShowUI \/ Menu \/ PrgTokenCookie \/ PrgCookieOnly \/ PrgTokenCookieFile
  \/ Abort \/ FileWithSecrets \/ NewValueAuth
  \/ CreateAndSelect \/ SaveCreds \/ Select \/ AskRetry \/ Success \/ NewRODAuth \/ NewPlaywrightAuth
  \/ Happens \/ WithBrowserGuard
Spec == Init /\ [][Next]_vars

TypeOK ==
  /\ command \in Commands /\ input \in Providers \cup {Nothing}
  /\ store \in Providers \cup {Nothing, Partial} /\ selected \in BOOLEAN /\ confirmed \in BOOLEAN
  /\ gate \subseteq {"token", "closed", "timeout"} /\ gaveUp \in BOOLEAN
  /\ rounds \in 0..MaxRounds /\ faults \in 0..MaxFaults

\* Success is announced of credentials that work, are saved and selected.  A command goes on with
\* credentials that work, unless they were on its command line; and without a fault it fails only if
\* the user gave up, offered credentials that do not work where nothing validates them, or needs a
\* browser that is not known to work.
SuccessIsTrue == pc = "note" => Works(store) /\ store = input /\ selected
GoesOnLoggedIn == pc = "ready" => Works(input) \/ method = "flags"
FailsForAReason ==
  pc = "failed" /\ faults = 0 =>
    gaveUp \/ method = "secrets" \/ (method = "again" /\ command.os # "tested")
\* Credentials that work are lost to the command line or to a fault alone; nothing that was not
\* confirmed is saved from a form but a token with a file, and nothing else that was validated is
\* turned down when nothing fails.
NothingSpoiled ==
  /\ savedBy # <<"before", TRUE>> /\ ~Works(store) => savedBy[1] = "flags" \/ faults > 0
  /\ savedBy[1] \in {"token", "cookie"} => savedBy[2]
  /\ pc = "retry" /\ faults = 0 => method = "tokenfile"
================================================================================
