-------------------------- MODULE BrowserSessions --------------------------
(***************************************************************************)
(* The browser of the sandbox daemon: HTTP requests that look up, create,  *)
(* use and delete browser sessions, the repository with its lock, the      *)
(* sessions with theirs, and the drivers (an incognito context and a page) *)
(* in one root Chromium.                                                   *)
(*                                                                         *)
(* A session is named by the request that created it.  What a page shows   *)
(* is left out: a driver call works or fails.  Operators with a suffix are *)
(* mutants of the definition after them.                                   *)
(***************************************************************************)
EXTENDS Naturals

CONSTANTS
  Requests,     \* HTTP requests, each served once
  Ids,          \* session ids
  NoReq         \* no request, no session

Ops == {"open", "close", "use"}    \* use: snapshot, click, screenshot

VARIABLES
  req,        \* the requests: position, operation, session id, session found
  sessions,   \* MemorySessionRepository.sessions
  repoMu,     \* holder of its lock
  isOpen,     \* BrowserSession.isOpen
  mu,         \* holder of BrowserSession.mu
  driver,     \* the session's driver: "none" before it is created
  root,       \* RodBrowserManager.rootBrowser, and how that Chromium is
  dropped     \* history: sessions a close request took out of the map

browserVars == <<req, sessions, repoMu, isOpen, mu, driver, root, dropped>>

NoRequest   == [pc |-> "idle", op |-> "none", id |-> NoReq, session |-> NoReq, reply |-> "none"]
Active      == {"repo", "create", "session", "busy", "closing"}
Moved(r, pc)     == req' = [req EXCEPT ![r].pc = pc]
AnswerR(r, what) == req' = [req EXCEPT ![r].pc = "done", ![r].reply = what]
Found(r, s, pc)  == req' = [req EXCEPT ![r].pc = pc, ![r].session = s]

BrowserInit ==
  /\ req = [r \in Requests |-> NoRequest]
  /\ sessions = [i \in Ids |-> NoReq]
  /\ repoMu = NoReq
  /\ isOpen = [s \in Requests |-> FALSE]
  /\ mu = [s \in Requests |-> NoReq]
  /\ driver = [s \in Requests |-> "none"]
  /\ root = "none"
  /\ dropped = {}

-----------------------------------------------------------------------------

\* The handlers of /tools/browser/*: a body that does not parse never gets this far.
Arrive(r) ==
  /\ req[r].pc = "idle"
  /\ \E op \in Ops, i \in Ids :
       req' = [req EXCEPT ![r] = [NoRequest EXCEPT !.pc = "repo", !.op = op, !.id = i]]
  /\ UNCHANGED <<sessions, repoMu, isOpen, mu, driver, root, dropped>>

\* GetOrCreate under the repository's lock: the session is there ...
Lookup(r) ==
  /\ req[r].pc = "repo" /\ req[r].op # "close" /\ repoMu = NoReq
  /\ sessions[req[r].id] # NoReq
  /\ Found(r, sessions[req[r].id], "session")
  /\ UNCHANGED <<sessions, repoMu, isOpen, mu, driver, root, dropped>>

Miss_Unlocked(r) ==
  /\ req[r].pc = "repo" /\ req[r].op # "close" /\ repoMu = NoReq
  /\ sessions[req[r].id] = NoReq
  /\ Moved(r, "create")
  /\ UNCHANGED <<repoMu, sessions, isOpen, mu, driver, root, dropped>>

\* ... or it is not, and the factory runs with the lock held.
Miss(r) ==
  /\ req[r].pc = "repo" /\ req[r].op # "close" /\ repoMu = NoReq
  /\ sessions[req[r].id] = NoReq
  /\ repoMu' = r
  /\ Moved(r, "create")
  /\ UNCHANGED <<sessions, isOpen, mu, driver, root, dropped>>

Unlock(r) == repoMu' = IF repoMu = r THEN NoReq ELSE repoMu

\* getRootBrowser launches Chromium once and keeps what it has for ever, alive or not.
RootFor == IF root = "none" THEN {"none", "live"} ELSE {root}

\* CreateIsolatedDriver needs a live root, an incognito context and a page in it.  It takes no
\* deadline: with a Chromium that hangs it waits, and so does everyone else for its lock.
Create(r) ==
  /\ req[r].pc = "create" /\ root # "hung"
  /\ \E b \in RootFor :
       /\ root' = b
       /\ \/ /\ b = "live"
             /\ driver' = [driver EXCEPT ![r] = "open"]
             /\ sessions' = [sessions EXCEPT ![req[r].id] = r]
             /\ Found(r, r, "session")
          \/ /\ AnswerR(r, "error")
             /\ UNCHANGED <<driver, sessions>>
  /\ Unlock(r)
  /\ UNCHANGED <<isOpen, mu, dropped>>

\* A session's methods run under its lock.
Enter(r) ==
  /\ req[r].pc = "session" /\ mu[req[r].session] = NoReq
  /\ mu' = [mu EXCEPT ![req[r].session] = r]
  /\ Moved(r, "busy")
  /\ UNCHANGED <<sessions, repoMu, isOpen, driver, root, dropped>>

\* What a driver call may come to: a closed driver has no page, a dead browser no answer,
\* and a page may fail or run into the request's deadline.
DriverCall(s) == {"error"} \cup IF driver[s] = "open" /\ root = "live" THEN {"ok"} ELSE {}

\* Every driver call begins with Pages(), and Close is one: they take no deadline either.
Waits(s) == driver[s] = "open" /\ root = "hung"

\* OpenPage: Navigate marks the session open, the InspectPage after it may still fail.
OpenPage(r) ==
  /\ req[r].pc = "busy" /\ req[r].op = "open" /\ ~Waits(req[r].session)
  /\ LET s == req[r].session IN
     /\ mu' = [mu EXCEPT ![s] = NoReq]
     /\ \E navigate \in DriverCall(s), inspect \in DriverCall(s) :
          /\ isOpen' = IF navigate = "ok" THEN [isOpen EXCEPT ![s] = TRUE] ELSE isOpen
          /\ AnswerR(r, IF navigate = "ok" THEN inspect ELSE "error")
  /\ UNCHANGED <<sessions, repoMu, driver, root, dropped>>

\* GetSnapshot, Click and Screenshot: nothing without an open page.
UsePage(r) ==
  /\ req[r].pc = "busy" /\ req[r].op = "use"
  /\ isOpen[req[r].session] => ~Waits(req[r].session)
  /\ LET s == req[r].session IN
     /\ mu' = [mu EXCEPT ![s] = NoReq]
     /\ \E answer \in IF isOpen[s] THEN DriverCall(s) ELSE {"error"} : AnswerR(r, answer)
  /\ UNCHANGED <<sessions, repoMu, isOpen, driver, root, dropped>>

\* Delete of an unknown id is a success.
CloseUnknown(r) ==
  /\ req[r].pc = "repo" /\ req[r].op = "close" /\ repoMu = NoReq
  /\ sessions[req[r].id] = NoReq
  /\ AnswerR(r, "ok")
  /\ UNCHANGED <<sessions, repoMu, isOpen, mu, driver, root, dropped>>

\* Delete keeps the repository's lock while it waits for the session's.
Delete(r) ==
  /\ req[r].pc = "repo" /\ req[r].op = "close" /\ repoMu = NoReq
  /\ sessions[req[r].id] # NoReq
  /\ repoMu' = r
  /\ Found(r, sessions[req[r].id], "closing")
  /\ UNCHANGED <<sessions, isOpen, mu, driver, root, dropped>>

ClosePage_StillOpen(r) ==
  /\ req[r].pc = "closing" /\ mu[req[r].session] = NoReq
  /\ isOpen[req[r].session] => ~Waits(req[r].session)
  /\ LET s == req[r].session IN
     /\ driver' = IF isOpen[s] THEN [driver EXCEPT ![s] = "closed"] ELSE driver
     /\ dropped' = dropped \cup {s}
  /\ sessions' = [sessions EXCEPT ![req[r].id] = NoReq]
  /\ repoMu' = NoReq
  /\ AnswerR(r, "ok")
  /\ UNCHANGED <<isOpen, mu, root>>

ClosePage_KeepsLock(r) ==
  /\ req[r].pc = "closing" /\ mu[req[r].session] = NoReq
  /\ isOpen[req[r].session] => ~Waits(req[r].session)
  /\ LET s == req[r].session IN
     /\ driver' = IF isOpen[s] THEN [driver EXCEPT ![s] = "closed"] ELSE driver
     /\ isOpen' = [isOpen EXCEPT ![s] = FALSE]
     /\ dropped' = dropped \cup {s}
     /\ repoMu' = IF isOpen[s] THEN NoReq ELSE repoMu
  /\ sessions' = [sessions EXCEPT ![req[r].id] = NoReq]
  /\ AnswerR(r, "ok")
  /\ UNCHANGED <<mu, root>>

\* ClosePage closes the driver of a session that is open, and Delete drops the session
\* whatever became of that.  While it waits it holds both locks.
ClosePage(r) ==
  /\ req[r].pc = "closing" /\ mu[req[r].session] = NoReq
  /\ isOpen[req[r].session] => ~Waits(req[r].session)
  /\ LET s == req[r].session IN
     /\ driver' = IF isOpen[s] THEN [driver EXCEPT ![s] = "closed"] ELSE driver
     /\ isOpen' = [isOpen EXCEPT ![s] = FALSE]
     /\ dropped' = dropped \cup {s}
  /\ sessions' = [sessions EXCEPT ![req[r].id] = NoReq]
  /\ repoMu' = NoReq
  /\ AnswerR(r, "ok")
  /\ UNCHANGED <<mu, root>>

\* Chromium stops answering.
RootHangs ==
  /\ root = "live"
  /\ root' = "hung"
  /\ UNCHANGED <<req, sessions, repoMu, isOpen, mu, driver, dropped>>

\* Chromium crashes: the connection stays cached, and every call on it fails, now and later.
RootDies ==
  /\ root \in {"live", "hung"}
  /\ root' = "dead"
  /\ UNCHANGED <<req, sessions, repoMu, isOpen, mu, driver, dropped>>

Serve(r) == \/ Lookup(r) \/ Miss(r) \/ Create(r) \/ Enter(r) \/ OpenPage(r) \/ UsePage(r)
            \/ CloseUnknown(r) \/ Delete(r) \/ ClosePage(r)

BrowserNext == RootHangs \/ RootDies \/ \E r \in Requests : Arrive(r) \/ Serve(r)

\* A goroutine that can go on does: what a page does ends by the request's deadline, what only
\* Chromium does ends unless that hangs.
BrowserFairness == \A r \in Requests : WF_browserVars(Serve(r))
BrowserSpec     == BrowserInit /\ [][BrowserNext]_browserVars /\ BrowserFairness

-----------------------------------------------------------------------------
(* Properties                                                              *)

\* Types of the state.
BrowserTypeOK ==
  /\ req \in [Requests -> [pc : {"idle", "done"} \cup Active, op : Ops \cup {"none"},
                           id : Ids \cup {NoReq}, session : Requests \cup {NoReq},
                           reply : {"none", "ok", "error"}]]
  /\ sessions \in [Ids -> Requests \cup {NoReq}]
  /\ repoMu \in Requests \cup {NoReq}
  /\ isOpen \in [Requests -> BOOLEAN]
  /\ mu \in [Requests -> Requests \cup {NoReq}]
  /\ driver \in [Requests -> {"none", "open", "closed"}]
  /\ root \in {"none", "live", "hung", "dead"}
  /\ dropped \subseteq Requests

\* An open session has a driver that has not been closed, also one that a close request has
\* taken out of the map while another request still holds it.
OpenHasDriver == \A s \in Requests : isOpen[s] => driver[s] = "open"

\* A driver that is not closed can still be reached, through the map, unless a close request
\* dropped its session: two requests that create a session under one id never leave a driver behind.
NoOrphan ==
  \A s \in Requests :
    driver[s] = "open" => s \in dropped \/ \E i \in Ids : sessions[i] = s

\* Every request is answered unless Chromium hangs, and those that hung with it are when it dies:
\* a close request that holds the repository's lock and waits for a session does not deadlock with
\* the request that uses the session.
Answered == \A r \in Requests : req[r].pc \in Active ~> req[r].pc = "done" \/ root = "hung"

=============================================================================
