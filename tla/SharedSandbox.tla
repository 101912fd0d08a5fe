--------------------------- MODULE SharedSandbox ----------------------------
(***************************************************************************)
(* The container of one user.  A scan of the red team and a question to    *)
(* Ely find the same tool in user_sandboxes, or start one when there is    *)
(* none; the end of a scan destroys whatever tool it finds there.  No lock *)
(* covers the second and a half a container takes to start.                *)
(***************************************************************************)
EXTENDS Naturals, FiniteSets, FiniteSetsExt
CONSTANTS Users,       \* clients, each a scan or a question, that want the container
          Questions,   \* those of them that are questions to Ely
          MaxContainers,
          None
ASSUME SandboxAssumption ==
  /\ IsFiniteSet(Users) /\ Questions \subseteq Users /\ MaxContainers \in Nat
  /\ None \notin Users /\ None \notin Nat

VARIABLES
  entry,   \* the tool in user_sandboxes: named after the client that made it
  box,     \* [Users -> the container of the tool the client made]
  tool,    \* [Users -> the tool the client holds, at its end the one it destroys]
  upc,     \* [Users -> where the client is]
  up,      \* the containers that run
  made,    \* the number of containers started so far
  aside,   \* clients that were alive beside another one
  lost     \* containers of a process that was killed
xvars == <<entry, box, tool, upc, up, made, aside, lost>>

Busy == {u \in Users : upc[u] \notin {"idle", "over"}}
At(u, place) == upc' = [upc EXCEPT ![u] = place]
Containers == 1..MaxContainers
Starts(c) == c \in Containers /\ c = made + 1 /\ made' = c /\ up' = up \union {c}

SandboxInit ==
  /\ entry = None
  /\ box = [u \in Users |-> None]
  /\ tool = [u \in Users |-> None]
  /\ upc = [u \in Users |-> "idle"]
  /\ up = {}
  /\ made = 0
  /\ aside = {}
  /\ lost = {}

Wake(u) ==
  /\ upc[u] = "idle"
  /\ At(u, "look")
  /\ aside' = IF Busy = {} THEN aside ELSE aside \union Busy \union {u}
  /\ UNCHANGED <<entry, box, tool, up, made, lost>>

\* Slip, for KeptIsFound: every client starts a container of its own.
LookAlways(u) ==
  /\ upc[u] = "look"
  /\ At(u, "starting")
  /\ UNCHANGED <<entry, box, tool, up, made, aside, lost>>

\* get_bash_tool, its check.
Look(u) ==
  /\ upc[u] = "look"
  /\ IF entry # None
     THEN tool' = [tool EXCEPT ![u] = entry] /\ At(u, "ready")
     ELSE At(u, "starting") /\ UNCHANGED tool
  /\ UNCHANGED <<entry, box, up, made, aside, lost>>

\* get_bash_tool, after the wait: the entry is written over.
Started(u, c) ==
  /\ upc[u] = "starting"
  /\ Starts(c)
  /\ box' = [box EXCEPT ![u] = c]
  /\ tool' = [tool EXCEPT ![u] = u]
  /\ entry' = u
  /\ At(u, "ready")
  /\ UNCHANGED <<aside, lost>>

\* No docker: a scan fails on its first use of None, a question is answered with an error.
StartFails(u) ==
  /\ upc[u] = "starting"
  /\ At(u, "over")
  /\ UNCHANGED <<entry, box, tool, up, made, aside, lost>>

\* BashTool.handle: a tool without a container starts one, for itself.
Checked(u) ==
  /\ upc[u] = "ready"
  /\ At(u, IF box[tool[u]] = None THEN "respawning" ELSE "checked")
  /\ UNCHANGED <<entry, box, tool, up, made, aside, lost>>

\* BashTool.spawn, after the wait: what another client of the tool started is written over.
Respawn(u, c) ==
  /\ upc[u] = "respawning"
  /\ Starts(c)
  /\ box' = [box EXCEPT ![tool[u]] = c]
  /\ At(u, "checked")
  /\ UNCHANGED <<entry, tool, aside, lost>>

\* The answer is an error, and the client goes on.
RespawnFails(u) ==
  /\ upc[u] = "respawning"
  /\ At(u, IF u \in Questions THEN "over" ELSE "used")
  /\ UNCHANGED <<entry, box, tool, up, made, aside, lost>>

\* The command itself: when the container went after the check, the answer is an error.
Exec(u) ==
  /\ upc[u] = "checked"
  /\ At(u, IF u \in Questions THEN "over" ELSE "used")
  /\ UNCHANGED <<entry, box, tool, up, made, aside, lost>>

Again(u) ==
  /\ upc[u] = "used"
  /\ At(u, "ready")
  /\ UNCHANGED <<entry, box, tool, up, made, aside, lost>>

\* A scan that raises, or is over its fifteen minutes, does not come to the end of run.
Abandon(u) ==
  /\ upc[u] \in {"ready", "checked", "used"}
  /\ At(u, "over")
  /\ UNCHANGED <<entry, box, tool, up, made, aside, lost>>

\* destroy_bash_tool: the container of the entry of the moment goes, which takes time.
Remove(u) ==
  /\ upc[u] = "used"
  /\ IF entry = None
     THEN At(u, "over") /\ UNCHANGED <<tool, up>>
     ELSE /\ up' = up \ {box[entry]}
          /\ tool' = [tool EXCEPT ![u] = entry]
          /\ At(u, IF box[entry] = None THEN "unlist" ELSE "removing")
  /\ UNCHANGED <<entry, box, made, aside, lost>>

\* Slip, for OneTool: the tool keeps the container it had removed.
KeepSandbox(u) ==
  /\ upc[u] = "removing"
  /\ At(u, "unlist")
  /\ UNCHANGED <<entry, box, tool, up, made, aside, lost>>

\* BashTool.destroy, after docker rm: the tool has no container, even when another client has just
\* started one for it.
DropSandbox(u) ==
  /\ upc[u] = "removing"
  /\ box' = [box EXCEPT ![tool[u]] = None]
  /\ At(u, "unlist")
  /\ UNCHANGED <<entry, tool, up, made, aside, lost>>

\* The entry is deleted after it, if another end has not done so.
ForgetTool(u) ==
  /\ upc[u] = "unlist"
  /\ entry' = None
  /\ At(u, "over")
  /\ UNCHANGED <<box, tool, up, made, aside, lost>>

\* What the process remembers of containers goes with it.
Forgotten ==
  /\ entry' = None
  /\ box' = [u \in Users |-> None]
  /\ upc' = [u \in Users |-> IF u \in Busy THEN "over" ELSE upc[u]]
  /\ UNCHANGED <<tool, made, aside>>

\* Control-C removes every container named strike-, those of earlier processes too.
Shutdown ==
  /\ up' = {}
  /\ lost' = {}
  /\ Forgotten

\* A kill leaves them: the timer of the image ends its own subshell, and the container idles on.
Killed ==
  /\ lost' = up
  /\ Forgotten
  /\ UNCHANGED up

SandboxStep(u) ==
  \/ Look(u)
  \/ \E c \in Containers : Started(u, c)
  \/ StartFails(u)
  \/ Checked(u)
  \/ \E c \in Containers : Respawn(u, c)
  \/ RespawnFails(u)
  \/ Exec(u)
  \/ Again(u)
  \/ Abandon(u)
  \/ Remove(u)
  \/ DropSandbox(u)
  \/ ForgetTool(u)

---------------------------------------------------------------------------
SandboxTypeOK ==
  /\ entry \in Users \union {None}
  /\ box \in [Users -> 1..made \union {None}]
  /\ tool \in [Users -> Users \union {None}]
  /\ upc \in [Users -> {"idle", "look", "starting", "ready", "respawning", "checked", "used", "removing", "unlist", "over"}]
  /\ up \subseteq 1..made /\ made \in 0..MaxContainers
  /\ aside \subseteq Users
  /\ lost \subseteq up

\* A container runs for one tool, and a tool believes in none that is gone, but while a client removes
\* it: what destroy removes is forgotten by the tool every other client of the user holds.
OneTool ==
  /\ \A u, v \in Users : u # v /\ box[u] # None => box[u] # box[v]
  /\ \A u \in Users : box[u] # None => box[u] \in up \/ \E v \in Users : upc[v] = "removing" /\ tool[v] = u

\* Clients that follow each other, whatever ends they come to, leave at most one container, and it
\* is the one the next client will find; those of a killed process are beside it.
KeptIsFound == (aside = {}) => up \subseteq lost \union {box[e] : e \in {entry} \ {None}}

\* The clients of a user share one sandbox, which the next one finds.
SandboxSound ==
  /\ SandboxTypeOK
  /\ OneTool
  /\ KeptIsFound
=============================================================================
