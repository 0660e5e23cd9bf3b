--------------------------- MODULE LanguageServers ---------------------------
(***************************************************************************)
(* The pool of language servers (lsp/mod.rs) and the client of one         *)
(* (lsp/client.rs).  A slot per project and language holds its server      *)
(* under an asynchronous lock that a start keeps from its look at the slot *)
(* to its end, and a stop as long as it takes.  A server is a process      *)
(* that may exit, hang or break its protocol at any time.                  *)
(*                                                                         *)
(* Tools use a server, at most one each; the reaper stops idle ones, and   *)
(* a change of settings stops them all.  A tool and a change may be        *)
(* cancelled at every await: the future is dropped, with the locks and     *)
(* the references it has.  A process nobody refers to is killed.           *)
(***************************************************************************)
EXTENDS Naturals, FiniteSets

CONSTANTS
    LspKeys,      \* projects and languages, with a slot each
    LspTools,     \* calls of tools
    LspStoppers,  \* changes of settings, installations
    Reaper,       \* the task that stops idle servers
    LspServers,   \* the processes that may be started
    NoLsp,        \* no server, no slot, nobody
    MaxServers,   \* code_intel.max_servers
    LspHangs      \* may a server stop to read what it is sent?

Agents == LspTools \cup LspStoppers \cup {Reaper}

ASSUME LspAssumption ==
    /\ LspTools \cap LspStoppers = {} /\ Reaper \notin LspTools \cup LspStoppers
    /\ NoLsp \notin Agents \cup LspServers \cup LspKeys
    /\ MaxServers \in Nat \ {0} /\ LspHangs \in BOOLEAN

VARIABLES
    slotLock,    \* per slot who holds its lock
    slotServer,  \* Slot::client
    backoff,     \* the slots whose retry_at is in the future
    server,      \* the clients and their processes
    agent        \* what each agent does

lspVars == <<slotLock, slotServer, backoff, server, agent>>

\* key: what it was started for; full: its stdin takes nothing more; dead: marked so,
\* by its reader or by shutdown; putDown: shutdown has stopped it.
NoServer == [state |-> "none", key |-> NoLsp, full |-> FALSE, dead |-> FALSE, putDown |-> FALSE]
ServerRecord ==
    [state : {"none", "runs", "hung", "gone"}, key : LspKeys \cup {NoLsp},
     full : BOOLEAN, dead : BOOLEAN, putDown : BOOLEAN]
NoAgent == [at |-> "idle", slot |-> NoLsp, srv |-> NoLsp, stops |-> NoLsp, todo |-> {}]

\* slot: the slot a tool wants; srv: the server it refers to; stops: the slot
\* whose server it stops; todo: slots it still has to look at.
AgentRecord ==
    [at : {"idle", "lock", "room", "start", "use", "ask", "exit", "poll"},
     slot : LspKeys \cup {NoLsp}, srv : LspServers \cup {NoLsp},
     stops : LspKeys \cup {NoLsp}, todo : SUBSET LspKeys]

LspTypes ==
    /\ slotLock \in [LspKeys -> Agents \cup {NoLsp}]
    /\ slotServer \in [LspKeys -> LspServers \cup {NoLsp}]
    /\ backoff \subseteq LspKeys
    /\ server \in [LspServers -> ServerRecord]
    /\ agent \in [Agents -> AgentRecord]

LanguageServersInit ==
    /\ slotLock = [k \in LspKeys |-> NoLsp]
    /\ slotServer = [k \in LspKeys |-> NoLsp]
    /\ backoff = {}
    /\ server = [s \in LspServers |-> NoServer]
    /\ agent = [a \in Agents |-> NoAgent]

\* Client::alive
AliveServers == {s \in LspServers : server[s].state \in {"runs", "hung"} /\ ~server[s].dead}

\* A write to this server waits until the process ends.
Stuck(s) == server[s].state = "hung" /\ server[s].full

\* Who holds an Arc of the client, in the next state.
Referred == {slotServer'[k] : k \in LspKeys} \cup {agent'[a].srv : a \in Agents}

\* Client::drop kills the process when the last reference goes; its number is free.
Processes(clients) ==
    server' = [s \in LspServers |-> IF s \in Referred THEN clients[s] ELSE NoServer]

Does(a, next) == agent' = [agent EXCEPT ![a] = next]
SlotsKept == UNCHANGED <<slotLock, slotServer, backoff>>

-----------------------------------------------------------------------------
(* Pool::client                                                            *)

ToolWants(a, k) ==
    /\ a \in LspTools /\ agent[a].at = "idle"
    /\ Does(a, [NoAgent EXCEPT !.at = "lock", !.slot = k])
    /\ SlotsKept /\ UNCHANGED server

\* Slots another agent works on are left alone (make_room), so two starts at once
\* do not see each other.  The least recently used go; which these are is open.
Others(k) == {l \in LspKeys \ {k} : slotLock[l] = NoLsp /\ slotServer[l] \in AliveServers}

Excess(k) == {room \in SUBSET Others(k) :
                 Cardinality(room) + MaxServers = Cardinality(Others(k)) + 1}
MakesRoom(k) == IF Cardinality(Others(k)) < MaxServers THEN {{}} ELSE Excess(k)

Locks(a, k) == slotLock' = [slotLock EXCEPT ![k] = a]
Unlocks(k) == slotLock' = [slotLock EXCEPT ![k] = NoLsp]

\* The slot's lock: a server that is alive is taken; for one that died a time of
\* backoff begins; within it the call fails; and otherwise the start makes room.
ToolLocks(a) ==
    LET k == agent[a].slot
        s == slotServer[k]
    IN /\ a \in LspTools /\ agent[a].at = "lock" /\ slotLock[k] = NoLsp
       /\ \/ /\ s \in AliveServers
             /\ Does(a, [NoAgent EXCEPT !.at = "use", !.srv = s])
             /\ SlotsKept
          \/ /\ s \in LspServers \ AliveServers
             /\ slotServer' = [slotServer EXCEPT ![k] = NoLsp]
             /\ backoff' = backoff \cup {k}
             /\ Does(a, NoAgent) /\ UNCHANGED slotLock
          \/ /\ s = NoLsp /\ k \in backoff
             /\ Does(a, NoAgent) /\ SlotsKept
          \/ /\ s = NoLsp /\ k \notin backoff
             /\ \E room \in MakesRoom(k) : Does(a, [agent[a] EXCEPT !.at = "room", !.todo = room])
             /\ Locks(a, k) /\ UNCHANGED <<slotServer, backoff>>
       /\ Processes(server)

\* Mutant: the slot is emptied after the shutdown, as in stop_idle.
LeavesServer(k) == UNCHANGED slotServer

\* Slot::client.take(), before the shutdown: who is cancelled leaves nothing.
TakesServer(k) == slotServer' = [slotServer EXCEPT ![k] = NoLsp]

\* make_room goes on to a slot that is still free; one that is busy by now, or
\* empty, is left.
RoomNext(a, k) ==
    /\ agent[a].at = "room" /\ k \in agent[a].todo
    /\ \/ /\ slotLock[k] = NoLsp /\ slotServer[k] # NoLsp
          /\ Locks(a, k) /\ TakesServer(k)
          /\ Does(a, [agent[a] EXCEPT !.at = "ask", !.srv = slotServer[k], !.stops = k])
          /\ UNCHANGED backoff
       \/ /\ slotLock[k] # NoLsp \/ slotServer[k] = NoLsp
          /\ Does(a, [agent[a] EXCEPT !.todo = @ \ {k}])
          /\ SlotsKept
    /\ UNCHANGED server

\* Client::start: the process, and the wait for its answer.
ServerStarts(a, s) ==
    /\ agent[a].at = "room" /\ agent[a].todo = {}
    /\ server[s].state = "none"
    /\ Does(a, [agent[a] EXCEPT !.at = "start", !.srv = s])
    /\ SlotsKept
    /\ Processes([server EXCEPT ![s] = [NoServer EXCEPT !.state = "runs", !.key = agent[a].slot]])

ServerReady(a) ==
    LET k == agent[a].slot
        s == agent[a].srv
    IN /\ agent[a].at = "start"
       /\ server[s].state = "runs" /\ ~server[s].dead
       /\ slotServer' = [slotServer EXCEPT ![k] = s]
       /\ backoff' = backoff \ {k}
       /\ Unlocks(k)
       /\ Does(a, [NoAgent EXCEPT !.at = "use", !.srv = s])
       /\ UNCHANGED server

\* No process, an error, or no answer within a minute.
StartFails(a) ==
    /\ agent[a].at = "start" \/ (agent[a].at = "room" /\ agent[a].todo = {})
    /\ backoff' = backoff \cup {agent[a].slot}
    /\ Unlocks(agent[a].slot)
    /\ Does(a, NoAgent)
    /\ UNCHANGED slotServer
    /\ Processes(server)

\* A document longer than the pipe is written to a server that does not read.
PipeFills(a) ==
    /\ agent[a].at = "use" /\ server[agent[a].srv].state = "hung"
    /\ server' = [server EXCEPT ![agent[a].srv].full = TRUE]
    /\ SlotsKept /\ UNCHANGED agent

\* A request or a notification comes to its end: an answer, the end of the
\* process, or the timeout, which counts from the end of the write.
UseEnds(a) ==
    /\ agent[a].at = "use" /\ ~Stuck(agent[a].srv)
    /\ Does(a, NoAgent)
    /\ SlotsKept /\ Processes(server)

-----------------------------------------------------------------------------
(* Client::shutdown                                                        *)

\* Two writes, the request and exit; the answer is waited for two seconds.
StopAsks(a) ==
    /\ agent[a].at = "ask"
    /\ agent[a].srv \in AliveServers /\ ~Stuck(agent[a].srv)
    /\ Does(a, [agent[a] EXCEPT !.at = "exit"])
    /\ SlotsKept /\ UNCHANGED server

StopSaysExit(a) ==
    /\ agent[a].at = "exit" /\ ~Stuck(agent[a].srv)
    /\ Does(a, [agent[a] EXCEPT !.at = "poll"])
    /\ SlotsKept /\ UNCHANGED server

\* The reaper empties its slot now; stop_all forgets the failures.
SlotAfterStop(a, k) ==
    /\ backoff' = IF a \in LspStoppers THEN backoff \ {k} ELSE backoff
    /\ slotServer' = IF a = Reaper THEN [slotServer EXCEPT ![k] = NoLsp] ELSE slotServer

\* Within a second, or at once for a server that is marked dead: it is killed.
StopKills(a) ==
    LET s == agent[a].srv
        k == agent[a].stops
    IN /\ agent[a].at = "poll" \/ (agent[a].at = "ask" /\ s \notin AliveServers)
       /\ Does(a, [agent[a] EXCEPT !.at = "room", !.srv = NoLsp, !.stops = NoLsp,
                                   !.todo = @ \ {k}])
       /\ SlotAfterStop(a, k)
       /\ Unlocks(k)
       /\ Processes([server EXCEPT ![s].state = "gone", ![s].dead = TRUE, ![s].putDown = TRUE])

-----------------------------------------------------------------------------
(* stop_idle, stop_all                                                     *)

\* Each looks at the slots there are, stop_all perhaps only at some.
SweepBegins(a) ==
    /\ a \in {Reaper} \cup LspStoppers /\ agent[a].at = "idle"
    /\ \E slots \in SUBSET LspKeys :
          /\ a = Reaper => slots = LspKeys
          /\ Does(a, [NoAgent EXCEPT !.at = "room", !.todo = slots])
    /\ SlotsKept /\ UNCHANGED server

\* stop_idle passes over slots that are busy, and servers that are not idle.
ReaperLooks(k) ==
    /\ agent[Reaper].at = "room" /\ k \in agent[Reaper].todo
    /\ \/ /\ slotLock[k] = NoLsp /\ slotServer[k] # NoLsp
          /\ Locks(Reaper, k)
          /\ Does(Reaper, [agent[Reaper] EXCEPT !.at = "ask", !.srv = slotServer[k], !.stops = k])
       \/ /\ Does(Reaper, [agent[Reaper] EXCEPT !.todo = @ \ {k}])
          /\ UNCHANGED slotLock
    /\ UNCHANGED <<slotServer, backoff, server>>

\* stop_all takes the slots in some order and waits for each lock.
StopperPicks(a, k) ==
    /\ a \in LspStoppers /\ agent[a].at = "room" /\ k \in agent[a].todo
    /\ Does(a, [agent[a] EXCEPT !.at = "lock", !.stops = k])
    /\ SlotsKept /\ UNCHANGED server

StopperLocks(a) ==
    LET k == agent[a].stops
    IN /\ a \in LspStoppers /\ agent[a].at = "lock" /\ slotLock[k] = NoLsp
       /\ \/ /\ slotServer[k] # NoLsp
             /\ Locks(a, k) /\ TakesServer(k)
             /\ Does(a, [agent[a] EXCEPT !.at = "ask", !.srv = slotServer[k]])
             /\ UNCHANGED backoff
          \/ /\ slotServer[k] = NoLsp
             /\ backoff' = backoff \ {k}
             /\ Does(a, [agent[a] EXCEPT !.at = "room", !.stops = NoLsp, !.todo = @ \ {k}])
             /\ UNCHANGED <<slotLock, slotServer>>
       /\ UNCHANGED server

SweepEnds(a) ==
    /\ a \in {Reaper} \cup LspStoppers /\ agent[a].at = "room" /\ agent[a].todo = {}
    /\ Does(a, NoAgent)
    /\ SlotsKept /\ UNCHANGED server

-----------------------------------------------------------------------------
(* Cancellations and the processes                                         *)

\* The future is dropped: a stopped task, a closed connection.
AgentCancelled(a) ==
    /\ a # Reaper /\ agent[a].at # "idle"
    /\ slotLock' = [k \in LspKeys |-> IF slotLock[k] = a THEN NoLsp ELSE slotLock[k]]
    /\ Does(a, NoAgent)
    /\ UNCHANGED <<slotServer, backoff>>
    /\ Processes(server)

ServerBecomes(s, from, to) ==
    /\ server[s].state \in from
    /\ server' = [server EXCEPT ![s].state = to, ![s].full = FALSE]
    /\ SlotsKept /\ UNCHANGED agent

ServerExits(s) == ServerBecomes(s, {"runs", "hung"}, "gone")
ServerHangs(s) == LspHangs /\ ServerBecomes(s, {"runs"}, "hung")
ServerGoesOn(s) == ServerBecomes(s, {"hung"}, "runs")

\* The reader stops at a frame it cannot read: mark_dead, and the process runs on.
ReaderFails(s) ==
    /\ s \in AliveServers
    /\ server' = [server EXCEPT ![s].dead = TRUE]
    /\ SlotsKept /\ UNCHANGED agent

BackoffPasses(k) ==
    /\ k \in backoff /\ backoff' = backoff \ {k}
    /\ UNCHANGED <<slotLock, slotServer, server, agent>>

StopNextStep(a) == StopAsks(a) \/ StopSaysExit(a) \/ StopKills(a)
AgentGoesOn(a) ==
    \/ ToolLocks(a) \/ ServerReady(a) \/ StartFails(a) \/ UseEnds(a)
    \/ \E s \in LspServers : ServerStarts(a, s)
    \/ \E k \in LspKeys : RoomNext(a, k)

ToolNext(a) == a \in LspTools /\ (AgentGoesOn(a) \/ StopNextStep(a))
ReaperNext == (\E k \in LspKeys : ReaperLooks(k)) \/ SweepEnds(Reaper) \/ StopNextStep(Reaper)
StopperNext(a) ==
    /\ a \in LspStoppers
    /\ StopperLocks(a) \/ SweepEnds(a) \/ StopNextStep(a) \/ \E k \in LspKeys : StopperPicks(a, k)

LanguageServersNext ==
    \/ \E a \in LspTools : ToolNext(a) \/ PipeFills(a) \/ \E k \in LspKeys : ToolWants(a, k)
    \/ ReaperNext
    \/ \E a \in Agents : StopperNext(a) \/ SweepBegins(a) \/ AgentCancelled(a)
    \/ \E s \in LspServers : ServerExits(s) \/ ServerHangs(s) \/ ServerGoesOn(s) \/ ReaderFails(s)
    \/ \E k \in LspKeys : BackoffPasses(k)

LanguageServersSpec == LanguageServersInit /\ [][LanguageServersNext]_lspVars

\* A future that is ready is polled, a lock is given to who waits for it, the timers
\* of a start, a request and a stop fire.  Servers owe nothing.
FairLanguageServers ==
    /\ LanguageServersSpec
    /\ \A a \in LspTools : SF_lspVars(ToolNext(a))
    /\ WF_lspVars(ReaperNext) /\ \A a \in LspStoppers : SF_lspVars(StopperNext(a))

-----------------------------------------------------------------------------
(* What the pool promises                                                  *)

\* A slot holds no server of another key, no backoff with a server, and none
\* that was stopped on purpose, which would count as a crash.  A start holds the lock
\* of its slot, and the slot is empty, so a project and language never starts two
\* (lsp/mod.rs Pool::client, make_room, stop_idle, stop_all; client.rs Client::drop).
ServersAgree ==
    /\ LspTypes
    /\ \A k \in LspKeys :
          slotServer[k] # NoLsp =>
              /\ server[slotServer[k]].key = k /\ k \notin backoff
              /\ ~server[slotServer[k]].putDown
    /\ \A a \in Agents : agent[a].at = "start" =>
          /\ slotLock[agent[a].slot] = a
          /\ slotServer[agent[a].slot] = NoLsp

-----------------------------------------------------------------------------
(* What a comment says and the code does not do                            *)

\* "Ask the server to exit, then make sure it does."
ShutdownMakesSure ==
    \A a \in Agents : agent[a].at \in {"ask", "exit", "poll"} ~>
                          agent[a].at \notin {"ask", "exit", "poll"}

\* The stops and uses of servers that read what they are sent end.
LspOpsEnd ==
    \A a \in Agents : agent[a].at # "idle" ~>
                          agent[a].at = "idle" \/ \E s \in LspServers : Stuck(s)
=============================================================================
