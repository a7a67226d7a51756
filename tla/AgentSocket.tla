---------------------------- MODULE AgentSocket ----------------------------
(***************************************************************************)
(* The socket on which agents announce: the servers of several worker      *)
(* processes on one path (worker/agent_socket.py), and the clients that    *)
(* connect, send once and wait (bin/yap).                                  *)
(*                                                                         *)
(* One worker follows the other, but a killed one leaves its path behind,  *)
(* and a restarted shell starts a worker while that of the old shell still *)
(* lives or is on its way out.  Every access to the path is a step of its  *)
(* own.  A server binds once, so the inode that it creates is named for    *)
(* it; inode numbers are taken not to be used again.                       *)
(*                                                                         *)
(* Abstracted: owner and permissions of path and peer are those of the     *)
(* user; the connection of a probe, which the probed server accepts and    *)
(* finds empty; a frame is well formed or not; the order of the backlog.   *)
(***************************************************************************)
EXTENDS Naturals, FiniteSets

CONSTANTS Servers,   \* worker processes, each with the one server that it starts
          Clients,   \* runs of bin/yap
          Backlog    \* BACKLOG: so many may wait, and one more

ASSUME BacklogAssumption == Backlog \in Nat

CONSTANTS NoFile,    \* there is nothing at the path
          Stale,     \* the inode of a worker that died before
          NoOne      \* no client

ASSUME PathAssumption ==
  /\ NoFile # Stale
  /\ {NoFile, Stale} \cap Servers = {}
  /\ NoOne \notin Clients

VARIABLES
  path,          \* what is at the path: an inode, or nothing
  phase,         \* the main thread of each server
  seen,          \* the inode of the first lstat of _remove_stale_socket
  identity,      \* _path_identity
  listening,     \* the servers with a listening socket
  backlog,       \* the clients that each server has not accepted
  thread, peer, response,            \* _serve and _handle_connection
  step, link, sent, reply, verdict,  \* _request of each client
  admitted,      \* history: how often a worker claimed the announcement
  met,           \* history: who else was alive while a server started
  raced          \* history: who else was starting or removing meanwhile

paths == <<path, seen, identity>>
serving == <<thread, peer, response>>
client == <<step, link, sent, verdict>>
history == <<met, raced>>
vars == <<paths, phase, listening, backlog, serving, client, reply, admitted, history>>

Inodes == Servers \union {Stale}
Starting == {"stat", "probe", "recheck", "remove", "bind", "chmod", "listen", "record"}
Closing == {"leaving", "joining", "check", "unlink"}
Ended == {"failed", "closed", "killed"}
Phases == {"off", "serving"} \union Starting \union Closing \union Ended
IsAlive(p) == p \notin Ended \union {"off"}
(* Phases that act, or are about to, on what was seen of the path before.  *)
IsHasty(p) == p \in Starting \union {"unlink"}

Codes == {"ok", "refused", "request-failed"}   \* fixed acknowledgements
NoReply == "none"
Verdicts == Codes \union {NoReply, "prepare-failed", "worker-unavailable"}

Init ==
  /\ path \in {NoFile, Stale}
  /\ phase = [s \in Servers |-> "off"]
  /\ seen = [s \in Servers |-> NoFile] /\ identity = [s \in Servers |-> NoFile]
  /\ listening = {} /\ backlog = [s \in Servers |-> {}]
  /\ thread = [s \in Servers |-> "none"]
  /\ peer = [s \in Servers |-> NoOne] /\ response = [s \in Servers |-> NoReply]
  /\ step = [c \in Clients |-> "prepare"] /\ link = [c \in Clients |-> NoFile]
  /\ sent = [c \in Clients |-> FALSE] /\ reply = [c \in Clients |-> NoReply]
  /\ verdict = [c \in Clients |-> NoReply]
  /\ admitted = [c \in Clients |-> 0]
  /\ met = [s \in Servers |-> {}] /\ raced = [s \in Servers |-> {}]

(***************************************************************************)
(* A worker starts its server.  The history is kept with every phase that  *)
(* is entered.                                                             *)
(***************************************************************************)
Enter(s, p) ==
  LET next == [phase EXCEPT ![s] = p]
      Others(t, Which(_)) == {u \in Servers \ {t} : next[t] \in Starting /\ Which(next[u])}
  IN  /\ phase' = next
      /\ met' = [t \in Servers |-> met[t] \union Others(t, IsAlive)]
      /\ raced' = [t \in Servers |-> raced[t] \union Others(t, IsHasty)]

Boot(s) ==
  /\ phase[s] = "off"
  /\ Enter(s, "stat")
  /\ UNCHANGED <<paths, listening, backlog, serving, client, reply, admitted>>

(* _remove_stale_socket: what is there                                     *)
StatPath(s) ==
  /\ phase[s] = "stat"
  /\ seen' = [seen EXCEPT ![s] = path]
  /\ Enter(s, IF path = NoFile THEN "bind" ELSE "probe")
  /\ UNCHANGED <<path, identity, listening, backlog, serving, client, reply, admitted>>

(* Mutation: a busy server, whose backlog is full, is taken for stale. *)
ProbeImpatiently(s) ==
  /\ phase[s] = "probe"
  /\ Enter(s, IF path \in listening /\ Cardinality(backlog[path]) <= Backlog
               THEN "failed" ELSE "recheck")
  /\ UNCHANGED <<paths, listening, backlog, serving, client, reply, admitted>>

(* ... whether somebody listens to it: a full backlog counts as that       *)
Probe(s) ==
  /\ phase[s] = "probe"
  /\ Enter(s, IF path \in listening THEN "failed" ELSE "recheck")
  /\ UNCHANGED <<paths, listening, backlog, serving, client, reply, admitted>>

(* Mutation: a stale path is left to bind. *)
RecheckOnly(s) ==
  /\ phase[s] = "recheck"
  /\ Enter(s, "bind")
  /\ seen' = [seen EXCEPT ![s] = NoFile]
  /\ UNCHANGED <<path, identity, listening, backlog, serving, client, reply, admitted>>

(* ... whether it is still the same                                        *)
Recheck(s) ==
  /\ phase[s] = "recheck"
  /\ Enter(s, IF path = seen[s] THEN "remove" ELSE "bind")
  /\ seen' = [seen EXCEPT ![s] = NoFile]
  /\ UNCHANGED <<path, identity, listening, backlog, serving, client, reply, admitted>>

(* ... and its removal, of whatever is there by then.                      *)
RemoveStale(s) ==
  /\ phase[s] = "remove"
  /\ path' = NoFile
  /\ Enter(s, "bind")
  /\ UNCHANGED <<seen, identity, listening, backlog, serving, client, reply, admitted>>

(* start: bind, chmod, listen, lstat.  A failed start closes its listener  *)
(* and ends the process, without close.                                    *)
Bind(s) ==
  /\ phase[s] = "bind"
  /\ IF path = NoFile THEN path' = s /\ Enter(s, "chmod")
                      ELSE path' = path /\ Enter(s, "failed")
  /\ UNCHANGED <<seen, identity, listening, backlog, serving, client, reply, admitted>>

Chmod(s) ==
  /\ phase[s] = "chmod"
  /\ Enter(s, IF path = NoFile THEN "failed" ELSE "listen")
  /\ UNCHANGED <<paths, listening, backlog, serving, client, reply, admitted>>

Listen(s) ==
  /\ phase[s] = "listen"
  /\ listening' = listening \union {s}
  /\ Enter(s, "record")
  /\ UNCHANGED <<paths, backlog, serving, client, reply, admitted>>

Record(s) ==
  /\ phase[s] = "record"
  /\ IF path = NoFile
       THEN /\ Enter(s, "failed")
            /\ listening' = listening \ {s}
            /\ backlog' = [backlog EXCEPT ![s] = {}]
            /\ UNCHANGED <<identity, thread>>
       ELSE /\ Enter(s, "serving")
            /\ identity' = [identity EXCEPT ![s] = path]
            /\ thread' = [thread EXCEPT ![s] = "accept"]
            /\ UNCHANGED <<listening, backlog>>
  /\ UNCHANGED <<path, seen, peer, response, client, reply, admitted>>

(***************************************************************************)
(* The worker ends: shutdown, then close.  The listener's file stays open  *)
(* while the thread is still waiting for it, at most a quarter second.     *)
(***************************************************************************)
BeginExit(s) ==
  /\ phase[s] = "serving"
  /\ Enter(s, "leaving")
  /\ UNCHANGED <<paths, listening, backlog, serving, client, reply, admitted>>

(* The socket of s is gone, and with it who waited there.                  *)
Unlisten(s) ==
  /\ listening' = listening \ {s}
  /\ backlog' = [backlog EXCEPT ![s] = {}]

CloseListener(s) ==
  /\ phase[s] = "leaving"
  /\ Enter(s, "joining")
  /\ IF thread[s] = "accept" THEN UNCHANGED <<listening, backlog>> ELSE Unlisten(s)
  /\ UNCHANGED <<paths, serving, client, reply, admitted>>

(* The thread has left, or a second has passed.                            *)
Join(s) ==
  /\ phase[s] = "joining"
  /\ Enter(s, "check")
  /\ UNCHANGED <<paths, listening, backlog, serving, client, reply, admitted>>

(* The process is gone, with its thread, its connections and its socket.   *)
EndProcess(s, p) ==
  /\ Enter(s, p)
  /\ Unlisten(s)
  /\ thread' = [thread EXCEPT ![s] = "none"]
  /\ peer' = [peer EXCEPT ![s] = NoOne]
  /\ response' = [response EXCEPT ![s] = NoReply]
  /\ seen' = [seen EXCEPT ![s] = NoFile]
  /\ identity' = [identity EXCEPT ![s] = NoFile]

(* Mutation: the path is only cleared after a thread that has left. *)
CheckOwnIfJoined(s) ==
  /\ phase[s] = "check"
  /\ IF path = identity[s] /\ thread[s] = "none"
       THEN Enter(s, "unlink") /\ UNCHANGED <<seen, identity, listening, backlog, serving>>
       ELSE EndProcess(s, "closed")
  /\ UNCHANGED <<path, client, reply, admitted>>

(* close: whether the path is still that of this server                    *)
CheckOwn(s) ==
  /\ phase[s] = "check"
  /\ IF path = identity[s]
       THEN Enter(s, "unlink") /\ UNCHANGED <<seen, identity, listening, backlog, serving>>
       ELSE EndProcess(s, "closed")
  /\ UNCHANGED <<path, client, reply, admitted>>

Unlink(s) ==
  /\ phase[s] = "unlink"
  /\ path' = NoFile
  /\ EndProcess(s, "closed")
  /\ UNCHANGED <<client, reply, admitted>>

(* The process is killed, and its path stays.                              *)
Kill(s) ==
  /\ IsAlive(phase[s])
  /\ EndProcess(s, "killed")
  /\ UNCHANGED <<path, client, reply, admitted>>

(***************************************************************************)
(* _serve: one connection after the other.                                 *)
(***************************************************************************)
unchangedByServing == <<paths, phase, listening, client, history>>

Accept(s) ==
  /\ thread[s] = "accept" /\ phase[s] \in {"serving", "leaving"}
  /\ \E c \in backlog[s] :
       /\ backlog' = [backlog EXCEPT ![s] = @ \ {c}]
       /\ peer' = [peer EXCEPT ![s] = c]
  /\ thread' = [thread EXCEPT ![s] = "read"]
  /\ UNCHANGED <<response, reply, admitted, unchangedByServing>>

(* _read_frame and _decode_request: a request, or nothing of use: a client *)
(* that is slow or gone.                                                   *)
ReadFrame(s) ==
  /\ thread[s] = "read"
  /\ \/ /\ sent[peer[s]]
        /\ thread' = [thread EXCEPT ![s] = "handle"]
        /\ UNCHANGED response
     \/ /\ ~sent[peer[s]]
        /\ thread' = [thread EXCEPT ![s] = "write"]
        /\ response' = [response EXCEPT ![s] = "refused"]
  /\ UNCHANGED <<peer, backlog, reply, admitted, unchangedByServing>>

Respond(s, code) ==
  /\ thread' = [thread EXCEPT ![s] = "write"]
  /\ response' = [response EXCEPT ![s] = code]

(* The handler of the worker, which refuses the announcement or claims it, *)
(* and may fail before or after it has.                                    *)
Handle(s) ==
  /\ thread[s] = "handle"
  /\ \/ \E code \in {"refused", "request-failed"} :
          Respond(s, code) /\ UNCHANGED admitted
     \/ \E code \in {"ok", "request-failed"} :
          /\ Respond(s, code)
          /\ admitted' = [admitted EXCEPT ![peer[s]] = @ + 1]
  /\ UNCHANGED <<peer, backlog, reply, unchangedByServing>>

(* The acknowledgement, which a client that has gone does not get.         *)
WriteReply(s) ==
  /\ thread[s] = "write"
  /\ reply' = [reply EXCEPT ![peer[s]] = response[s]]
  /\ peer' = [peer EXCEPT ![s] = NoOne]
  /\ response' = [response EXCEPT ![s] = NoReply]
  /\ thread' = [thread EXCEPT ![s] = "accept"]
  /\ UNCHANGED <<backlog, admitted, unchangedByServing>>

(* accept returns, finds its listener closed, and the loop is left.        *)
ThreadLeaves(s) ==
  /\ thread[s] = "accept" /\ phase[s] \in {"joining", "check", "unlink"}
  /\ thread' = [thread EXCEPT ![s] = "none"]
  /\ Unlisten(s)
  /\ UNCHANGED <<paths, phase, peer, response, client, reply, admitted, history>>

(***************************************************************************)
(* bin/yap: prepareExternal, connect with retries, one send, one bounded   *)
(* response.                                                               *)
(***************************************************************************)
unchangedByClient == <<paths, phase, listening, serving, reply, admitted, history>>

Goto(c, at) == step' = [step EXCEPT ![c] = at] /\ UNCHANGED verdict

(* The client exits with a code, and its connection is closed.             *)
Report(c, code) ==
  /\ step' = [step EXCEPT ![c] = "done"]
  /\ verdict' = [verdict EXCEPT ![c] = code]

(* _prepare_external: the service has a worker, or will not have one       *)
Prepare(c) ==
  /\ step[c] = "prepare"
  /\ Goto(c, "connect") \/ Report(c, "prepare-failed")
  /\ UNCHANGED <<link, sent, backlog, unchangedByClient>>

Connect(c) ==
  /\ step[c] = "connect"
  /\ path \in listening /\ Cardinality(backlog[path]) <= Backlog
  /\ link' = [link EXCEPT ![c] = path]
  /\ backlog' = [backlog EXCEPT ![path] = @ \union {c}]
  /\ Goto(c, "send")
  /\ UNCHANGED <<sent, unchangedByClient>>

(* Mutation: the deadline only counts while there is no socket. *)
GiveUpIfAbsent(c) ==
  /\ step[c] = "connect" /\ path = NoFile
  /\ Report(c, "worker-unavailable")
  /\ UNCHANGED <<link, sent, backlog, unchangedByClient>>

(* CONNECT_DEADLINE has passed.                                            *)
GiveUp(c) ==
  /\ step[c] = "connect"
  /\ Report(c, "worker-unavailable")
  /\ UNCHANGED <<link, sent, backlog, unchangedByClient>>

(* Some server has the other end.                                          *)
Connected(c) == link[c] \in Servers /\ (c \in backlog[link[c]] \/ peer[link[c]] = c)

Send(c) ==
  /\ step[c] = "send"
  /\ IF Connected(c) THEN sent' = [sent EXCEPT ![c] = TRUE] /\ Goto(c, "receive")
                     ELSE sent' = sent /\ Report(c, "request-failed")
  /\ UNCHANGED <<link, backlog, unchangedByClient>>

(* Mutation: a connection that ends without an answer is tried again. *)
ReceiveOrRetry(c) ==
  /\ step[c] = "receive"
  /\ IF reply[c] # NoReply THEN Report(c, reply[c])
     ELSE ~Connected(c) /\ Goto(c, "connect")
  /\ UNCHANGED <<link, sent, backlog, unchangedByClient>>

(* The answer, or the end of a connection without one.                     *)
Receive(c) ==
  /\ step[c] = "receive"
  /\ IF reply[c] # NoReply THEN Report(c, reply[c])
     ELSE ~Connected(c) /\ Report(c, "request-failed")
  /\ UNCHANGED <<link, sent, backlog, unchangedByClient>>

(* RESPONSE_TIMEOUT has passed.                                            *)
TimeOut(c) ==
  /\ step[c] = "receive"
  /\ Report(c, "request-failed")
  /\ UNCHANGED <<link, sent, backlog, unchangedByClient>>

(***************************************************************************)
(* The system.                                                             *)
(***************************************************************************)
Start(s) ==
  \/ StatPath(s) \/ Probe(s) \/ Recheck(s) \/ RemoveStale(s)
  \/ Bind(s) \/ Chmod(s) \/ Listen(s) \/ Record(s)
Close(s) == CloseListener(s) \/ Join(s) \/ CheckOwn(s) \/ Unlink(s)
Serve(s) == Accept(s) \/ ReadFrame(s) \/ Handle(s) \/ WriteReply(s) \/ ThreadLeaves(s)
Request(c) ==
  Prepare(c) \/ Connect(c) \/ GiveUp(c) \/ Send(c) \/ Receive(c) \/ TimeOut(c)

Next ==
  \/ \E s \in Servers : Boot(s) \/ Start(s) \/ BeginExit(s) \/ Close(s) \/ Serve(s) \/ Kill(s)
  \/ \E c \in Clients : Request(c)

Spec == Init /\ [][Next]_vars

(* Threads and processes run, and deadlines pass.  Nothing is assumed of   *)
(* who starts, ends or kills a worker.                                     *)
Fairness ==
  /\ \A s \in Servers : WF_vars(Start(s)) /\ WF_vars(Close(s)) /\ WF_vars(Serve(s))
  /\ \A c \in Clients : WF_vars(Request(c))

FairSpec == Spec /\ Fairness

(***************************************************************************)
(* Properties.                                                             *)
(***************************************************************************)

(* Every variable has its type; a thread has a connection while it handles *)
(* one, and a response while it writes that.                               *)
TypeOK ==
  /\ path \in Inodes \union {NoFile}
  /\ phase \in [Servers -> Phases]
  /\ seen \in [Servers -> Inodes \union {NoFile}]
  /\ identity \in [Servers -> Inodes \union {NoFile}]
  /\ listening \subseteq Servers
  /\ backlog \in [Servers -> SUBSET Clients]
  /\ thread \in [Servers -> {"none", "accept", "read", "handle", "write"}]
  /\ peer \in [Servers -> Clients \union {NoOne}]
  /\ response \in [Servers -> Codes \union {NoReply}]
  /\ \A s \in Servers : /\ peer[s] # NoOne <=> thread[s] \in {"read", "handle", "write"}
                        /\ response[s] # NoReply <=> thread[s] = "write"
  /\ step \in [Clients -> {"prepare", "connect", "send", "receive", "done"}]
  /\ link \in [Clients -> Servers \union {NoFile}]
  /\ sent \in [Clients -> BOOLEAN]
  /\ reply \in [Clients -> Codes \union {NoReply}]
  /\ verdict \in [Clients -> Verdicts]
  /\ admitted \in [Clients -> Nat]
  /\ met \in [Servers -> SUBSET Servers] /\ raced \in [Servers -> SUBSET Servers]

(* A worker whose server has started is the one that clients reach, unless *)
(* another was starting or removing its path while it started: stale paths,*)
(* kills, and servers that serve, end or are long gone do not cut it off.  *)
ReachableUnlessRaced ==
  \A s \in Servers : phase[s] = "serving" /\ raced[s] = {} => path = s

(* A start fails only for another worker that was alive meanwhile: what a  *)
(* killed worker leaves behind never keeps announcements from the next.    *)
StartFailsOnlyForOthers ==
  \A s \in Servers : phase[s] = "failed" => met[s] # {}

(* A worker that ends in order, or whose server failed to start, leaves no *)
(* path of its own, whoever else was at it: close compares with an inode   *)
(* that start read only after bind.                                        *)
ClosedLeavesNoPath ==
  \A s \in Servers : phase[s] \in {"closed", "failed"} => path # s

(* What the client reports is so: success, that a worker has claimed the   *)
(* announcement, a refusal, that none has and none will.  request-failed   *)
(* is the only code that leaves it open.                                   *)
VerdictIsTrue ==
  \A c \in Clients :
    /\ verdict[c] = "ok" => admitted[c] = 1
    /\ verdict[c] \in {"refused", "prepare-failed", "worker-unavailable"} => admitted[c] = 0

(* No announcement is claimed twice, by one worker or by two: the client   *)
(* sends once, and repeats nothing but the attempt to connect.             *)
ClaimedOnce ==
  \A c \in Clients : admitted[c] <= 1

(* What an agent may rely on when its client has ended.                    *)
ClientsInv == TypeOK /\ VerdictIsTrue /\ ClaimedOnce

(* Every client ends, whatever becomes of the workers.                     *)
ClientsEnd ==
  \A c \in Clients : step[c] # "done" ~> step[c] = "done"

(***************************************************************************)
(* What the code says of itself and does not keep: counterexamples are in  *)
(* README.md.                                                              *)
(***************************************************************************)

(* "Remove only a stale same-UID socket": one that no worker has, or is    *)
(* about to serve.                                                         *)
OnlyStaleRemoved ==
  [][\A s, t \in Servers :
       RemoveStale(s) /\ path = t => phase[t] \notin Starting \union {"serving"}]_vars

(* An announcement that was accepted was accepted by a worker that serves. *)
AcceptedIsServed ==
  [][\A s \in Servers : Handle(s) /\ response'[s] = "ok" => phase[s] = "serving"]_vars
============================================================================
