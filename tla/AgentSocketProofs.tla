-------------------------- MODULE AgentSocketProofs --------------------------
(***************************************************************************)
(* Theorems about AgentSocket, for any number of workers and clients, and  *)
(* every backlog.                                                          *)
(***************************************************************************)
EXTENDS AgentSocket, TLAPS

(***************************************************************************)
(* The path.                                                               *)
(***************************************************************************)
ServerTypes ==
  /\ path \in Inodes \union {NoFile}
  /\ phase \in [Servers -> Phases]
  /\ seen \in [Servers -> Inodes \union {NoFile}]
  /\ identity \in [Servers -> Inodes \union {NoFile}]
  /\ listening \subseteq Servers
  /\ met \in [Servers -> SUBSET Servers] /\ raced \in [Servers -> SUBSET Servers]

(* While a server starts, its history names everybody who could be in its  *)
(* way.                                                                    *)
HistoryInv ==
  \A s, t \in Servers :
    s # t /\ phase[s] \in Starting =>
      /\ IsAlive(phase[t]) => t \in met[s]
      /\ IsHasty(phase[t]) => t \in raced[s]

Unbound == {"off", "stat", "probe", "recheck", "remove", "bind"}
Bound == {"chmod", "listen", "record"}

(* Who listens is alive, and a server listens from listen on; who has not  *)
(* bound has no path, and who closes knows its own.                        *)
BoundInv ==
  \A s \in Servers :
    /\ s \in listening => phase[s] \in {"record", "serving"} \union Closing
    /\ phase[s] \in {"record", "serving"} => s \in listening
    /\ phase[s] \in Unbound \union {"closed", "failed"} => path # s
    /\ phase[s] \in {"serving"} \union Closing /\ path = s => identity[s] = s

(* As long as nobody else is met, the path is as the server has found or   *)
(* has left it, and the start does not fail.                               *)
AloneInv ==
  \A s \in Servers :
    /\ met[s] = {} =>
         /\ phase[s] \in {"probe", "recheck"} => path = seen[s]
         /\ phase[s] = "bind" => path = NoFile
         /\ phase[s] \in Bound => path = s
    /\ phase[s] = "failed" => met[s] # {}

(* Who has, or may record, the path of another was in its way while that   *)
(* one started.                                                            *)
TakenInv ==
  \A s, t \in Servers :
    s # t =>
      /\ path = s /\ phase[t] \in Bound => t \in raced[s]
      /\ identity[t] = s => t \in raced[s]

(* A server that nobody raced keeps its path: from when it serves on, who  *)
(* starts finds it at the probe, and nobody is about to remove anything.   *)
KeptInv ==
  \A s \in Servers :
    raced[s] = {} =>
      /\ phase[s] \in Bound \union {"serving"} => path = s
      /\ phase[s] = "serving" =>
           \A t \in Servers \ {s} : phase[t] \notin {"recheck", "remove", "bind", "unlink"}

ServerInv ==
  ServerTypes /\ HistoryInv /\ BoundInv /\ AloneInv /\ TakenInv /\ KeptInv

(* Nothing at the path is a server or a client. *)
LEMMA Names ==
  /\ NoFile \notin Servers /\ Stale \notin Servers /\ NoFile # Stale
  /\ Servers \subseteq Inodes /\ Stale \in Inodes /\ NoFile \notin Inodes
  /\ NoOne \notin Clients
  BY PathAssumption DEF Inodes

(* A phase that is entered keeps the history complete, and forgets nothing. *)
LEMMA EnterKeeps ==
  ASSUME ServerTypes, HistoryInv, NEW s \in Servers, NEW p \in Phases, Enter(s, p)
  PROVE  /\ phase' = [phase EXCEPT ![s] = p]
         /\ met' \in [Servers -> SUBSET Servers] /\ raced' \in [Servers -> SUBSET Servers]
         /\ \A t \in Servers : met[t] \subseteq met'[t] /\ raced[t] \subseteq raced'[t]
         /\ phase' \in [Servers -> Phases]
         /\ HistoryInv'
<1>1. phase' = [phase EXCEPT ![s] = p]
  BY DEF Enter
<1>2. phase' \in [Servers -> Phases]
  BY <1>1 DEF ServerTypes
<1>3. /\ met' = [t \in Servers |-> met[t] \union
                   {u \in Servers \ {t} : phase'[t] \in Starting /\ IsAlive(phase'[u])}]
      /\ raced' = [t \in Servers |-> raced[t] \union
                   {u \in Servers \ {t} : phase'[t] \in Starting /\ IsHasty(phase'[u])}]
  BY DEF Enter
<1>4. met' \in [Servers -> SUBSET Servers] /\ raced' \in [Servers -> SUBSET Servers]
  BY <1>3 DEF ServerTypes
<1>5. \A t \in Servers : met[t] \subseteq met'[t] /\ raced[t] \subseteq raced'[t]
  BY <1>3
<1>6. HistoryInv'
  BY <1>3 DEF HistoryInv
<1> QED
  BY <1>1, <1>2, <1>4, <1>5, <1>6

(* The invariant holds at the start. *)
LEMMA ServerInit == Init => ServerInv
  BY Names DEF Init, ServerInv, ServerTypes, HistoryInv, BoundInv, AloneInv, TakenInv, KeptInv,
     Phases, Starting, Closing, Ended, Bound, Unbound, Inodes, IsAlive, IsHasty

(* The invariant is kept by every step of a server's main thread. *)
LEMMA MainStep ==
  ASSUME ServerInv, NEW s \in Servers,
         Boot(s) \/ Start(s) \/ BeginExit(s) \/ Close(s) \/ Kill(s)
  PROVE  ServerInv'
<1> USE Names DEF ServerInv, ServerTypes, Inodes, Phases, Starting, Closing, Ended, Bound, Unbound,
             IsAlive, IsHasty, paths, Unlisten, EndProcess
<1>1. CASE Boot(s)
  <2>1. PICK p \in Phases : Enter(s, p)
    BY <1>1 DEF Boot
  <2>2. /\ phase' = [phase EXCEPT ![s] = p]
        /\ met' \in [Servers -> SUBSET Servers] /\ raced' \in [Servers -> SUBSET Servers]
        /\ \A t \in Servers : met[t] \subseteq met'[t] /\ raced[t] \subseteq raced'[t]
        /\ phase' \in [Servers -> Phases]
        /\ HistoryInv'
    BY <2>1, EnterKeeps
  <2>3. ServerTypes'
    BY <1>1, <2>2 DEF Boot
  <2>4. BoundInv'
    BY <1>1, <2>2 DEF Boot, Enter, BoundInv
  <2>5. AloneInv'
    BY <1>1, <2>2 DEF Boot, Enter, AloneInv, BoundInv, HistoryInv
  <2>6. TakenInv'
    BY <1>1, <2>2 DEF Boot, Enter, TakenInv, BoundInv, HistoryInv
  <2>7. KeptInv'
    BY <1>1, <2>2 DEF Boot, KeptInv, Enter, TakenInv, BoundInv, HistoryInv
  <2> QED
    BY <2>2, <2>3, <2>4, <2>5, <2>6, <2>7
<1>2. CASE StatPath(s)
  <2>1. PICK p \in Phases : Enter(s, p)
    BY <1>2 DEF StatPath
  <2>2. /\ phase' = [phase EXCEPT ![s] = p]
        /\ met' \in [Servers -> SUBSET Servers] /\ raced' \in [Servers -> SUBSET Servers]
        /\ \A t \in Servers : met[t] \subseteq met'[t] /\ raced[t] \subseteq raced'[t]
        /\ phase' \in [Servers -> Phases]
        /\ HistoryInv'
    BY <2>1, EnterKeeps
  <2>3. ServerTypes'
    BY <1>2, <2>2 DEF StatPath
  <2>4. BoundInv'
    BY <1>2, <2>2 DEF StatPath, Enter, BoundInv
  <2>5. AloneInv'
    BY <1>2, <2>2 DEF StatPath, Enter, AloneInv, BoundInv, HistoryInv
  <2>6. TakenInv'
    BY <1>2, <2>2 DEF StatPath, Enter, TakenInv, BoundInv, HistoryInv
  <2>7. KeptInv'
    BY <1>2, <2>2 DEF StatPath, KeptInv, Enter, TakenInv, BoundInv, HistoryInv
  <2> QED
    BY <2>2, <2>3, <2>4, <2>5, <2>6, <2>7
<1>3. CASE Probe(s)
  <2>1. PICK p \in Phases : Enter(s, p)
    BY <1>3 DEF Probe
  <2>2. /\ phase' = [phase EXCEPT ![s] = p]
        /\ met' \in [Servers -> SUBSET Servers] /\ raced' \in [Servers -> SUBSET Servers]
        /\ \A t \in Servers : met[t] \subseteq met'[t] /\ raced[t] \subseteq raced'[t]
        /\ phase' \in [Servers -> Phases]
        /\ HistoryInv'
    BY <2>1, EnterKeeps
  <2>3. ServerTypes'
    BY <1>3, <2>2 DEF Probe
  <2>4. BoundInv'
    BY <1>3, <2>2 DEF Probe, Enter, BoundInv
  <2>5. AloneInv'
    BY <1>3, <2>2 DEF Probe, Enter, AloneInv, BoundInv, HistoryInv
  <2>6. TakenInv'
    BY <1>3, <2>2 DEF Probe, Enter, TakenInv, BoundInv, HistoryInv
  <2>7. KeptInv'
    BY <1>3, <2>2 DEF Probe, KeptInv, Enter, TakenInv, BoundInv, HistoryInv
  <2> QED
    BY <2>2, <2>3, <2>4, <2>5, <2>6, <2>7
<1>4. CASE Recheck(s)
  <2>1. PICK p \in Phases : Enter(s, p)
    BY <1>4 DEF Recheck
  <2>2. /\ phase' = [phase EXCEPT ![s] = p]
        /\ met' \in [Servers -> SUBSET Servers] /\ raced' \in [Servers -> SUBSET Servers]
        /\ \A t \in Servers : met[t] \subseteq met'[t] /\ raced[t] \subseteq raced'[t]
        /\ phase' \in [Servers -> Phases]
        /\ HistoryInv'
    BY <2>1, EnterKeeps
  <2>3. ServerTypes'
    BY <1>4, <2>2 DEF Recheck
  <2>4. BoundInv'
    BY <1>4, <2>2 DEF Recheck, Enter, BoundInv
  <2>5. AloneInv'
    BY <1>4, <2>2 DEF Recheck, Enter, AloneInv, BoundInv, HistoryInv
  <2>6. TakenInv'
    BY <1>4, <2>2 DEF Recheck, Enter, TakenInv, BoundInv, HistoryInv
  <2>7. KeptInv'
    BY <1>4, <2>2 DEF Recheck, KeptInv, Enter, TakenInv, BoundInv, HistoryInv
  <2> QED
    BY <2>2, <2>3, <2>4, <2>5, <2>6, <2>7
<1>5. CASE RemoveStale(s)
  <2>1. PICK p \in Phases : Enter(s, p)
    BY <1>5 DEF RemoveStale
  <2>2. /\ phase' = [phase EXCEPT ![s] = p]
        /\ met' \in [Servers -> SUBSET Servers] /\ raced' \in [Servers -> SUBSET Servers]
        /\ \A t \in Servers : met[t] \subseteq met'[t] /\ raced[t] \subseteq raced'[t]
        /\ phase' \in [Servers -> Phases]
        /\ HistoryInv'
    BY <2>1, EnterKeeps
  <2>3. ServerTypes'
    BY <1>5, <2>2 DEF RemoveStale
  <2>4. BoundInv'
    BY <1>5, <2>2 DEF RemoveStale, Enter, BoundInv
  <2>5. AloneInv'
    BY <1>5, <2>2 DEF RemoveStale, Enter, AloneInv, BoundInv, HistoryInv
  <2>6. TakenInv'
    BY <1>5, <2>2 DEF RemoveStale, Enter, TakenInv, BoundInv, HistoryInv
  <2>7. KeptInv'
    BY <1>5, <2>2 DEF RemoveStale, KeptInv, Enter, TakenInv, BoundInv, HistoryInv
  <2> QED
    BY <2>2, <2>3, <2>4, <2>5, <2>6, <2>7
<1>6. CASE Bind(s)
  <2>1. PICK p \in Phases : Enter(s, p)
    BY <1>6 DEF Bind
  <2>2. /\ phase' = [phase EXCEPT ![s] = p]
        /\ met' \in [Servers -> SUBSET Servers] /\ raced' \in [Servers -> SUBSET Servers]
        /\ \A t \in Servers : met[t] \subseteq met'[t] /\ raced[t] \subseteq raced'[t]
        /\ phase' \in [Servers -> Phases]
        /\ HistoryInv'
    BY <2>1, EnterKeeps
  <2>3. ServerTypes'
    BY <1>6, <2>2 DEF Bind
  <2>4. BoundInv'
    BY <1>6, <2>2 DEF Bind, Enter, BoundInv
  <2>5. AloneInv'
    BY <1>6, <2>2 DEF Bind, Enter, AloneInv, BoundInv, HistoryInv
  <2>6. TakenInv'
    BY <1>6, <2>2 DEF Bind, Enter, TakenInv, BoundInv, HistoryInv
  <2>7. KeptInv'
    BY <1>6, <2>2 DEF Bind, KeptInv, Enter, TakenInv, BoundInv, HistoryInv
  <2> QED
    BY <2>2, <2>3, <2>4, <2>5, <2>6, <2>7
<1>7. CASE Chmod(s)
  <2>1. PICK p \in Phases : Enter(s, p)
    BY <1>7 DEF Chmod
  <2>2. /\ phase' = [phase EXCEPT ![s] = p]
        /\ met' \in [Servers -> SUBSET Servers] /\ raced' \in [Servers -> SUBSET Servers]
        /\ \A t \in Servers : met[t] \subseteq met'[t] /\ raced[t] \subseteq raced'[t]
        /\ phase' \in [Servers -> Phases]
        /\ HistoryInv'
    BY <2>1, EnterKeeps
  <2>3. ServerTypes'
    BY <1>7, <2>2 DEF Chmod
  <2>4. BoundInv'
    BY <1>7, <2>2 DEF Chmod, Enter, BoundInv
  <2>5. AloneInv'
    BY <1>7, <2>2 DEF Chmod, Enter, AloneInv, BoundInv, HistoryInv
  <2>6. TakenInv'
    BY <1>7, <2>2 DEF Chmod, Enter, TakenInv, BoundInv, HistoryInv
  <2>7. KeptInv'
    BY <1>7, <2>2 DEF Chmod, KeptInv, Enter, TakenInv, BoundInv, HistoryInv
  <2> QED
    BY <2>2, <2>3, <2>4, <2>5, <2>6, <2>7
<1>8. CASE Listen(s)
  <2>1. PICK p \in Phases : Enter(s, p)
    BY <1>8 DEF Listen
  <2>2. /\ phase' = [phase EXCEPT ![s] = p]
        /\ met' \in [Servers -> SUBSET Servers] /\ raced' \in [Servers -> SUBSET Servers]
        /\ \A t \in Servers : met[t] \subseteq met'[t] /\ raced[t] \subseteq raced'[t]
        /\ phase' \in [Servers -> Phases]
        /\ HistoryInv'
    BY <2>1, EnterKeeps
  <2>3. ServerTypes'
    BY <1>8, <2>2 DEF Listen
  <2>4. BoundInv'
    BY <1>8, <2>2 DEF Listen, Enter, BoundInv
  <2>5. AloneInv'
    BY <1>8, <2>2 DEF Listen, Enter, AloneInv, BoundInv, HistoryInv
  <2>6. TakenInv'
    BY <1>8, <2>2 DEF Listen, Enter, TakenInv, BoundInv, HistoryInv
  <2>7. KeptInv'
    BY <1>8, <2>2 DEF Listen, KeptInv, Enter, TakenInv, BoundInv, HistoryInv
  <2> QED
    BY <2>2, <2>3, <2>4, <2>5, <2>6, <2>7
<1>9. CASE Record(s)
  <2>1. PICK p \in Phases : Enter(s, p)
    BY <1>9 DEF Record
  <2>2. /\ phase' = [phase EXCEPT ![s] = p]
        /\ met' \in [Servers -> SUBSET Servers] /\ raced' \in [Servers -> SUBSET Servers]
        /\ \A t \in Servers : met[t] \subseteq met'[t] /\ raced[t] \subseteq raced'[t]
        /\ phase' \in [Servers -> Phases]
        /\ HistoryInv'
    BY <2>1, EnterKeeps
  <2>3. ServerTypes'
    BY <1>9, <2>2 DEF Record, paths
  <2>4. BoundInv'
    BY <1>9, <2>2 DEF Record, paths, Enter, BoundInv
  <2>5. AloneInv'
    BY <1>9, <2>2 DEF Record, paths, Enter, AloneInv, BoundInv, HistoryInv
  <2>6. TakenInv'
    BY <1>9, <2>2 DEF Record, paths, Enter, TakenInv, BoundInv, HistoryInv
  <2>7. KeptInv'
    BY <1>9, <2>2 DEF Record, paths, KeptInv, Enter, TakenInv, BoundInv, HistoryInv
  <2> QED
    BY <2>2, <2>3, <2>4, <2>5, <2>6, <2>7
<1>10. CASE BeginExit(s)
  <2>1. PICK p \in Phases : Enter(s, p)
    BY <1>10 DEF BeginExit
  <2>2. /\ phase' = [phase EXCEPT ![s] = p]
        /\ met' \in [Servers -> SUBSET Servers] /\ raced' \in [Servers -> SUBSET Servers]
        /\ \A t \in Servers : met[t] \subseteq met'[t] /\ raced[t] \subseteq raced'[t]
        /\ phase' \in [Servers -> Phases]
        /\ HistoryInv'
    BY <2>1, EnterKeeps
  <2>3. ServerTypes'
    BY <1>10, <2>2 DEF BeginExit
  <2>4. BoundInv'
    BY <1>10, <2>2 DEF BeginExit, Enter, BoundInv
  <2>5. AloneInv'
    BY <1>10, <2>2 DEF BeginExit, Enter, AloneInv, BoundInv, HistoryInv
  <2>6. TakenInv'
    BY <1>10, <2>2 DEF BeginExit, Enter, TakenInv, BoundInv, HistoryInv
  <2>7. KeptInv'
    BY <1>10, <2>2 DEF BeginExit, KeptInv, Enter, TakenInv, BoundInv, HistoryInv
  <2> QED
    BY <2>2, <2>3, <2>4, <2>5, <2>6, <2>7
<1>11. CASE CloseListener(s)
  <2>1. PICK p \in Phases : Enter(s, p)
    BY <1>11 DEF CloseListener
  <2>2. /\ phase' = [phase EXCEPT ![s] = p]
        /\ met' \in [Servers -> SUBSET Servers] /\ raced' \in [Servers -> SUBSET Servers]
        /\ \A t \in Servers : met[t] \subseteq met'[t] /\ raced[t] \subseteq raced'[t]
        /\ phase' \in [Servers -> Phases]
        /\ HistoryInv'
    BY <2>1, EnterKeeps
  <2>3. ServerTypes'
    BY <1>11, <2>2 DEF CloseListener
  <2>4. BoundInv'
    BY <1>11, <2>2 DEF CloseListener, Enter, BoundInv
  <2>5. AloneInv'
    BY <1>11, <2>2 DEF CloseListener, Enter, AloneInv, BoundInv, HistoryInv
  <2>6. TakenInv'
    BY <1>11, <2>2 DEF CloseListener, Enter, TakenInv, BoundInv, HistoryInv
  <2>7. KeptInv'
    BY <1>11, <2>2 DEF CloseListener, KeptInv, Enter, TakenInv, BoundInv, HistoryInv
  <2> QED
    BY <2>2, <2>3, <2>4, <2>5, <2>6, <2>7
<1>12. CASE Join(s)
  <2>1. PICK p \in Phases : Enter(s, p)
    BY <1>12 DEF Join
  <2>2. /\ phase' = [phase EXCEPT ![s] = p]
        /\ met' \in [Servers -> SUBSET Servers] /\ raced' \in [Servers -> SUBSET Servers]
        /\ \A t \in Servers : met[t] \subseteq met'[t] /\ raced[t] \subseteq raced'[t]
        /\ phase' \in [Servers -> Phases]
        /\ HistoryInv'
    BY <2>1, EnterKeeps
  <2>3. ServerTypes'
    BY <1>12, <2>2 DEF Join
  <2>4. BoundInv'
    BY <1>12, <2>2 DEF Join, Enter, BoundInv
  <2>5. AloneInv'
    BY <1>12, <2>2 DEF Join, Enter, AloneInv, BoundInv, HistoryInv
  <2>6. TakenInv'
    BY <1>12, <2>2 DEF Join, Enter, TakenInv, BoundInv, HistoryInv
  <2>7. KeptInv'
    BY <1>12, <2>2 DEF Join, KeptInv, Enter, TakenInv, BoundInv, HistoryInv
  <2> QED
    BY <2>2, <2>3, <2>4, <2>5, <2>6, <2>7
<1>13. CASE CheckOwn(s)
  <2>1. PICK p \in Phases : Enter(s, p)
    BY <1>13 DEF CheckOwn
  <2>2. /\ phase' = [phase EXCEPT ![s] = p]
        /\ met' \in [Servers -> SUBSET Servers] /\ raced' \in [Servers -> SUBSET Servers]
        /\ \A t \in Servers : met[t] \subseteq met'[t] /\ raced[t] \subseteq raced'[t]
        /\ phase' \in [Servers -> Phases]
        /\ HistoryInv'
    BY <2>1, EnterKeeps
  <2>3. ServerTypes'
    BY <1>13, <2>2 DEF CheckOwn
  <2>4. BoundInv'
    BY <1>13, <2>2 DEF CheckOwn, Enter, BoundInv
  <2>5. AloneInv'
    BY <1>13, <2>2 DEF CheckOwn, Enter, AloneInv, BoundInv, HistoryInv
  <2>6. TakenInv'
    BY <1>13, <2>2 DEF CheckOwn, Enter, TakenInv, BoundInv, HistoryInv
  <2>7. KeptInv'
    BY <1>13, <2>2 DEF CheckOwn, KeptInv, Enter, TakenInv, BoundInv, HistoryInv
  <2> QED
    BY <2>2, <2>3, <2>4, <2>5, <2>6, <2>7
<1>14. CASE Unlink(s)
  <2>1. PICK p \in Phases : Enter(s, p)
    BY <1>14 DEF Unlink
  <2>2. /\ phase' = [phase EXCEPT ![s] = p]
        /\ met' \in [Servers -> SUBSET Servers] /\ raced' \in [Servers -> SUBSET Servers]
        /\ \A t \in Servers : met[t] \subseteq met'[t] /\ raced[t] \subseteq raced'[t]
        /\ phase' \in [Servers -> Phases]
        /\ HistoryInv'
    BY <2>1, EnterKeeps
  <2>3. ServerTypes'
    BY <1>14, <2>2 DEF Unlink
  <2>4. BoundInv'
    BY <1>14, <2>2 DEF Unlink, Enter, BoundInv
  <2>5. AloneInv'
    BY <1>14, <2>2 DEF Unlink, Enter, AloneInv, BoundInv, HistoryInv
  <2>6. TakenInv'
    BY <1>14, <2>2 DEF Unlink, Enter, TakenInv, BoundInv, HistoryInv
  <2>7. KeptInv'
    BY <1>14, <2>2 DEF Unlink, KeptInv, Enter, TakenInv, BoundInv, HistoryInv
  <2> QED
    BY <2>2, <2>3, <2>4, <2>5, <2>6, <2>7
<1>15. CASE Kill(s)
  <2>1. PICK p \in Phases : Enter(s, p)
    BY <1>15 DEF Kill
  <2>2. /\ phase' = [phase EXCEPT ![s] = p]
        /\ met' \in [Servers -> SUBSET Servers] /\ raced' \in [Servers -> SUBSET Servers]
        /\ \A t \in Servers : met[t] \subseteq met'[t] /\ raced[t] \subseteq raced'[t]
        /\ phase' \in [Servers -> Phases]
        /\ HistoryInv'
    BY <2>1, EnterKeeps
  <2>3. ServerTypes'
    BY <1>15, <2>2 DEF Kill
  <2>4. BoundInv'
    BY <1>15, <2>2 DEF Kill, Enter, BoundInv
  <2>5. AloneInv'
    BY <1>15, <2>2 DEF Kill, Enter, AloneInv, BoundInv, HistoryInv
  <2>6. TakenInv'
    BY <1>15, <2>2 DEF Kill, Enter, TakenInv, BoundInv, HistoryInv
  <2>7. KeptInv'
    BY <1>15, <2>2 DEF Kill, KeptInv, Enter, TakenInv, BoundInv, HistoryInv
  <2> QED
    BY <2>2, <2>3, <2>4, <2>5, <2>6, <2>7
<1> QED
  BY <1>1, <1>2, <1>3, <1>4, <1>5, <1>6, <1>7, <1>8, <1>9, <1>10, <1>11, <1>12, <1>13, <1>14, <1>15 DEF Start, Close

(* Neither the thread of a server nor a client touches what it is about.   *)
LEMMA OtherStep ==
  ASSUME ServerInv,
         \/ \E s \in Servers : Serve(s)
         \/ \E c \in Clients : Request(c)
         \/ UNCHANGED vars
  PROVE  ServerInv'
<1>1. /\ UNCHANGED <<path, phase, seen, identity, met, raced>>
      /\ \A s \in Servers : s \in listening' => s \in listening
      /\ \A s \in listening : s \in listening' \/ phase[s] \notin {"record", "serving"}
      /\ listening' \subseteq Servers
  BY DEF ServerInv, ServerTypes, Serve, Accept, ReadFrame, Handle, WriteReply, ThreadLeaves, Unlisten,
     Request, Prepare, Connect, GiveUp, Send, Receive, TimeOut, unchangedByServing,
     unchangedByClient, vars, paths, history
<1>2. ServerTypes' /\ HistoryInv' /\ AloneInv' /\ TakenInv' /\ KeptInv'
  BY <1>1 DEF ServerInv, ServerTypes, HistoryInv, AloneInv, TakenInv, KeptInv, IsAlive, IsHasty,
     Starting, Ended, Bound
<1>3. BoundInv'
  BY <1>1 DEF ServerInv, ServerTypes, BoundInv, Unbound, Closing
<1> QED
  BY <1>2, <1>3 DEF ServerInv

(* The invariant of the path holds in every state of every behaviour. *)
LEMMA ServerSafe == Spec => []ServerInv
<1>1. ServerInv /\ [Next]_vars => ServerInv'
  BY MainStep, OtherStep DEF Next
<1> QED
  BY <1>1, ServerInit, PTL DEF Spec

(* What follows from it: nobody is cut off but by a race, no start fails   *)
(* for what is dead, and who has ended has left nothing.                   *)
LEMMA ServerImplies ==
  ServerInv => ReachableUnlessRaced /\ StartFailsOnlyForOthers /\ ClosedLeavesNoPath
BY DEF ServerInv, KeptInv, AloneInv, BoundInv, Unbound, Bound, ReachableUnlessRaced,
   StartFailsOnlyForOthers, ClosedLeavesNoPath

(* A worker whose server has started is the one that clients reach, unless *)
(* another started or removed its path meanwhile (start, close).           *)
THEOREM ReachableSafe == Spec => []ReachableUnlessRaced
BY ServerSafe, ServerImplies, PTL

(* A start fails only for another worker that was alive meanwhile, never   *)
(* for the path that a killed one left (_remove_stale_socket).             *)
THEOREM StartSafe == Spec => []StartFailsOnlyForOthers
BY ServerSafe, ServerImplies, PTL

(* A worker that ends in order, or fails to start, leaves no path of its   *)
(* own (start, close).                                                     *)
THEOREM ClosedSafe == Spec => []ClosedLeavesNoPath
BY ServerSafe, ServerImplies, PTL

(***************************************************************************)
(* The announcements.                                                      *)
(***************************************************************************)
ClientTypes ==
  /\ backlog \in [Servers -> SUBSET Clients]
  /\ thread \in [Servers -> {"none", "accept", "read", "handle", "write"}]
  /\ peer \in [Servers -> Clients \union {NoOne}]
  /\ response \in [Servers -> Codes \union {NoReply}]
  /\ \A s \in Servers : /\ peer[s] # NoOne <=> thread[s] \in {"read", "handle", "write"}
                        /\ response[s] # NoReply <=> thread[s] = "write"
  /\ step \in [Clients -> {"prepare", "connect", "send", "receive", "done"}]
  /\ link \in [Clients -> Servers \union {NoFile}]
  /\ sent \in [Clients -> BOOLEAN]
  /\ reply \in [Clients -> Codes \union {NoReply}]
  /\ verdict \in [Clients -> Verdicts]
  /\ admitted \in [Clients -> Nat]

(* A client is at one server only, the one that it has connected to, and   *)
(* either waits there or is served.                                        *)
LinkInv ==
  \A c \in Clients, s \in Servers :
    /\ c \in backlog[s] \/ peer[s] = c => link[c] = s
    /\ ~(c \in backlog[s] /\ peer[s] = c)

(* Before it has connected, nothing has become of its announcement.        *)
FreshInv ==
  \A c \in Clients :
    /\ step[c] # "done" => verdict[c] = NoReply
    /\ step[c] \in {"prepare", "connect"} \/ verdict[c] \in {"prepare-failed", "worker-unavailable"} =>
         link[c] = NoFile /\ admitted[c] = 0 /\ reply[c] = NoReply

(* Whether the announcement has been claimed shows in where its connection *)
(* is, and then in the answer, with which the server is done with it.      *)
AdmitInv ==
  /\ \A c \in Clients :
       /\ admitted[c] <= 1
       /\ reply[c] = "ok" => admitted[c] = 1
       /\ reply[c] = "refused" => admitted[c] = 0
       /\ verdict[c] \in {"ok", "refused"} => reply[c] = verdict[c]
  /\ \A c \in Clients, s \in Servers :
       /\ c \in backlog[s] \/ peer[s] = c => reply[c] = NoReply
       /\ c \in backlog[s] => admitted[c] = 0
       /\ peer[s] = c /\ thread[s] \in {"read", "handle"} => admitted[c] = 0
       /\ peer[s] = c /\ response[s] = "ok" => admitted[c] = 1
       /\ peer[s] = c /\ response[s] = "refused" => admitted[c] = 0

(* A server whose process has not come so far, or has ended, has no thread. *)
IdleInv ==
  \A s \in Servers : phase[s] \in {"off"} \union Starting \union Ended => thread[s] = "none"

AgentInv == ServerInv /\ IdleInv /\ ClientTypes /\ LinkInv /\ FreshInv /\ AdmitInv

(* The invariant holds at the start. *)
LEMMA AgentInit == Init => AgentInv
BY ServerInit, Names DEF Init, AgentInv, IdleInv, ClientTypes, LinkInv, FreshInv, AdmitInv, NoReply, Codes, Verdicts

(* The main thread of a server only takes clients away from it, and the    *)
(* clients do not notice.                                                  *)
LEMMA MainStepOfClients ==
  ASSUME AgentInv, NEW s \in Servers,
         Boot(s) \/ Start(s) \/ BeginExit(s) \/ Close(s) \/ Kill(s)
  PROVE  AgentInv'
<1> USE DEF AgentInv
<1>1. UNCHANGED <<step, link, sent, verdict, reply, admitted>>
  BY DEF Boot, Start, StatPath, Probe, Recheck, RemoveStale, Bind, Chmod, Listen, Record, BeginExit,
     Close, CloseListener, Join, CheckOwn, Unlink, Kill, client
<1>2. PICK p \in Phases : Enter(s, p)
  BY DEF Boot, Start, StatPath, Probe, Recheck, RemoveStale, Bind, Chmod, Listen, Record, BeginExit,
     Close, CloseListener, Join, CheckOwn, Unlink, Kill, EndProcess, Phases, Starting, Closing, Ended
<1>3. ServerInv' /\ phase' = [phase EXCEPT ![s] = p]
  BY <1>2, MainStep, EnterKeeps DEF ServerInv
<1>4. /\ backlog' = backlog \/ backlog' = [backlog EXCEPT ![s] = {}]
      /\ \/ UNCHANGED serving /\ (phase[s] \in {"off"} \union Starting \/ p \notin {"off"} \union Starting \union Ended)
         \/ /\ phase[s] = "record" /\ p = "serving"
            /\ thread' = [thread EXCEPT ![s] = "accept"]
            /\ UNCHANGED <<peer, response>>
         \/ /\ thread' = [thread EXCEPT ![s] = "none"]
            /\ peer' = [peer EXCEPT ![s] = NoOne]
            /\ response' = [response EXCEPT ![s] = NoReply]
  <2> USE <1>2, <1>3 DEF ServerInv, ServerTypes, Starting, Ended
  <2>1. CASE Boot(s) \/ StatPath(s) \/ Probe(s) \/ Recheck(s) \/ RemoveStale(s) \/ Bind(s) \/ Chmod(s) \/ Listen(s)
    BY <2>1 DEF Boot, StatPath, Probe, Recheck, RemoveStale, Bind, Chmod, Listen
  <2>2. CASE Record(s)
    BY <2>2 DEF Record, serving, Enter
  <2>3. CASE BeginExit(s) \/ CloseListener(s) \/ Join(s)
    BY <2>3 DEF BeginExit, CloseListener, Join, Unlisten, Enter
  <2>4. CASE CheckOwn(s) \/ Unlink(s) \/ Kill(s)
    BY <2>4 DEF CheckOwn, Unlink, Kill, EndProcess, Unlisten, Enter
  <2> QED
    BY <2>1, <2>2, <2>3, <2>4 DEF Start, Close
<1>5. IdleInv'
  BY <1>3, <1>4 DEF IdleInv, ServerInv, ServerTypes, ClientTypes, serving, Starting, Ended
<1>6. ClientTypes'
  BY <1>1, <1>3, <1>4, Names DEF ClientTypes, IdleInv, serving, Starting, NoReply
<1>7. LinkInv' /\ FreshInv'
  BY <1>1, <1>4, Names DEF ClientTypes, LinkInv, FreshInv, serving
<1>8. AdmitInv'
  BY <1>1, <1>4, Names DEF ClientTypes, AdmitInv, serving, NoReply
<1> QED
  BY <1>3, <1>5, <1>6, <1>7, <1>8

(* A connection is taken, read, handled and answered once.                 *)
LEMMA ServeStep ==
  ASSUME AgentInv, NEW s \in Servers, Serve(s)
  PROVE  AgentInv'
<1> USE DEF AgentInv
<1>1. ServerInv' /\ UNCHANGED phase
  BY OtherStep DEF Serve, Accept, ReadFrame, Handle, WriteReply, ThreadLeaves, unchangedByServing
<1>2. UNCHANGED <<step, link, sent, verdict>>
  BY DEF Serve, Accept, ReadFrame, Handle, WriteReply, ThreadLeaves, unchangedByServing, client
<1>3. IdleInv'
  BY <1>1 DEF IdleInv, ClientTypes, Serve, Accept, ReadFrame, Handle, WriteReply, ThreadLeaves,
     Respond
<1> USE <1>2, Names DEF ClientTypes, NoReply, Codes
<1>4. CASE Accept(s)
  <2>1. PICK c \in backlog[s] : /\ backlog' = [backlog EXCEPT ![s] = @ \ {c}]
                                /\ peer' = [peer EXCEPT ![s] = c]
    BY <1>4 DEF Accept
  <2>2. UNCHANGED <<response, reply, admitted>> /\ thread' = [thread EXCEPT ![s] = "read"]
    BY <1>4 DEF Accept
  <2>3. ClientTypes'
    BY <1>4, <2>1, <2>2 DEF Accept
  <2>4. LinkInv'
    BY <1>4, <2>1, <2>2 DEF Accept, LinkInv
  <2>5. FreshInv' /\ AdmitInv'
    BY <1>4, <2>1, <2>2 DEF Accept, FreshInv, AdmitInv, LinkInv
  <2> QED
    BY <1>1, <1>3, <2>3, <2>4, <2>5
<1>5. CASE ReadFrame(s)
  <2>1. ClientTypes'
    BY <1>5 DEF ReadFrame
  <2>2. LinkInv' /\ FreshInv'
    BY <1>5 DEF ReadFrame, LinkInv, FreshInv
  <2>3. AdmitInv'
    BY <1>5 DEF ReadFrame, AdmitInv
  <2> QED
    BY <1>1, <1>3, <2>1, <2>2, <2>3
<1>6. CASE Handle(s)
  <2>1. peer[s] \in Clients /\ admitted[peer[s]] = 0 /\ reply[peer[s]] = NoReply /\ link[peer[s]] = s
    BY <1>6 DEF Handle, AdmitInv, LinkInv
  <2>2. PICK code \in Codes :
          /\ Respond(s, code)
          /\ \/ code # "ok" /\ UNCHANGED admitted
             \/ code # "refused" /\ admitted' = [admitted EXCEPT ![peer[s]] = 1]
    BY <1>6, <2>1 DEF Handle
  <2>3. UNCHANGED <<peer, backlog, reply>>
    BY <1>6 DEF Handle
  <2>4. ClientTypes'
    BY <1>6, <2>1, <2>2, <2>3 DEF Handle, Respond
  <2>5. LinkInv' /\ FreshInv'
    BY <2>1, <2>2, <2>3 DEF LinkInv, FreshInv
  <2>6. AdmitInv'
    BY <1>6, <2>1, <2>2, <2>3 DEF AdmitInv, LinkInv, Respond, Handle
  <2> QED
    BY <1>1, <1>3, <2>4, <2>5, <2>6
<1>7. CASE WriteReply(s)
  <2>1. peer[s] \in Clients /\ response[s] \in Codes
    BY <1>7 DEF WriteReply
  <2>2. /\ reply' = [reply EXCEPT ![peer[s]] = response[s]]
        /\ peer' = [peer EXCEPT ![s] = NoOne]
        /\ response' = [response EXCEPT ![s] = NoReply]
        /\ thread' = [thread EXCEPT ![s] = "accept"]
        /\ UNCHANGED <<backlog, admitted>>
    BY <1>7 DEF WriteReply
  <2>3. ClientTypes'
    BY <2>1, <2>2
  <2>4. LinkInv' /\ FreshInv'
    BY <2>1, <2>2 DEF LinkInv, FreshInv
  <2>5. AdmitInv'
    BY <2>1, <2>2 DEF LinkInv, AdmitInv
  <2> QED
    BY <1>1, <1>3, <2>3, <2>4, <2>5
<1>8. CASE ThreadLeaves(s)
  <2>1. ClientTypes' /\ LinkInv' /\ FreshInv' /\ AdmitInv'
    BY <1>8 DEF ThreadLeaves, Unlisten, LinkInv, FreshInv, AdmitInv
  <2> QED
    BY <1>1, <1>3, <2>1
<1> QED
  BY <1>4, <1>5, <1>6, <1>7, <1>8 DEF Serve

(* A client connects once, and reports no more than it has been answered.  *)
LEMMA RequestStep ==
  ASSUME AgentInv, NEW c \in Clients, Request(c)
  PROVE  AgentInv'
<1> USE DEF AgentInv
<1>1. ServerInv' /\ UNCHANGED <<phase, thread, peer, response, reply, admitted>>
  BY OtherStep DEF Request, Prepare, Connect, GiveUp, Send, Receive, TimeOut, unchangedByClient, serving
<1>2. IdleInv'
  BY <1>1 DEF IdleInv
<1> USE <1>1, Names DEF ClientTypes, NoReply, Codes, Verdicts, Goto, Report
<1>3. CASE Connect(c)
  <2>1. path \in Servers /\ link[c] = NoFile
    BY <1>3 DEF Connect, ServerInv, ServerTypes, FreshInv
  <2>2. \A s \in Servers : c \notin backlog[s] /\ peer[s] # c
    BY <2>1 DEF LinkInv
  <2>3. ClientTypes'
    BY <1>3, <2>1 DEF Connect
  <2>4. LinkInv' /\ FreshInv' /\ AdmitInv'
    BY <1>3, <2>1, <2>2 DEF Connect, LinkInv, FreshInv, AdmitInv
  <2> QED
    BY <1>1, <1>2, <2>3, <2>4
<1>4. CASE Prepare(c) \/ GiveUp(c)
  <2>1. ClientTypes'
    BY <1>4 DEF Prepare, GiveUp
  <2>2. LinkInv' /\ FreshInv' /\ AdmitInv'
    BY <1>4 DEF Prepare, GiveUp, LinkInv, FreshInv, AdmitInv
  <2> QED
    BY <1>1, <1>2, <2>1, <2>2
<1>5. CASE Send(c) \/ Receive(c) \/ TimeOut(c)
  <2>1. /\ UNCHANGED <<link, backlog>>
        /\ \E at \in {"receive", "done"} : step' = [step EXCEPT ![c] = at]
        /\ sent' = sent \/ sent' = [sent EXCEPT ![c] = TRUE]
        /\ \/ verdict' = verdict
           \/ \E code \in Codes : verdict' = [verdict EXCEPT ![c] = code]
    BY <1>5 DEF Send, Receive, TimeOut
  <2>2. ClientTypes'
    <3>1. sent' \in [Clients -> BOOLEAN]
      BY <2>1
    <3>2. step' \in [Clients -> {"prepare", "connect", "send", "receive", "done"}]
      BY <2>1
    <3>3. verdict' \in [Clients -> Verdicts]
      BY <2>1
    <3> QED
      BY <2>1, <3>1, <3>2, <3>3
  <2>3. LinkInv' /\ FreshInv' /\ AdmitInv'
    BY <1>5 DEF Send, Receive, TimeOut, LinkInv, FreshInv, AdmitInv
  <2> QED
    BY <1>1, <1>2, <2>2, <2>3
<1> QED
  BY <1>3, <1>4, <1>5 DEF Request

(* The invariant holds in every state of every behaviour. *)
LEMMA AgentSafe == Spec => []AgentInv
<1>1. AgentInv /\ [Next]_vars => AgentInv'
  <2> SUFFICES ASSUME AgentInv, [Next]_vars PROVE AgentInv'
    OBVIOUS
  <2>1. CASE UNCHANGED vars
    BY <2>1, OtherStep DEF AgentInv, IdleInv, ClientTypes, LinkInv, FreshInv, AdmitInv, vars, serving, client
  <2> QED
    BY <2>1, MainStepOfClients, ServeStep, RequestStep DEF Next
<1> QED
  BY <1>1, AgentInit, PTL DEF Spec

(* No announcement is claimed twice, and what bin/yap reports of one is    *)
(* so: success, that a worker has claimed it, a refusal, that none has.    *)
THEOREM ClientsSafe == Spec => []ClientsInv
<1>1. AgentInv => ClientsInv
  BY DEF AgentInv, ServerInv, ServerTypes, ClientTypes, FreshInv, AdmitInv, ClientsInv, TypeOK,
     VerdictIsTrue, ClaimedOnce
<1> QED
  BY <1>1, AgentSafe, PTL
=============================================================================
