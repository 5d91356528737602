------------------------- MODULE StreamChainProofs -------------------------
(***************************************************************************)
(* Proofs about StreamChain, for every topology, every set of flows and    *)
(* every bound: the state is well typed, no socket is closed under a       *)
(* running thread, and no receiver believes in an end of the stream before *)
(* the source has sent everything.  And about the tracker with which every *)
(* receiver of the chain counts its losses, for every size of its window:  *)
(* the counter is exact, because the ring buffer always shows which        *)
(* packets of the window have arrived.                                     *)
(***************************************************************************)
EXTENDS StreamChain, PacketLostTracker, TLAPS, FiniteSetTheorems, WellFoundedInduction

-----------------------------------------------------------------------------
(* The operators. *)

(* The numbers of runnables, with and without the zero that means none. *)
LEMMA RunNumbers ==
    /\ RunIndex \subseteq Nat /\ 0 \notin RunIndex
    /\ \A k \in 0 .. MaxRuns : k # NoRun => k \in RunIndex
    /\ \A k \in RunIndex : k \in 0 .. MaxRuns
    /\ 0 \in 0 .. MaxRuns
BY ChainAssumption DEF RunIndex, NoRun

(* The bus stays a bag of messages, whatever is sent, when what a handler
   takes is in flight. *)
LEMMA ExchangeKeepsBag ==
    ASSUME NEW In, NEW Out, bus \in [Message -> Nat],
           \A m \in In : InFlight(m), Exchange(In, Out)
    PROVE  bus' \in [Message -> Nat]
<1> SUFFICES ASSUME NEW m \in Message
             PROVE  (bus[m] + (IF m \in Out THEN 1 ELSE 0))
                        - (IF m \in In THEN 1 ELSE 0) \in Nat
  BY DEF Exchange
<1>1. CASE m \in In
  <2>1. bus[m] \in Nat /\ bus[m] > 0
    BY <1>1 DEF InFlight
  <2> QED
    BY <1>1, <2>1
<1>2. CASE m \notin In
  <2>1. bus[m] \in Nat
    OBVIOUS
  <2> QED
    BY <1>2, <2>1
<1> QED
  BY <1>1, <1>2

(* A message that is in flight was in flight before or has just been sent. *)
LEMMA ExchangeAdds ==
    ASSUME NEW In, NEW Out, bus \in [Message -> Nat],
           NEW m \in Message, Exchange(In, Out), m \notin Out, InFlight(m)'
    PROVE  InFlight(m)
<1>1. bus[m] \in Nat /\ bus'[m] = bus[m] - (IF m \in In THEN 1 ELSE 0) /\ bus'[m] > 0
  BY DEF Exchange, InFlight
<1> QED
  BY <1>1 DEF InFlight

(* The end message is a message. *)
LEMMA EndMsgIsMessage ==
    ASSUME NEW n \in Nodes
    PROVE  EndMsg(n) \in Message
<1>1. EndMsg(n) \in EndMessage
  BY DEF EndMsg, EndMessage
<1> QED
  BY <1>1 DEF Message

(* replaceFlow returns a flow list, also for an id that the list lacks. *)
LEMMA ReplaceFlowType ==
    ASSUME NEW list \in Seq(Flows), NEW f \in Flows
    PROVE  ReplaceFlow(list, f) \in Seq(Flows)
<1> DEFINE found == {i \in 1 .. Len(list) : list[i] = f}
           idx == IF found = {} THEN Len(list)
                  ELSE CHOOSE i \in found : \A j \in found : i <= j
           rest == [i \in 1 .. Len(list) - 1 |-> IF i < idx THEN list[i] ELSE list[i + 1]]
<1>1. \A i \in 1 .. Len(list) - 1 : list[i] \in Flows /\ list[i + 1] \in Flows
  OBVIOUS
<1>2. rest \in Seq(Flows)
  <2>1. CASE Len(list) = 0
    <3>1. rest = <<>>
      BY <2>1
    <3> QED
      BY <3>1
  <2>2. CASE Len(list) > 0
    <3>1. Len(list) - 1 \in Nat
      BY <2>2
    <3>2. rest \in [1 .. Len(list) - 1 -> Flows]
      <4> HIDE DEF idx
      <4> QED
        BY <1>1
    <3> HIDE DEF rest
    <3> QED
      BY <3>1, <3>2
  <2> QED
    BY <2>1, <2>2
<1>3. ReplaceFlow(list, f) = Append(rest, f)
  BY DEF ReplaceFlow
<1> HIDE DEF rest
<1> QED
  BY <1>2, <1>3
-----------------------------------------------------------------------------
(* Type correctness. *)

(* The initial state is well typed. *)
LEMMA InitType == Init => TypeOK
<1> SUFFICES ASSUME Init PROVE TypeOK
  OBVIOUS
<1>1. Fresh \in Runnable
  BY DEF Fresh, Runnable
<1>2. run \in [RunId -> Runnable]
  BY <1>1 DEF Init
<1> QED
  BY <1>2, RunNumbers, ChainAssumption DEF Init, TypeOK, NoRun

(* Raising flags of a runnable leaves a runnable. *)
LEMMA RaiseFlag ==
    ASSUME NEW q \in Runnable
    PROVE  /\ [q EXCEPT !.killed = TRUE] \in Runnable
           /\ [q EXCEPT !.killed = TRUE, !.reset = TRUE] \in Runnable
           /\ [q EXCEPT !.upstreamDone = TRUE] \in Runnable
           /\ [q EXCEPT !.finalWait = TRUE] \in Runnable
           /\ [q EXCEPT !.lastPacket = TRUE] \in Runnable
           /\ [q EXCEPT !.closed = TRUE] \in Runnable
BY DEF Runnable

(* So does moving its thread on. *)
LEMMA MoveThread ==
    ASSUME NEW q \in Runnable
    PROVE  /\ [q EXCEPT !.sentAll = TRUE, !.pc = "ending"] \in Runnable
           /\ [q EXCEPT !.upstreamDone = TRUE, !.pc = "ending"] \in Runnable
           /\ [q EXCEPT !.pc = "ending"] \in Runnable
           /\ [q EXCEPT !.pc = "cleaning"] \in Runnable
           /\ [q EXCEPT !.pc = "ended"] \in Runnable
           /\ [q EXCEPT !.pc = "ended", !.closed = TRUE] \in Runnable
BY DEF Runnable

(* The runnables are well typed if the one that a step changes is. *)
LEMMA UpdateType ==
    ASSUME run \in [RunId -> Runnable], NEW r \in RunId, NEW new \in Runnable
    PROVE  [run EXCEPT ![r] = new] \in [RunId -> Runnable]
OBVIOUS

(* The start message that a node may receive comes from a runnable, unless the
   node is a sink. *)
LEMMA StarterIsRunnable ==
    ASSUME NEW n \in Nodes, NEW from \in Starters(n), Kind[n] # "sink"
    PROVE  from \in RunId
BY DEF Starters, RunId

(* The steps of the Master. *)
LEMMA MasterType ==
    ASSUME TypeOK, NEW f \in Flows, StartFlow(f) \/ StopFlow(f)
    PROVE  TypeOK'
<1>1. CASE StartFlow(f)
  <2>1. bus' \in [Message -> Nat]
    BY <1>1, ExchangeKeepsBag DEF StartFlow, TypeOK
  <2> QED
    BY <1>1, <2>1 DEF StartFlow, TypeOK
<1>2. CASE StopFlow(f)
  <2>1. bus' \in [Message -> Nat]
    BY <1>2, ExchangeKeepsBag DEF StopFlow, TypeOK
  <2>2. stops \in [Flows -> Nat] /\ MaxStops \in [Flows -> Nat]
    BY ChainAssumption DEF TypeOK
  <2>3. \A g \in Flows : stops'[g] = IF g = f THEN stops[g] + 1 ELSE stops[g]
    BY <1>2, <2>2 DEF StopFlow
  <2>4. \A g \in Flows : stops'[g] \in Nat /\ stops'[g] <= MaxStops[g]
    BY <1>2, <2>2, <2>3 DEF StopFlow, TypeOK
  <2>5. stops' \in [Flows -> Nat]
    BY <1>2, <2>2, <2>4 DEF StopFlow
  <2> QED
    BY <1>2, <2>1, <2>4, <2>5 DEF StopFlow, TypeOK
<1> QED
  BY <1>1, <1>2

(* executeTask *)
LEMMA ExecuteType ==
    ASSUME TypeOK, NEW f \in Flows, NEW n \in Nodes, NEW from \in Starters(n),
           LaunchTask(f, n, from) \/ JoinTask(f, n, from)
    PROVE  TypeOK'
<1>1. bus' \in [Message -> Nat]
  BY ExchangeKeepsBag DEF LaunchTask, JoinTask, TypeOK
<1>2. CASE LaunchTask(f, n, from)
  <2> DEFINE k == runs[n] + 1
             new == [Fresh EXCEPT !.pc = "running", !.dests = {from} \cap RunId,
                                  !.flowList = Listed[f], !.withUri = Known[f]]
  <2>1. k \in RunIndex /\ k \in 0 .. MaxRuns /\ <<n, k>> \in RunId
    BY <1>2, RunNumbers DEF LaunchTask, RunId
  <2>2. new \in Runnable
    BY ChainAssumption DEF Fresh, Runnable
  <2>3. run' = [run EXCEPT ![<<n, k>>] = new]
    BY <1>2 DEF LaunchTask
  <2> HIDE DEF new
  <2>4. run' \in [RunId -> Runnable]
    BY <2>2, <2>3 DEF TypeOK
  <2> QED
    BY <1>1, <1>2, <2>1, <2>4 DEF LaunchTask, TypeOK
<1>3. CASE JoinTask(f, n, from)
  <2> DEFINE r == <<n, task[n]>>
  <2>1. r \in RunId /\ from \in RunId
    BY <1>3, RunNumbers, StarterIsRunnable DEF JoinTask, RunId, TypeOK
  <2>2. run[r] \in Runnable
    BY <2>1 DEF TypeOK
  <2> DEFINE new == [run[r] EXCEPT !.dests = {d \in @ : d[1] # from[1]} \cup {from},
                                   !.flowList = ReplaceFlow(@, f),
                                   !.withUri = @ \cup {f}]
  <2>3. ReplaceFlow(run[r].flowList, f) \in Seq(Flows)
    BY <2>2, ReplaceFlowType DEF Runnable
  <2>4. new \in Runnable
    BY <2>1, <2>2, <2>3 DEF Runnable
  <2>5. run' = [run EXCEPT ![r] = new]
    BY <1>3, <2>1 DEF JoinTask, TypeOK
  <2> HIDE DEF new, r
  <2>6. run' \in [RunId -> Runnable]
    BY <2>4, <2>5 DEF TypeOK
  <2> QED
    BY <1>1, <1>3, <2>6 DEF JoinTask, TypeOK
<1> QED
  BY <1>2, <1>3

(* The rest of executeTask, reset, and upStreamDoneSending. *)
LEMMA NodeType ==
    ASSUME TypeOK, NEW n \in Nodes,
           RecordTask(n) \/ BeginReset(n) \/ FinishReset(n) \/ UpStreamDone(n)
    PROVE  TypeOK'
<1>1. CASE RecordTask(n)
  <2>1. bus' \in [Message -> Nat]
    BY <1>1, ExchangeKeepsBag DEF RecordTask, TypeOK
  <2> QED
    BY <1>1, <2>1, RunNumbers DEF RecordTask, TypeOK, NoRun
<1>2. CASE BeginReset(n)
  <2>1. CASE task[n] = NoRun
    BY <1>2, <2>1 DEF BeginReset, TypeOK
  <2>2. CASE task[n] # NoRun
    <3>1. <<n, task[n]>> \in RunId
      BY <2>2, RunNumbers DEF RunId, TypeOK
    <3> DEFINE r == <<n, task[n]>>
               new == [run[r] EXCEPT !.killed = TRUE, !.reset = TRUE]
    <3>3. new \in Runnable
      BY <3>1, RaiseFlag DEF TypeOK
    <3>4. run' = [run EXCEPT ![r] = new]
      BY <1>2, <2>2, <3>1 DEF BeginReset, TypeOK
    <3> HIDE DEF new, r
    <3>2. run' \in [RunId -> Runnable]
      BY <3>1, <3>3, <3>4, UpdateType DEF TypeOK, r
    <3> QED
      BY <1>2, <2>2, <3>2 DEF BeginReset, TypeOK
  <2> QED
    BY <2>1, <2>2
<1>3. CASE FinishReset(n)
  <2>1. <<n, resetting[n]>> \in RunId
    BY <1>3, RunNumbers DEF FinishReset, RunId, TypeOK
  <2>2. run' \in [RunId -> Runnable]
    BY <1>3, <2>1, RaiseFlag, UpdateType DEF FinishReset, Clean, TypeOK
  <2> QED
    BY <1>3, <2>2, RunNumbers DEF FinishReset, Clean, TypeOK, NoRun
<1>4. CASE UpStreamDone(n)
  <2>1. bus' \in [Message -> Nat]
    BY <1>4, ExchangeKeepsBag DEF UpStreamDone, TypeOK
  <2>2. run' \in [RunId -> Runnable]
    <3>1. CASE listener[n] = NoRun
      BY <1>4, <3>1 DEF UpStreamDone, TypeOK
    <3>2. CASE listener[n] # NoRun
      <4>1. <<n, listener[n]>> \in RunId
        BY <3>2, RunNumbers DEF RunId, TypeOK
      <4> QED
        BY <1>4, <3>2, <4>1, RaiseFlag, UpdateType DEF UpStreamDone, TypeOK
    <3> QED
      BY <3>1, <3>2
  <2> QED
    BY <1>4, <2>1, <2>2, RunNumbers DEF UpStreamDone, TypeOK, NoRun
<1> QED
  BY <1>1, <1>2, <1>3, <1>4

(* terminateTask and releaseResource *)
LEMMA StopType ==
    ASSUME TypeOK, NEW f \in Flows, NEW n \in Nodes,
           \/ TerminateTooEarly(f, n) \/ TerminateTask(f, n) \/ LeaveTask(f, n)
           \/ BeginRelease(f, n)
    PROVE  TypeOK'
<1>1. bus' \in [Message -> Nat]
  BY ExchangeKeepsBag DEF TerminateTooEarly, TerminateTask, LeaveTask, BeginRelease, TypeOK
<1>2. task[n] # NoRun => <<n, task[n]>> \in RunId
  BY RunNumbers DEF RunId, TypeOK
<1>3. CASE TerminateTooEarly(f, n)
  BY <1>1, <1>3 DEF TerminateTooEarly, TypeOK
<1>4. CASE TerminateTask(f, n)
  <2>1. run' \in [RunId -> Runnable]
    BY <1>2, <1>4, RaiseFlag, UpdateType DEF TerminateTask, TypeOK
  <2> QED
    BY <1>1, <1>4, <2>1 DEF TerminateTask, TypeOK
<1>5. CASE LeaveTask(f, n)
  <2> DEFINE r == <<n, task[n]>>
             new == [run[r] EXCEPT !.dests = {d \in @ : d[1] # Down[f][n]}]
  <2>1. r \in RunId
    BY <1>2, <1>5 DEF LeaveTask
  <2>2. run[r] \in Runnable
    BY <2>1 DEF TypeOK
  <2>3. new \in Runnable
    BY <2>2 DEF Runnable
  <2>4. run' = [run EXCEPT ![r] = new]
    BY <1>5, <2>1 DEF LeaveTask, TypeOK
  <2> HIDE DEF new, r
  <2>5. run' \in [RunId -> Runnable]
    BY <2>1, <2>3, <2>4, UpdateType DEF TypeOK
  <2> QED
    BY <1>1, <1>5, <2>5 DEF LeaveTask, TypeOK
<1>6. CASE BeginRelease(f, n)
  BY <1>1, <1>2, <1>6 DEF BeginRelease, TypeOK
<1> QED
  BY <1>3, <1>4, <1>5, <1>6

(* releaseResource goes on *)
LEMMA ReleaseType ==
    ASSUME TypeOK, NEW f \in Flows, NEW r \in RunId, FinishRelease(f, r)
    PROVE  TypeOK'
<1>1. bus' \in [Message -> Nat]
  BY ExchangeKeepsBag DEF FinishRelease, TypeOK
<1>2. run' \in [RunId -> Runnable]
  BY RaiseFlag, UpdateType DEF FinishRelease, Clean, TypeOK
<1>3. task' \in [Nodes -> 0 .. MaxRuns]
  BY RunNumbers DEF FinishRelease, Clean, TypeOK, NoRun
<1> QED
  BY <1>1, <1>2, <1>3 DEF FinishRelease, TypeOK

(* The runnables leave their loops and clean up. *)
LEMMA RunnableType ==
    ASSUME TypeOK, NEW r \in RunId,
           Quit(r) \/ ReceiveTimeout(r) \/ Finish(r) \/ CleanUp(r)
    PROVE  TypeOK'
<1>1. run \in [RunId -> Runnable] /\ run[r] \in Runnable
  BY DEF TypeOK
<1>2. CASE Quit(r)
  <2>1. run' \in [RunId -> Runnable]
    BY <1>1, <1>2, MoveThread, UpdateType DEF Quit
  <2> QED
    BY <1>2, <2>1 DEF Quit, RunnableStep, TypeOK
<1>3. CASE ReceiveTimeout(r)
  <2>1. run' \in [RunId -> Runnable]
    BY <1>1, <1>3, MoveThread, RaiseFlag, UpdateType DEF ReceiveTimeout
  <2> QED
    BY <1>3, <2>1 DEF ReceiveTimeout, RunnableStep, TypeOK
<1>4. CASE Finish(r)
  <2>1. bus' \in [Message -> Nat]
    BY <1>4, ExchangeKeepsBag DEF Finish, TypeOK
  <2>2. run' \in [RunId -> Runnable]
    BY <1>1, <1>4, MoveThread, UpdateType DEF Finish
  <2> QED
    BY <1>4, <2>1, <2>2 DEF Finish, TypeOK
<1>5. CASE CleanUp(r)
  <2>1. run' \in [RunId -> Runnable]
    BY <1>1, <1>5, MoveThread, UpdateType DEF CleanUp
  <2>2. task' \in [Nodes -> 0 .. MaxRuns]
    BY <1>5, RunNumbers DEF CleanUp, TypeOK, NoRun
  <2> QED
    BY <1>5, <2>1, <2>2 DEF CleanUp, TypeOK
<1> QED
  BY <1>2, <1>3, <1>4, <1>5

(* The last packet is sent. *)
LEMMA SendType ==
    ASSUME TypeOK, NEW r \in RunId, NEW Lost \in SUBSET run[r].dests,
           SourceSendsLast(r, Lost) \/ ReceiveLast(r, Lost)
    PROVE  TypeOK'
<1>1. run \in [RunId -> Runnable] /\ run[r] \in Runnable
  BY DEF TypeOK
<1>2. ASSUME NEW sender \in Runnable, SendLast(r, Lost, sender)
      PROVE  run' \in [RunId -> Runnable]
  BY <1>1, <1>2, RaiseFlag DEF SendLast
<1>3. run' \in [RunId -> Runnable]
  BY <1>1, <1>2, MoveThread DEF SourceSendsLast, ReceiveLast
<1> QED
  BY <1>3 DEF SourceSendsLast, ReceiveLast, RunnableStep, TypeOK

(* Every step leaves the state well typed. *)
LEMMA StepType == TypeOK /\ [Next]_vars => TypeOK'
<1> SUFFICES ASSUME TypeOK, [Next]_vars
             PROVE  TypeOK'
  OBVIOUS
<1>1. CASE \E f \in Flows : StartFlow(f) \/ StopFlow(f)
  BY <1>1, MasterType
<1>2. CASE \E m \in Message : DropAtGone(m)
  <2>1. bus' \in [Message -> Nat]
    BY <1>2, ExchangeKeepsBag DEF DropAtGone, TypeOK
  <2> QED
    BY <1>2, <2>1 DEF DropAtGone, TypeOK
<1>3. CASE \E f \in Flows, n \in Nodes : \E from \in Starters(n) :
              LaunchTask(f, n, from) \/ JoinTask(f, n, from)
  BY <1>3, ExecuteType
<1>4. CASE \E n \in Nodes :
              RecordTask(n) \/ BeginReset(n) \/ FinishReset(n) \/ UpStreamDone(n)
  BY <1>4, NodeType
<1>5. CASE \E f \in Flows, n \in Nodes :
              \/ TerminateTooEarly(f, n) \/ TerminateTask(f, n) \/ LeaveTask(f, n)
              \/ BeginRelease(f, n)
  BY <1>5, StopType
<1>6. CASE \E f \in Flows, r \in RunId : FinishRelease(f, r)
  BY <1>6, ReleaseType
<1>7. CASE \E r \in RunId : Quit(r) \/ ReceiveTimeout(r) \/ Finish(r) \/ CleanUp(r)
  BY <1>7, RunnableType
<1>8. CASE \E r \in RunId : \E Lost \in SUBSET run[r].dests :
              SourceSendsLast(r, Lost) \/ ReceiveLast(r, Lost)
  BY <1>8, SendType
<1>9. CASE UNCHANGED vars
  BY <1>9 DEF vars, TypeOK
<1> QED
  BY <1>1, <1>2, <1>3, <1>4, <1>5, <1>6, <1>7, <1>8, <1>9 DEF Next
-----------------------------------------------------------------------------
(* What a step does to a runnable. *)

(* The runnable is created. *)
Born(q) ==
    /\ q[2] = runs[q[1]] + 1
    /\ runs'[q[1]] = q[2]
    /\ run'[q].pc = "running"
    /\ ~run'[q].closed /\ ~run'[q].sentAll
    /\ ~run'[q].upstreamDone /\ ~run'[q].lastPacket

(* Its thread does not go back, its sockets are closed at the end of the thread,
   and what it learns about the end of the stream it learns from a message, from
   a packet, or from what it has sent itself. *)
Moves(q) ==
    /\ runs[q[1]] <= runs'[q[1]]
    /\ run[q].pc = "none" => run'[q].pc = "none"
    /\ run[q].pc = "ended" => run'[q].pc = "ended"
    /\ run'[q].closed => run[q].closed \/ run'[q].pc = "ended"
    /\ run[q].sentAll => run'[q].sentAll
    /\ run'[q].sentAll => run[q].sentAll \/ run[q].pc = "running"
    /\ run'[q].upstreamDone =>
          run[q].upstreamDone \/ run[q].lastPacket \/ InFlight(EndMsg(q[1]))
    /\ run'[q].lastPacket =>
          \/ \E p \in RunId : run[p].lastPacket
          \/ \E p \in RunId : Kind[p[1]] = "source" /\ run'[p].sentAll

(* A step that leaves the flags and the thread of a runnable alone. *)
LEMMA SameMoves ==
    ASSUME TypeOK, TypeOK', NEW q \in RunId, runs' = runs,
           run'[q].pc = run[q].pc, run'[q].closed = run[q].closed,
           run'[q].sentAll = run[q].sentAll,
           run'[q].upstreamDone = run[q].upstreamDone,
           run'[q].lastPacket = run[q].lastPacket
    PROVE  Moves(q)
<1>1. runs[q[1]] \in Nat
  BY RunNumbers, ChainAssumption DEF RunId, TypeOK
<1> QED
  BY <1>1 DEF Moves

(* A step that changes one runnable moves the others on, and that one too if
   its thread goes on, or is at its end, and closes the sockets only then. *)
LEMMA OneMoves ==
    ASSUME TypeOK, TypeOK', NEW q \in RunId, NEW r \in RunId, NEW new,
           run' = [run EXCEPT ![r] = new], runs' = runs,
           new.sentAll = run[r].sentAll,
           new.lastPacket = run[r].lastPacket,
           new.upstreamDone = run[r].upstreamDone,
           new.pc = run[r].pc \/ run[r].pc \notin {"none", "ended"},
           new.closed = run[r].closed \/ new.pc = "ended"
    PROVE  Moves(q)
<1>1. run \in [RunId -> Runnable]
  BY DEF TypeOK
<1>2. CASE q = r
  <2>1. run'[q] = new
    BY <1>1, <1>2
  <2>2. runs[q[1]] <= runs'[q[1]]
    BY RunNumbers, ChainAssumption DEF RunId, TypeOK
  <2> QED
    BY <1>2, <2>1, <2>2 DEF Moves
<1>3. CASE q # r
  <2>1. run'[q] = run[q]
    BY <1>1, <1>3
  <2> QED
    BY <2>1, SameMoves
<1> QED
  BY <1>2, <1>3

(* Every step creates the runnable or moves it on. *)
LEMMA StepMoves ==
    ASSUME TypeOK, TypeOK', [Next]_vars, NEW q \in RunId
    PROVE  Born(q) \/ Moves(q)
<1> USE DEF RunnableStep
<1>1. run \in [RunId -> Runnable] /\ run[q] \in Runnable
  BY DEF TypeOK
<1>2. runs[q[1]] \in Nat
  BY RunNumbers, ChainAssumption DEF RunId, TypeOK
<1>3. CASE UNCHANGED run /\ UNCHANGED runs
  BY <1>3, SameMoves
<1>4. ASSUME NEW f \in Flows, NEW n \in Nodes, NEW from \in Starters(n),
             LaunchTask(f, n, from)
      PROVE  Born(q) \/ Moves(q)
  <2> DEFINE k == runs[n] + 1
             new == [Fresh EXCEPT !.pc = "running", !.dests = {from} \cap RunId,
                                  !.flowList = Listed[f], !.withUri = Known[f]]
  <2>1. k \in RunIndex /\ runs \in [Nodes -> 0 .. MaxRuns]
    BY <1>4 DEF LaunchTask, TypeOK
  <2>2. run' = [run EXCEPT ![<<n, k>>] = new] /\ runs' = [runs EXCEPT ![n] = k]
    BY <1>4 DEF LaunchTask
  <2>3. /\ new.pc = "running" /\ new.closed = FALSE /\ new.sentAll = FALSE
        /\ new.upstreamDone = FALSE /\ new.lastPacket = FALSE
    BY DEF Fresh
  <2> HIDE DEF new
  <2>4. CASE q = <<n, k>>
    BY <1>1, <2>1, <2>2, <2>3, <2>4 DEF Born
  <2>5. CASE q # <<n, k>>
    <3>1. run'[q] = run[q]
      BY <1>1, <2>2, <2>5
    <3>2. runs[q[1]] <= runs'[q[1]]
      BY <1>2, <2>1, <2>2 DEF RunId
    <3> QED
      BY <3>1, <3>2 DEF Moves
  <2> QED
    BY <2>4, <2>5
<1>5. ASSUME NEW f \in Flows, NEW n \in Nodes, NEW from \in Starters(n),
             JoinTask(f, n, from)
      PROVE  Moves(q)
  BY <1>1, <1>5, SameMoves DEF JoinTask, Runnable
<1>6. ASSUME NEW f \in Flows, NEW n \in Nodes, TerminateTask(f, n)
      PROVE  Moves(q)
  <2> DEFINE r == <<n, task[n]>>
             new == [run[r] EXCEPT !.killed = TRUE]
  <2>1. r \in RunId /\ run[r] \in Runnable
    BY <1>6, RunNumbers DEF TerminateTask, RunId, TypeOK
  <2>2. run' = [run EXCEPT ![r] = new] /\ runs' = runs
    BY <1>1, <1>6 DEF TerminateTask
  <2>3. /\ new.pc = run[r].pc /\ new.closed = run[r].closed
        /\ new.sentAll = run[r].sentAll /\ new.lastPacket = run[r].lastPacket
        /\ new.upstreamDone = run[r].upstreamDone
    BY <2>1 DEF Runnable
  <2> HIDE DEF new, r
  <2> QED
    BY <2>1, <2>2, <2>3, OneMoves
<1>7. ASSUME NEW f \in Flows, NEW n \in Nodes, LeaveTask(f, n)
      PROVE  Moves(q)
  <2> DEFINE r == <<n, task[n]>>
             new == [run[r] EXCEPT !.dests = {d \in @ : d[1] # Down[f][n]}]
  <2>1. r \in RunId /\ run[r] \in Runnable
    BY <1>7, RunNumbers DEF LeaveTask, RunId, TypeOK
  <2>2. run' = [run EXCEPT ![r] = new] /\ runs' = runs
    BY <1>1, <1>7 DEF LeaveTask
  <2>3. /\ new.pc = run[r].pc /\ new.closed = run[r].closed
        /\ new.sentAll = run[r].sentAll /\ new.lastPacket = run[r].lastPacket
        /\ new.upstreamDone = run[r].upstreamDone
    BY <2>1 DEF Runnable
  <2> HIDE DEF new, r
  <2> QED
    BY <2>1, <2>2, <2>3, OneMoves
<1>8. ASSUME NEW n \in Nodes, BeginReset(n)
      PROVE  Moves(q)
  <2>1. CASE task[n] = NoRun
    BY <1>8, <2>1, SameMoves DEF BeginReset
  <2>2. CASE task[n] # NoRun
    <3> DEFINE r == <<n, task[n]>>
               new == [run[r] EXCEPT !.killed = TRUE, !.reset = TRUE]
    <3>1. r \in RunId /\ run[r] \in Runnable
      BY <2>2, RunNumbers DEF RunId, TypeOK
    <3>2. run' = [run EXCEPT ![r] = new] /\ runs' = runs
      BY <1>1, <1>8, <2>2 DEF BeginReset
    <3>3. /\ new.pc = run[r].pc /\ new.closed = run[r].closed
          /\ new.sentAll = run[r].sentAll /\ new.lastPacket = run[r].lastPacket
          /\ new.upstreamDone = run[r].upstreamDone
      BY <3>1 DEF Runnable
    <3> HIDE DEF new, r
    <3> QED
      BY <3>1, <3>2, <3>3, OneMoves
  <2> QED
    BY <2>1, <2>2
<1>9. ASSUME NEW r \in RunId, Clean(r), ThreadDone(r), runs' = runs
      PROVE  Moves(q)
  <2> DEFINE new == [run[r] EXCEPT !.closed = TRUE]
  <2>1. r \in RunId /\ run[r] \in Runnable /\ run[r].pc = "ended"
    BY <1>9 DEF ThreadDone, TypeOK
  <2>2. run' = [run EXCEPT ![r] = new] /\ runs' = runs
    BY <1>9 DEF Clean
  <2>3. /\ new.pc = run[r].pc /\ new.closed = TRUE
        /\ new.sentAll = run[r].sentAll /\ new.lastPacket = run[r].lastPacket
        /\ new.upstreamDone = run[r].upstreamDone
    BY <2>1 DEF Runnable
  <2> HIDE DEF new
  <2> QED
    BY <2>1, <2>2, <2>3, OneMoves
<1>10. ASSUME NEW n \in Nodes, UpStreamDone(n)
      PROVE  Moves(q)
  <2>1. CASE listener[n] = NoRun
    BY <1>10, <2>1, SameMoves DEF UpStreamDone
  <2>2. CASE listener[n] # NoRun
    <3> DEFINE r == <<n, listener[n]>>
               new == [run[r] EXCEPT !.upstreamDone = TRUE]
    <3>1. r \in RunId /\ run[r] \in Runnable /\ r[1] = n
      BY <2>2, RunNumbers DEF RunId, TypeOK
    <3>2. run' = [run EXCEPT ![r] = new] /\ runs' = runs /\ InFlight(EndMsg(n))
      BY <1>10, <2>2 DEF UpStreamDone
    <3>3. /\ new.pc = run[r].pc /\ new.closed = run[r].closed
          /\ new.sentAll = run[r].sentAll /\ new.lastPacket = run[r].lastPacket
      BY <3>1 DEF Runnable
    <3> HIDE DEF new, r
    <3> QED
      BY <1>1, <1>2, <3>1, <3>2, <3>3 DEF Moves
  <2> QED
    BY <2>1, <2>2
<1>11. ASSUME NEW r \in RunId,
              Quit(r) \/ ReceiveTimeout(r) \/ Finish(r) \/ CleanUp(r)
       PROVE  Moves(q)
  <2>0. CASE ReceiveTimeout(r) /\ ~run[r].finalWait
    <3> DEFINE new == [run[r] EXCEPT !.finalWait = TRUE]
    <3>1. r \in RunId /\ run[r] \in Runnable
      BY DEF TypeOK
    <3>2. run' = [run EXCEPT ![r] = new] /\ runs' = runs
      BY <2>0 DEF ReceiveTimeout
    <3>3. /\ new.pc = run[r].pc /\ new.closed = run[r].closed
          /\ new.sentAll = run[r].sentAll /\ new.lastPacket = run[r].lastPacket
          /\ new.upstreamDone = run[r].upstreamDone
      BY <3>1 DEF Runnable
    <3> HIDE DEF new
    <3> QED
      BY <3>1, <3>2, <3>3, OneMoves
  <2>1. CASE Quit(r) \/ (ReceiveTimeout(r) /\ run[r].finalWait)
    <3> DEFINE new == [run[r] EXCEPT !.pc = "ending"]
    <3>1. r \in RunId /\ run[r] \in Runnable /\ run[r].pc \notin {"none", "ended"}
      BY <2>1 DEF Quit, ReceiveTimeout, TypeOK
    <3>2. run' = [run EXCEPT ![r] = new] /\ runs' = runs
      BY <1>1, <2>1 DEF Quit, ReceiveTimeout
    <3>3. /\ new.pc # "none" /\ new.closed = run[r].closed
          /\ new.sentAll = run[r].sentAll /\ new.lastPacket = run[r].lastPacket
          /\ new.upstreamDone = run[r].upstreamDone
      BY <3>1 DEF Runnable
    <3> HIDE DEF new
    <3> QED
      BY <3>1, <3>2, <3>3, OneMoves
  <2>2. CASE Finish(r) /\ run'[r].pc = "cleaning"
    <3> DEFINE new == [run[r] EXCEPT !.pc = "cleaning"]
    <3>1. r \in RunId /\ run[r] \in Runnable /\ run[r].pc \notin {"none", "ended"}
      BY <2>2 DEF Finish, TypeOK
    <3>2. run' = [run EXCEPT ![r] = new] /\ runs' = runs
      BY <1>1, <2>2 DEF Finish
    <3>3. /\ new.pc # "none" /\ new.closed = run[r].closed
          /\ new.sentAll = run[r].sentAll /\ new.lastPacket = run[r].lastPacket
          /\ new.upstreamDone = run[r].upstreamDone
      BY <3>1 DEF Runnable
    <3> HIDE DEF new
    <3> QED
      BY <3>1, <3>2, <3>3, OneMoves
  <2>3. CASE Finish(r) /\ run'[r].pc # "cleaning"
    <3> DEFINE new == [run[r] EXCEPT !.pc = "ended"]
    <3>1. r \in RunId /\ run[r] \in Runnable /\ run[r].pc \notin {"none", "ended"}
      BY <2>3 DEF Finish, TypeOK
    <3>2. run' = [run EXCEPT ![r] = new] /\ runs' = runs
      BY <1>1, <2>3 DEF Finish
    <3>3. /\ new.pc # "none" /\ new.closed = run[r].closed
          /\ new.sentAll = run[r].sentAll /\ new.lastPacket = run[r].lastPacket
          /\ new.upstreamDone = run[r].upstreamDone
      BY <3>1 DEF Runnable
    <3> HIDE DEF new
    <3> QED
      BY <3>1, <3>2, <3>3, OneMoves
  <2>4. CASE CleanUp(r)
    <3> DEFINE new == [run[r] EXCEPT !.pc = "ended", !.closed = TRUE]
    <3>1. r \in RunId /\ run[r] \in Runnable /\ run[r].pc \notin {"none", "ended"}
      BY <2>4 DEF CleanUp, TypeOK
    <3>2. run' = [run EXCEPT ![r] = new] /\ runs' = runs
      BY <1>1, <2>4 DEF CleanUp
    <3>3. /\ new.pc = "ended"
          /\ new.sentAll = run[r].sentAll /\ new.lastPacket = run[r].lastPacket
          /\ new.upstreamDone = run[r].upstreamDone
      BY <3>1 DEF Runnable
    <3> HIDE DEF new
    <3> QED
      BY <3>1, <3>2, <3>3, OneMoves
  <2> QED
    BY <1>11, <2>0, <2>1, <2>2, <2>3, <2>4
<1>12. ASSUME NEW r \in RunId, NEW Lost \in SUBSET run[r].dests,
              SourceSendsLast(r, Lost) \/ ReceiveLast(r, Lost)
       PROVE  Moves(q)
  <2>1. run[r] \in Runnable
    BY DEF TypeOK
  <2>2. CASE SourceSendsLast(r, Lost)
    BY <1>1, <1>2, <2>1, <2>2 DEF SourceSendsLast, SendLast, Moves, Runnable
  <2>3. CASE ReceiveLast(r, Lost)
    BY <1>1, <1>2, <2>1, <2>3 DEF ReceiveLast, SendLast, Moves, Runnable
  <2> QED
    BY <1>12, <2>2, <2>3
<1>13. ASSUME NEW f \in Flows, NEW n \in Nodes,
              TerminateTooEarly(f, n) \/ BeginRelease(f, n)
       PROVE  Moves(q)
  BY <1>13, SameMoves DEF TerminateTooEarly, BeginRelease
<1>14. ASSUME NEW f \in Flows, NEW r \in RunId, FinishRelease(f, r)
       PROVE  Moves(q)
  BY <1>9, <1>14 DEF FinishRelease
<1>15. ASSUME NEW n \in Nodes, FinishReset(n)
       PROVE  Moves(q)
  <2>1. <<n, resetting[n]>> \in RunId
    BY <1>15, RunNumbers DEF FinishReset, RunId, TypeOK
  <2> QED
    BY <1>9, <1>15, <2>1 DEF FinishReset
<1>16. ASSUME NEW m \in Message, DropAtGone(m)
       PROVE  Moves(q)
  BY <1>16, SameMoves DEF DropAtGone
<1>17. ASSUME NEW f \in Flows, StartFlow(f) \/ StopFlow(f)
       PROVE  Moves(q)
  BY <1>17, SameMoves DEF StartFlow, StopFlow
<1>18. ASSUME NEW n \in Nodes, RecordTask(n)
       PROVE  Moves(q)
  BY <1>18, SameMoves DEF RecordTask
<1>19. CASE UNCHANGED vars
  BY <1>19, SameMoves DEF vars
<1> QED
  BY <1>4, <1>5, <1>6, <1>7, <1>8, <1>10, <1>11, <1>12, <1>13, <1>14, <1>15,
     <1>16, <1>17, <1>18, <1>19 DEF Next

(* An end message is sent only by a runnable that has seen the end. *)
LEMMA EndMessageNeedsEnd ==
    ASSUME TypeOK, [Next]_vars, NEW n \in Nodes, InFlight(EndMsg(n))'
    PROVE  InFlight(EndMsg(n)) \/ \E r \in RunId : SawEnd(r)
<1> DEFINE e == EndMsg(n)
<1> SUFFICES ASSUME ~InFlight(e)
             PROVE  \E r \in RunId : SawEnd(r)
  OBVIOUS
<1>1. e \in Message
  BY EndMsgIsMessage
<1>2. ASSUME NEW In, NEW Out, Exchange(In, Out), e \notin Out
      PROVE  FALSE
  BY <1>1, <1>2, ExchangeAdds DEF TypeOK
<1>3. ASSUME UNCHANGED bus
      PROVE  FALSE
  BY <1>3 DEF InFlight
<1>5. \A f, k, from :
         e \notin {StartMsg(f, k, from)} /\ e \notin {StopMsg(f, k)} /\ e \notin {ReleaseMsg(f, k)}
  BY DEF EndMsg, StartMsg, StopMsg, ReleaseMsg
<1> HIDE DEF e
<1>6. ASSUME NEW f \in Flows, StartFlow(f) \/ StopFlow(f)
      PROVE  FALSE
  BY <1>2, <1>5, <1>6, ChainAssumption DEF StartFlow, StopFlow
<1>7. ASSUME NEW m \in Message, DropAtGone(m)
      PROVE  FALSE
  BY <1>2, <1>7 DEF DropAtGone
<1>8. ASSUME NEW f \in Flows, NEW k \in Nodes, NEW from \in Starters(k),
             LaunchTask(f, k, from) \/ JoinTask(f, k, from)
      PROVE  FALSE
  BY <1>2, <1>8 DEF LaunchTask, JoinTask
<1>9. ASSUME NEW k \in Nodes, RecordTask(k)
      PROVE  FALSE
  <2> DEFINE Out == IF Kind[k] = "source" THEN {}
                    ELSE {StartMsg(f, Up[k], <<k, launching[k]>>) : f \in starting[k]}
  <2>1. Exchange({}, Out)
    BY <1>9 DEF RecordTask
  <2>2. e \notin Out
    BY <1>5, ChainAssumption DEF TypeOK
  <2> HIDE DEF Out
  <2> QED
    BY <1>2, <2>1, <2>2
<1>10. ASSUME NEW k \in Nodes, BeginReset(k) \/ FinishReset(k)
       PROVE  FALSE
  BY <1>3, <1>10 DEF BeginReset, FinishReset
<1>11. ASSUME NEW k \in Nodes, UpStreamDone(k)
       PROVE  FALSE
  BY <1>2, <1>11 DEF UpStreamDone
<1>12. ASSUME NEW f \in Flows, NEW k \in Nodes,
              \/ TerminateTooEarly(f, k) \/ TerminateTask(f, k) \/ LeaveTask(f, k)
              \/ BeginRelease(f, k)
       PROVE  FALSE
  <2>1. CASE TerminateTooEarly(f, k) \/ BeginRelease(f, k)
    BY <1>2, <2>1 DEF TerminateTooEarly, BeginRelease
  <2>2. CASE TerminateTask(f, k)
    BY <1>2, <1>5, <2>2, ChainAssumption DEF TerminateTask
  <2>3. CASE LeaveTask(f, k)
    BY <1>2, <1>5, <2>3, ChainAssumption DEF LeaveTask
  <2> QED
    BY <1>12, <2>1, <2>2, <2>3
<1>13. ASSUME NEW f \in Flows, NEW r \in RunId, FinishRelease(f, r)
       PROVE  FALSE
  BY <1>2, <1>5, <1>13, ChainAssumption DEF FinishRelease, ReleaseDown, RunId
<1>14. ASSUME NEW r \in RunId, Quit(r) \/ ReceiveTimeout(r) \/ CleanUp(r)
       PROVE  FALSE
  BY <1>3, <1>14 DEF Quit, ReceiveTimeout, CleanUp, RunnableStep
<1>15. ASSUME NEW r \in RunId, NEW Lost \in SUBSET run[r].dests,
              SourceSendsLast(r, Lost) \/ ReceiveLast(r, Lost)
       PROVE  FALSE
  BY <1>3, <1>15 DEF SourceSendsLast, ReceiveLast, RunnableStep
<1>16. ASSUME NEW r \in RunId, Finish(r)
       PROVE  SawEnd(r)
  BY <1>2, <1>16 DEF Finish
<1>17. CASE UNCHANGED vars
  BY <1>3, <1>17 DEF vars
<1> QED
  BY <1>6, <1>7, <1>8, <1>9, <1>10, <1>11, <1>12, <1>13, <1>14, <1>15, <1>16,
     <1>17 DEF Next
-----------------------------------------------------------------------------
(* The inductive invariant. *)

(* The runnables that are still to be created have done nothing. *)
NotYetCreated ==
    \A r \in RunId : r[2] > runs[r[1]] => run[r].pc = "none" /\ ~run[r].sentAll

(* Whatever tells somebody that the stream is over tells the truth. *)
EndIsTrue ==
    /\ \A r \in RunId : run[r].upstreamDone \/ run[r].lastPacket => SourceSentAll
    /\ \A n \in Nodes : InFlight(EndMsg(n)) => SourceSentAll

IInv == TypeOK /\ NotYetCreated /\ NoCloseUnderThread /\ EndIsTrue

(* It holds initially. *)
LEMMA InitIInv == Init => IInv
<1> SUFFICES ASSUME Init PROVE IInv
  OBVIOUS
<1>1. \A r \in RunId : run[r] = Fresh
  BY DEF Init
<1>2. \A n \in Nodes : EndMsg(n) \in Message
  BY EndMsgIsMessage
<1>3. \A n \in Nodes : ~InFlight(EndMsg(n))
  BY <1>2 DEF Init, InFlight
<1> QED
  BY <1>1, <1>3, InitType DEF IInv, NotYetCreated, NoCloseUnderThread, EndIsTrue, Fresh

(* A source that has sent everything is not created anew. *)
LEMMA SentAllStays ==
    ASSUME TypeOK, TypeOK', NotYetCreated, [Next]_vars, SourceSentAll
    PROVE  SourceSentAll'
<1>1. PICK r \in RunId : Kind[r[1]] = "source" /\ run[r].sentAll
  BY DEF SourceSentAll
<1>2. ~Born(r)
  <2>1. runs[r[1]] \in Nat
    BY RunNumbers, ChainAssumption DEF RunId, TypeOK
  <2> QED
    BY <1>1, <2>1 DEF NotYetCreated, Born
<1>3. run'[r].sentAll
  BY <1>1, <1>2, StepMoves DEF Moves
<1> QED
  BY <1>1, <1>3 DEF SourceSentAll

(* Every step keeps it.  An end is announced by a message or by the last packet,
   both sent by somebody who knew, and the first to know is the source. *)
LEMMA StepIInv == IInv /\ [Next]_vars => IInv'
<1> SUFFICES ASSUME IInv, [Next]_vars
             PROVE  IInv'
  OBVIOUS
<1>1. TypeOK /\ TypeOK'
  BY StepType DEF IInv
<1>2. \A r \in RunId : Born(r) \/ Moves(r)
  BY <1>1, StepMoves
<1>3. \A r \in RunId : runs[r[1]] \in Nat /\ runs'[r[1]] \in Nat /\ r[2] \in Nat
  <2>1. \A r \in RunId : r[1] \in Nodes /\ r[2] \in RunIndex
    BY DEF RunId
  <2>2. runs \in [Nodes -> 0 .. MaxRuns] /\ runs' \in [Nodes -> 0 .. MaxRuns]
    BY <1>1 DEF TypeOK
  <2> TAKE r \in RunId
  <2>3. runs[r[1]] \in 0 .. MaxRuns /\ runs'[r[1]] \in 0 .. MaxRuns
    BY <2>1, <2>2
  <2>4. \A i \in 0 .. MaxRuns : i \in Nat
    BY ChainAssumption
  <2> QED
    BY <2>1, <2>3, <2>4, RunNumbers
<1>4. SourceSentAll => SourceSentAll'
  BY <1>1, SentAllStays DEF IInv
<1>5. NotYetCreated'
  <2> SUFFICES ASSUME NEW r \in RunId, r[2] > runs'[r[1]]
               PROVE  run'[r].pc = "none" /\ ~run'[r].sentAll
    BY DEF NotYetCreated
  <2>1. Moves(r)
    BY <1>2, <1>3 DEF Born
  <2>2. run[r].pc = "none" /\ ~run[r].sentAll
    BY <1>3, <2>1 DEF Moves, IInv, NotYetCreated
  <2> QED
    BY <2>1, <2>2 DEF Moves
<1>6. NoCloseUnderThread'
  <2> SUFFICES ASSUME NEW r \in RunId, run'[r].closed
               PROVE  run'[r].pc = "ended"
    BY DEF NoCloseUnderThread
  <2>1. Moves(r)
    BY <1>2 DEF Born
  <2> QED
    BY <2>1 DEF Moves, IInv, NoCloseUnderThread
<1>7. EndIsTrue'
  <2>1. ASSUME NEW r \in RunId, run'[r].upstreamDone
        PROVE  SourceSentAll'
    <3>1. Moves(r)
      BY <1>2, <2>1 DEF Born
    <3>2. r[1] \in Nodes
      BY DEF RunId
    <3> QED
      BY <1>4, <2>1, <3>1, <3>2 DEF Moves, IInv, EndIsTrue
  <2>2. ASSUME NEW r \in RunId, run'[r].lastPacket
        PROVE  SourceSentAll'
    <3>1. Moves(r)
      BY <1>2, <2>2 DEF Born
    <3> QED
      BY <1>4, <2>2, <3>1 DEF Moves, IInv, EndIsTrue, SourceSentAll
  <2>3. ASSUME NEW n \in Nodes, InFlight(EndMsg(n))'
        PROVE  SourceSentAll'
    <3>1. CASE InFlight(EndMsg(n))
      BY <1>4, <3>1 DEF IInv, EndIsTrue
    <3>2. CASE \E r \in RunId : SawEnd(r)
      BY <1>4, <3>2 DEF IInv, EndIsTrue, SawEnd, SourceSentAll
    <3> QED
      BY <1>1, <2>3, <3>1, <3>2, EndMessageNeedsEnd
  <2> QED
    BY <2>1, <2>2, <2>3 DEF EndIsTrue
<1> QED
  BY <1>1, <1>5, <1>6, <1>7 DEF IInv
-----------------------------------------------------------------------------
(* The state of the chain is always well typed. *)
THEOREM TypeCorrect == Spec => []TypeOK
<1>1. Init => TypeOK
  BY InitType
<1>2. TypeOK /\ [Next]_vars => TypeOK'
  BY StepType
<1> QED
  BY <1>1, <1>2, PTL DEF Spec

(* clean never closes the sockets of a runnable whose thread still runs,
   whichever of thread, releaseResource and reset calls it. *)
THEOREM SocketsOutliveThread == Spec => []NoCloseUnderThread
<1>1. IInv => NoCloseUnderThread
  BY DEF IInv
<1> QED
  BY <1>1, InitIInv, StepIInv, PTL DEF Spec

(* In every topology, a node learns that its upstream is done only after the
   source has sent everything. *)
THEOREM EndIsNeverFalse == Spec => []NoFalseEnd
<1>1. IInv => NoFalseEnd
  BY DEF IInv, EndIsTrue, NoFalseEnd
<1> QED
  BY <1>1, InitIInv, StepIInv, PTL DEF Spec
-----------------------------------------------------------------------------
(* Who is told of the end.  The end message goes to the downstream nodes of  *)
(* the flows in a runnable's stream, the data to its destinations; the two   *)
(* are kept by different operations.  They agree when the nodes name each    *)
(* other as upstream and downstream along every flow, and when the stream    *)
(* that is sent with a flow lists all flows, as in one work config; a flow   *)
(* that joins a stream which does not list it displaces another one.         *)

\* Along each flow the downstream of a node's upstream is the node.
TopologyAgrees ==
    \A f \in Flows : \A n \in Path(f) :
        Kind[n] # "source" => Up[n] # n /\ Down[f][Up[n]] = n

ListsAll(list) == \A g \in Flows : \E i \in 1 .. Len(list) : list[i] = g

\* A flow is started when its nodes have their URIs (Flow.canRun).
StartedWhenKnown == \A f \in Flows : f \in Known[f]

\* The flows came in one work config.
UploadedTogether == \A f \in Flows : ListsAll(Listed[f])

(* A set of positions that is not empty has a first one. *)
LEMMA FirstExists ==
    ASSUME NEW S \in SUBSET Nat, S # {}
    PROVE  \E i \in S : \A j \in S : i <= j
<1> DEFINE R == OpToRel(<, Nat)
<1>1. IsWellFoundedOn(R, Nat)
  BY NatLessThanWellFounded
<1>2. PICK i \in S : \A j \in S : ~ (<<j, i>> \in R)
  <2> HIDE DEF R
  <2> QED
    BY <1>1, WFMin
<1>3. \A j \in S : ~ (j < i)
  BY <1>2 DEF OpToRel
<1> QED
  BY <1>3

(* replaceFlow keeps every flow of a list that has the flow in question. *)
LEMMA ReplaceFlowKeeps ==
    ASSUME NEW list \in Seq(Flows), NEW f \in Flows, ListsAll(list)
    PROVE  ListsAll(ReplaceFlow(list, f))
<1> DEFINE found == {i \in 1 .. Len(list) : list[i] = f}
           idx == CHOOSE i \in found : \A j \in found : i <= j
           rest == [i \in 1 .. Len(list) - 1 |-> IF i < idx THEN list[i] ELSE list[i + 1]]
<1>1. found # {} /\ found \in SUBSET Nat
  BY DEF ListsAll
<1>2. idx \in 1 .. Len(list) /\ list[idx] = f
  <2>1. \E i \in found : \A j \in found : i <= j
    <3> HIDE DEF found
    <3> QED
      BY <1>1, FirstExists
  <2>2. idx \in found
    <3> HIDE DEF found
    <3> QED
      BY <2>1
  <2> QED
    BY <2>2
<1>3. ReplaceFlow(list, f) = Append(rest, f)
  BY <1>1 DEF ReplaceFlow
<1>4. Len(list) - 1 \in Nat
  BY <1>2
<1> HIDE DEF found, idx
<1>5. rest \in [1 .. Len(list) - 1 -> Flows]
  OBVIOUS
<1>6. rest \in Seq(Flows) /\ Len(rest) = Len(list) - 1
  <2> HIDE DEF rest
  <2> QED
    BY <1>4, <1>5
<1>7. ASSUME NEW g \in Flows
      PROVE  \E i \in 1 .. Len(list) : Append(rest, f)[i] = g
  <2>1. CASE g = f
    <3>1. Append(rest, f)[Len(list)] = f
      BY <1>4, <1>6
    <3> QED
      BY <1>2, <2>1, <3>1
  <2>2. CASE g # f
    <3>1. PICK i \in 1 .. Len(list) : list[i] = g
      BY DEF ListsAll
    <3>2. CASE i < idx
      <4>1. i \in 1 .. Len(list) - 1 /\ rest[i] = g
        BY <1>2, <3>1, <3>2
      <4>2. Append(rest, f)[i] = rest[i]
        BY <1>6, <4>1
      <4> QED
        BY <4>1, <4>2
    <3>3. CASE i > idx
      <4>1. i - 1 \in 1 .. Len(list) - 1 /\ rest[i - 1] = g
        BY <1>2, <3>1, <3>3
      <4>2. Append(rest, f)[i - 1] = rest[i - 1] /\ i - 1 \in 1 .. Len(list)
        BY <1>6, <4>1
      <4> QED
        BY <4>1, <4>2
    <3>4. i = idx \/ i < idx \/ i > idx
      BY <1>2, <3>1
    <3> QED
      BY <1>2, <2>2, <3>1, <3>2, <3>3, <3>4
  <2> QED
    BY <2>1, <2>2
<1>8. Len(Append(rest, f)) = Len(list)
  BY <1>4, <1>6
<1> QED
  BY <1>3, <1>7, <1>8 DEF ListsAll

\* The runnable is created for a flow.
TakesUp(q) ==
    \E f \in Flows : \E from \in Starters(q[1]) :
        /\ InFlight(StartMsg(f, q[1], from))
        /\ q[2] = runs[q[1]] + 1
        /\ run'[q].dests = {from} \cap RunId
        /\ run'[q].flowList = Listed[f] /\ run'[q].withUri = Known[f]

\* A flow joins it.
Joins(q) ==
    \E f \in Flows : \E from \in Starters(q[1]) :
        /\ InFlight(StartMsg(f, q[1], from))
        /\ from \in RunId /\ task[q[1]] = q[2] /\ task[q[1]] # NoRun
        /\ run'[q].dests \subseteq run[q].dests \cup {from}
        /\ run'[q].flowList = ReplaceFlow(run[q].flowList, f)
        /\ run'[q].withUri = run[q].withUri \cup {f}
        /\ run'[q].pc = run[q].pc

\* It gains no destination, and after its loop it goes on with Finish.
Serves(q) ==
    /\ run'[q].dests \subseteq run[q].dests
    /\ run'[q].flowList = run[q].flowList /\ run'[q].withUri = run[q].withUri
    /\ run[q].pc = "ending" => run'[q].pc = "ending" \/ Finish(q)

(* A step that changes one runnable. *)
LEMMA OneServes ==
    ASSUME TypeOK, NEW q \in RunId, NEW r \in RunId, NEW new,
           run' = [run EXCEPT ![r] = new],
           new.dests \subseteq run[r].dests,
           new.flowList = run[r].flowList, new.withUri = run[r].withUri,
           new.pc = run[r].pc \/ run[r].pc # "ending" \/ Finish(r)
    PROVE  Serves(q)
<1>1. run'[q] = IF q = r THEN new ELSE run[q]
  BY DEF TypeOK
<1> QED
  BY <1>1 DEF Serves

(* Every step creates the runnable, lets a flow join it, or leaves what it
   serves. *)
LEMMA StepServes ==
    ASSUME TypeOK, [Next]_vars, NEW q \in RunId
    PROVE  TakesUp(q) \/ Joins(q) \/ Serves(q)
<1> USE DEF RunnableStep
<1>1. run \in [RunId -> Runnable] /\ run[q] \in Runnable /\ q[1] \in Nodes /\ q = <<q[1], q[2]>>
  BY DEF TypeOK, RunId
<1>2. ASSUME UNCHANGED run
      PROVE  Serves(q)
  BY <1>2 DEF Serves
<1>3. \A n \in Nodes : task[n] # NoRun => <<n, task[n]>> \in RunId
  BY RunNumbers DEF RunId, TypeOK
<1>4. ASSUME NEW f \in Flows, NEW n \in Nodes, NEW from \in Starters(n),
             LaunchTask(f, n, from)
      PROVE  TakesUp(q) \/ Serves(q)
  <2> DEFINE k == runs[n] + 1
             new == [Fresh EXCEPT !.pc = "running", !.dests = {from} \cap RunId,
                                  !.flowList = Listed[f], !.withUri = Known[f]]
  <2>1. run' = [run EXCEPT ![<<n, k>>] = new] /\ InFlight(StartMsg(f, n, from))
    BY <1>4 DEF LaunchTask
  <2>2. /\ new.dests = {from} \cap RunId
        /\ new.flowList = Listed[f] /\ new.withUri = Known[f]
    BY DEF Fresh
  <2> HIDE DEF new
  <2>3. CASE q = <<n, k>>
    BY <1>1, <2>1, <2>2, <2>3 DEF TakesUp
  <2>4. CASE q # <<n, k>>
    <3>1. run'[q] = run[q]
      BY <1>1, <2>1, <2>4
    <3> QED
      BY <3>1 DEF Serves
  <2> QED
    BY <2>3, <2>4
<1>5. ASSUME NEW f \in Flows, NEW n \in Nodes, NEW from \in Starters(n),
             JoinTask(f, n, from)
      PROVE  Joins(q) \/ Serves(q)
  <2> DEFINE r == <<n, task[n]>>
             new == [run[r] EXCEPT !.dests = {d \in @ : d[1] # from[1]} \cup {from},
                                   !.flowList = ReplaceFlow(@, f),
                                   !.withUri = @ \cup {f}]
  <2>1. r \in RunId /\ run[r] \in Runnable /\ from \in RunId
    BY <1>1, <1>3, <1>5, StarterIsRunnable DEF JoinTask
  <2>2. run' = [run EXCEPT ![r] = new] /\ InFlight(StartMsg(f, n, from)) /\ task[n] # NoRun
    BY <1>1, <1>5, <2>1 DEF JoinTask
  <2>3. /\ new.dests \subseteq run[r].dests \cup {from}
        /\ new.flowList = ReplaceFlow(run[r].flowList, f)
        /\ new.withUri = run[r].withUri \cup {f} /\ new.pc = run[r].pc
    BY <2>1 DEF Runnable
  <2> HIDE DEF new
  <2>4. CASE q = r
    <3>1. run'[q] = new /\ q[1] = n /\ q[2] = task[n]
      BY <1>1, <2>2, <2>4
    <3> QED
      BY <2>1, <2>2, <2>3, <2>4, <3>1 DEF Joins
  <2>5. CASE q # r
    <3>1. run'[q] = run[q]
      BY <1>1, <2>2, <2>5
    <3> QED
      BY <3>1 DEF Serves
  <2> QED
    BY <2>4, <2>5
<1>6. ASSUME NEW f \in Flows, NEW n \in Nodes, TerminateTask(f, n)
      PROVE  Serves(q)
  <2> DEFINE r == <<n, task[n]>>
             new == [run[r] EXCEPT !.killed = TRUE]
  <2>1. r \in RunId /\ run[r] \in Runnable
    BY <1>1, <1>3, <1>6 DEF TerminateTask
  <2>2. run' = [run EXCEPT ![r] = new]
    BY <1>1, <1>6 DEF TerminateTask
  <2>3. /\ new.dests \subseteq run[r].dests /\ new.pc = run[r].pc
        /\ new.flowList = run[r].flowList /\ new.withUri = run[r].withUri
    BY <2>1 DEF Runnable
  <2> HIDE DEF new, r
  <2> QED
    BY <2>1, <2>2, <2>3, OneServes
<1>7. ASSUME NEW f \in Flows, NEW n \in Nodes, LeaveTask(f, n)
      PROVE  Serves(q)
  <2> DEFINE r == <<n, task[n]>>
             new == [run[r] EXCEPT !.dests = {d \in @ : d[1] # Down[f][n]}]
  <2>1. r \in RunId /\ run[r] \in Runnable
    BY <1>1, <1>3, <1>7 DEF LeaveTask
  <2>2. run' = [run EXCEPT ![r] = new]
    BY <1>1, <1>7 DEF LeaveTask
  <2>3. /\ new.dests \subseteq run[r].dests /\ new.pc = run[r].pc
        /\ new.flowList = run[r].flowList /\ new.withUri = run[r].withUri
    BY <2>1 DEF Runnable
  <2> HIDE DEF new, r
  <2> QED
    BY <2>1, <2>2, <2>3, OneServes
<1>8. ASSUME NEW n \in Nodes, BeginReset(n)
      PROVE  Serves(q)
  <2>1. CASE task[n] = NoRun
    BY <1>2, <1>8, <2>1 DEF BeginReset
  <2>2. CASE task[n] # NoRun
    <3> DEFINE r == <<n, task[n]>>
               new == [run[r] EXCEPT !.killed = TRUE, !.reset = TRUE]
    <3>1. r \in RunId /\ run[r] \in Runnable
      BY <1>1, <1>3, <2>2
    <3>2. run' = [run EXCEPT ![r] = new]
      BY <1>1, <1>8, <2>2 DEF BeginReset
    <3>3. /\ new.dests \subseteq run[r].dests /\ new.pc = run[r].pc
          /\ new.flowList = run[r].flowList /\ new.withUri = run[r].withUri
      BY <3>1 DEF Runnable
    <3> HIDE DEF new, r
    <3> QED
      BY <3>1, <3>2, <3>3, OneServes
  <2> QED
    BY <2>1, <2>2
<1>9. ASSUME NEW r \in RunId, Clean(r)
      PROVE  Serves(q)
  <2> DEFINE new == [run[r] EXCEPT !.closed = TRUE]
  <2>1. run[r] \in Runnable /\ run' = [run EXCEPT ![r] = new]
    BY <1>1, <1>9 DEF Clean
  <2>2. /\ new.dests \subseteq run[r].dests /\ new.pc = run[r].pc
        /\ new.flowList = run[r].flowList /\ new.withUri = run[r].withUri
    BY <2>1 DEF Runnable
  <2> HIDE DEF new
  <2> QED
    BY <2>1, <2>2, OneServes
<1>10. ASSUME NEW n \in Nodes, UpStreamDone(n)
       PROVE  Serves(q)
  <2>1. CASE listener[n] = NoRun
    BY <1>2, <1>10, <2>1 DEF UpStreamDone
  <2>2. CASE listener[n] # NoRun
    <3> DEFINE r == <<n, listener[n]>>
               new == [run[r] EXCEPT !.upstreamDone = TRUE]
    <3>1. r \in RunId /\ run[r] \in Runnable
      BY <2>2, RunNumbers DEF RunId, TypeOK
    <3>2. run' = [run EXCEPT ![r] = new]
      BY <1>10, <2>2 DEF UpStreamDone
    <3>3. /\ new.dests \subseteq run[r].dests /\ new.pc = run[r].pc
          /\ new.flowList = run[r].flowList /\ new.withUri = run[r].withUri
      BY <3>1 DEF Runnable
    <3> HIDE DEF new, r
    <3> QED
      BY <3>1, <3>2, <3>3, OneServes
  <2> QED
    BY <2>1, <2>2
<1>11. ASSUME NEW r \in RunId, ReceiveTimeout(r) \/ Quit(r) \/ CleanUp(r)
       PROVE  Serves(q)
  <2>1. PICK new \in {[run[r] EXCEPT !.finalWait = TRUE], [run[r] EXCEPT !.pc = "ending"],
                      [run[r] EXCEPT !.pc = "ended", !.closed = TRUE]} :
           run' = [run EXCEPT ![r] = new]
    BY <1>11 DEF ReceiveTimeout, Quit, CleanUp
  <2>2. run[r] \in Runnable /\ run[r].pc # "ending"
    BY <1>1, <1>11 DEF ReceiveTimeout, Quit, CleanUp
  <2>3. /\ new.dests \subseteq run[r].dests
        /\ new.flowList = run[r].flowList /\ new.withUri = run[r].withUri
    BY <2>1, <2>2 DEF Runnable
  <2> QED
    BY <2>1, <2>2, <2>3, OneServes
<1>12. ASSUME NEW r \in RunId, Finish(r)
       PROVE  Serves(q)
  <2>1. PICK pc : run' = [run EXCEPT ![r].pc = pc]
    BY <1>12 DEF Finish
  <2> DEFINE new == [run[r] EXCEPT !.pc = pc]
  <2>2. run[r] \in Runnable /\ run' = [run EXCEPT ![r] = new]
    BY <1>1, <2>1
  <2>3. /\ new.dests \subseteq run[r].dests
        /\ new.flowList = run[r].flowList /\ new.withUri = run[r].withUri
    BY <2>2 DEF Runnable
  <2> HIDE DEF new
  <2> QED
    BY <1>12, <2>2, <2>3, OneServes
<1>13. ASSUME NEW r \in RunId, NEW Lost \in SUBSET run[r].dests,
              SourceSendsLast(r, Lost) \/ ReceiveLast(r, Lost)
       PROVE  Serves(q)
  <2>1. run[r] \in Runnable /\ run[r].pc = "running"
    BY <1>1, <1>13 DEF SourceSendsLast, ReceiveLast
  <2>2. CASE SourceSendsLast(r, Lost)
    BY <1>1, <2>1, <2>2 DEF SourceSendsLast, SendLast, Serves, Runnable
  <2>3. CASE ReceiveLast(r, Lost)
    BY <1>1, <2>1, <2>3 DEF ReceiveLast, SendLast, Serves, Runnable
  <2> QED
    BY <1>13, <2>2, <2>3
<1>14. ASSUME NEW n \in Nodes, FinishReset(n)
       PROVE  Serves(q)
  <2>1. <<n, resetting[n]>> \in RunId
    BY <1>14, RunNumbers DEF FinishReset, RunId, TypeOK
  <2> QED
    BY <1>9, <1>14, <2>1 DEF FinishReset
<1>15. ASSUME NEW f \in Flows, NEW r \in RunId, FinishRelease(f, r)
       PROVE  Serves(q)
  BY <1>9, <1>15 DEF FinishRelease
<1>16. ASSUME \/ \E m \in Message : DropAtGone(m)
              \/ \E f \in Flows : StartFlow(f) \/ StopFlow(f)
              \/ \E f \in Flows, n \in Nodes : TerminateTooEarly(f, n) \/ BeginRelease(f, n)
              \/ \E n \in Nodes : RecordTask(n)
              \/ UNCHANGED vars
       PROVE  Serves(q)
  BY <1>2, <1>16 DEF DropAtGone, StartFlow, StopFlow, TerminateTooEarly, BeginRelease,
                     RecordTask, vars
<1> QED
  BY <1>4, <1>5, <1>6, <1>7, <1>8, <1>10, <1>11, <1>12, <1>13, <1>14, <1>15, <1>16
     DEF Next

\* A start message is for a node on the flow's path, and names a runnable of its
\* downstream node there.
Fits(f, n, from) ==
    n \in Path(f) /\ (from \in RunId => from[1] = Down[f][n] /\ from[1] # n)

\* How flows reach a node.
StartsFit ==
    /\ \A f \in Flows, n \in Nodes : \A from \in Starters(n) :
          InFlight(StartMsg(f, n, from)) => Fits(f, n, from)
    /\ \A n \in Nodes : \A f \in starting[n] : n \in Path(f)

\* The runnable that a flow may join knows all flows.
TasksListAll ==
    \A n \in Nodes :
        /\ task[n] # NoRun => ListsAll(run[<<n, task[n]>>].flowList)
        /\ launching[n] # NoRun => ListsAll(run[<<n, launching[n]>>].flowList)

\* The node of each destination is downstream on a flow of the runnable's stream.
DestsAreDownstream ==
    \A r \in RunId : \A d \in run[r].dests :
        \E f \in run[r].withUri : Down[f][r[1]] = d[1] /\ d[1] # r[1]

EndInv == StartsFit /\ DestsAreDownstream

\* The runnables that send, and those that a flow may join, know all flows.
ListInv == TasksListAll /\ \A r \in RunId : run[r].dests # {} => ListsAll(run[r].flowList)

(* A start message is a message. *)
LEMMA StartMsgIsMessage ==
    ASSUME NEW f \in Flows, NEW n \in Nodes, NEW from \in Starters(n)
    PROVE  StartMsg(f, n, from) \in Message
<1>1. StartMsg(f, n, from) \in [type : {"start"}, flow : Flows, node : {n}, from : Starters(n)]
  BY DEF StartMsg
<1>2. StartMsg(f, n, from) \in StartMessage
  BY <1>1 DEF StartMessage
<1> QED
  BY <1>2 DEF Message

(* The Master sends start messages to sinks, executeTask to the upstream. *)
LEMMA StartMessageSent ==
    ASSUME TypeOK, [Next]_vars, NEW f \in Flows, NEW n \in Nodes, NEW from \in Starters(n),
           InFlight(StartMsg(f, n, from))'
    PROVE  \/ InFlight(StartMsg(f, n, from))
           \/ n = Sink[f] /\ from = <<Sink[f], 0>>
           \/ \E k \in Nodes : /\ Kind[k] # "source" /\ f \in starting[k]
                               /\ n = Up[k] /\ from = <<k, launching[k]>>
<1> DEFINE e == StartMsg(f, n, from)
           Goal == \/ n = Sink[f] /\ from = <<Sink[f], 0>>
                   \/ \E k \in Nodes : /\ Kind[k] # "source" /\ f \in starting[k]
                                       /\ n = Up[k] /\ from = <<k, launching[k]>>
<1> SUFFICES ASSUME ~InFlight(e)
             PROVE  Goal
  OBVIOUS
<1>1. e \in Message
  BY StartMsgIsMessage
<1>2. ASSUME NEW In, NEW Out, Exchange(In, Out), e \notin Out
      PROVE  FALSE
  BY <1>1, <1>2, ExchangeAdds DEF TypeOK
<1>3. ASSUME UNCHANGED bus
      PROVE  FALSE
  BY <1>3 DEF InFlight
<1>4. \A g, k : e # StopMsg(g, k) /\ e # ReleaseMsg(g, k) /\ e # EndMsg(k)
  BY DEF EndMsg, StartMsg, StopMsg, ReleaseMsg
<1>5. \A g, k, h : e = StartMsg(g, k, h) => f = g /\ n = k /\ from = h
  BY DEF StartMsg
<1> HIDE DEF e
<1>6. ASSUME NEW g \in Flows, StartFlow(g)
      PROVE  Goal
  BY <1>2, <1>5, <1>6 DEF StartFlow
<1>7. ASSUME NEW g \in Flows, StopFlow(g)
      PROVE  Goal
  BY <1>2, <1>4, <1>7 DEF StopFlow
<1>8. ASSUME NEW k \in Nodes, RecordTask(k)
      PROVE  Goal
  <2> DEFINE Out == IF Kind[k] = "source" THEN {}
                    ELSE {StartMsg(g, Up[k], <<k, launching[k]>>) : g \in starting[k]}
  <2>1. Exchange({}, Out)
    BY <1>8 DEF RecordTask
  <2>2. e \in Out
    <3> HIDE DEF Out
    <3> QED
      BY <1>2, <2>1
  <2>3. Kind[k] # "source" /\ \E g \in starting[k] : e = StartMsg(g, Up[k], <<k, launching[k]>>)
    BY <2>2
  <2> QED
    BY <1>5, <2>3
<1>9. ASSUME NEW g \in Flows, NEW k \in Nodes, NEW h \in Starters(k),
             LaunchTask(g, k, h) \/ JoinTask(g, k, h)
      PROVE  FALSE
  BY <1>2, <1>9 DEF LaunchTask, JoinTask
<1>10. ASSUME NEW k \in Nodes, BeginReset(k) \/ FinishReset(k) \/ UpStreamDone(k)
       PROVE  FALSE
  BY <1>2, <1>3, <1>10 DEF BeginReset, FinishReset, UpStreamDone
<1>11. ASSUME NEW g \in Flows, NEW k \in Nodes,
              \/ TerminateTooEarly(g, k) \/ TerminateTask(g, k) \/ LeaveTask(g, k)
              \/ BeginRelease(g, k)
       PROVE  FALSE
  <2>1. CASE TerminateTooEarly(g, k) \/ BeginRelease(g, k)
    BY <1>2, <2>1 DEF TerminateTooEarly, BeginRelease
  <2>2. CASE TerminateTask(g, k)
    BY <1>2, <1>4, <2>2 DEF TerminateTask
  <2>3. CASE LeaveTask(g, k)
    BY <1>2, <1>4, <2>3 DEF LeaveTask
  <2> QED
    BY <1>11, <2>1, <2>2, <2>3
<1>12. ASSUME NEW g \in Flows, NEW r \in RunId, FinishRelease(g, r)
       PROVE  FALSE
  BY <1>2, <1>4, <1>12 DEF FinishRelease, ReleaseDown
<1>13. ASSUME NEW r \in RunId, Quit(r) \/ ReceiveTimeout(r) \/ CleanUp(r)
       PROVE  FALSE
  BY <1>3, <1>13 DEF Quit, ReceiveTimeout, CleanUp, RunnableStep
<1>14. ASSUME NEW r \in RunId, NEW Lost \in SUBSET run[r].dests,
              SourceSendsLast(r, Lost) \/ ReceiveLast(r, Lost)
       PROVE  FALSE
  BY <1>3, <1>14 DEF SourceSendsLast, ReceiveLast, RunnableStep
<1>15. ASSUME NEW r \in RunId, Finish(r)
       PROVE  FALSE
  <2> DEFINE Out == IF SawEnd(r) THEN {EndMsg(k) : k \in DownStreams(r)} ELSE {}
  <2>1. Exchange({}, Out) /\ e \notin Out
    BY <1>4, <1>15 DEF Finish
  <2> HIDE DEF Out
  <2> QED
    BY <1>2, <2>1
<1>16. ASSUME NEW m \in Message, DropAtGone(m)
       PROVE  FALSE
  BY <1>2, <1>16 DEF DropAtGone
<1>17. CASE UNCHANGED vars
  BY <1>3, <1>17 DEF vars
<1> QED
  BY <1>6, <1>7, <1>8, <1>9, <1>10, <1>11, <1>12, <1>13, <1>14, <1>15, <1>16, <1>17
     DEF Next

(* What executeTask keeps between its halves comes from a start message, and the
   map and the launch register receive what executeTask made. *)
LEMMA TaskSteps ==
    ASSUME TypeOK, [Next]_vars, NEW n \in Nodes
    PROVE  /\ \A f \in starting'[n] :
                 \/ f \in starting[n]
                 \/ f \in Flows /\ \E from \in Starters(n) : InFlight(StartMsg(f, n, from))
           /\ task'[n] \in {task[n], launching[n], NoRun}
           /\ \/ launching'[n] \in {launching[n], NoRun}
              \/ TakesUp(<<n, launching'[n]>>) /\ <<n, launching'[n]>> \in RunId
<1> DEFINE Asked(f) == f \in Flows /\ \E from \in Starters(n) : InFlight(StartMsg(f, n, from))
           Made(k) == TakesUp(<<n, k>>) /\ <<n, k>> \in RunId
           Goal == /\ \A f \in starting'[n] : f \in starting[n] \/ Asked(f)
                   /\ task'[n] \in {task[n], launching[n], NoRun}
                   /\ \/ launching'[n] \in {launching[n], NoRun}
                      \/ Made(launching'[n])
<1>1. ASSUME UNCHANGED <<starting, launching>>,
             UNCHANGED task \/ \E k \in Nodes : task' = [task EXCEPT ![k] = NoRun]
      PROVE  Goal
  <2>1. task'[n] \in {task[n], NoRun}
    BY <1>1 DEF TypeOK
  <2> HIDE DEF Asked, Made
  <2> QED
    BY <1>1, <2>1
<1>2. ASSUME NEW k \in Nodes, RecordTask(k)
      PROVE  Goal
  <2>1. /\ task'[n] = IF n = k THEN launching[n] ELSE task[n]
        /\ launching'[n] = IF n = k THEN NoRun ELSE launching[n]
        /\ starting'[n] = IF n = k THEN {} ELSE starting[n]
    BY <1>2 DEF RecordTask, TypeOK
  <2> HIDE DEF Asked, Made
  <2> QED
    BY <2>1
<1>3. ASSUME NEW f \in Flows, NEW k \in Nodes, NEW from \in Starters(k), LaunchTask(f, k, from)
      PROVE  Goal
  <2> DEFINE j == runs[k] + 1
             new == [Fresh EXCEPT !.pc = "running", !.dests = {from} \cap RunId,
                                  !.flowList = Listed[f], !.withUri = Known[f]]
  <2>1. /\ InFlight(StartMsg(f, k, from)) /\ task' = task /\ j \in RunIndex
        /\ run' = [run EXCEPT ![<<k, j>>] = new]
        /\ launching'[n] = IF n = k THEN j ELSE launching[n]
        /\ starting'[n] = IF n = k THEN {f} ELSE starting[n]
    BY <1>3 DEF LaunchTask, TypeOK
  <2>2. /\ new.dests = {from} \cap RunId
        /\ new.flowList = Listed[f] /\ new.withUri = Known[f]
    BY DEF Fresh
  <2> HIDE DEF new
  <2>3. CASE n = k
    <3>1. <<k, j>> \in RunId /\ run'[<<k, j>>] = new
      BY <2>1 DEF RunId, TypeOK
    <3>2. TakesUp(<<k, j>>)
      BY <2>1, <2>2, <3>1 DEF TakesUp
    <3>3. Made(j) /\ Asked(f)
      BY <2>1, <2>3, <3>1, <3>2
    <3> HIDE DEF Asked, Made
    <3> QED
      BY <2>1, <2>3, <3>3
  <2>4. CASE n # k
    <3> HIDE DEF Asked, Made
    <3> QED
      BY <2>1, <2>4
  <2> QED
    BY <2>3, <2>4
<1>4. ASSUME NEW f \in Flows, NEW k \in Nodes, NEW from \in Starters(k), JoinTask(f, k, from)
      PROVE  Goal
  BY <1>1, <1>4 DEF JoinTask
<1>5. ASSUME NEW k \in Nodes, BeginReset(k) \/ FinishReset(k) \/ UpStreamDone(k)
      PROVE  Goal
  BY <1>1, <1>5 DEF BeginReset, FinishReset, UpStreamDone, Clean
<1>6. ASSUME NEW f \in Flows, NEW k \in Nodes,
             \/ TerminateTooEarly(f, k) \/ TerminateTask(f, k) \/ LeaveTask(f, k)
             \/ BeginRelease(f, k)
      PROVE  Goal
  BY <1>1, <1>6 DEF TerminateTooEarly, TerminateTask, LeaveTask, BeginRelease
<1>7. ASSUME NEW f \in Flows, NEW r \in RunId, FinishRelease(f, r)
      PROVE  Goal
  BY <1>1, <1>7 DEF FinishRelease, Clean, RunId
<1>8. ASSUME NEW r \in RunId, Quit(r) \/ ReceiveTimeout(r) \/ Finish(r) \/ CleanUp(r)
      PROVE  Goal
  BY <1>1, <1>8 DEF Quit, ReceiveTimeout, Finish, CleanUp, RunnableStep, RunId
<1>9. ASSUME NEW r \in RunId, NEW Lost \in SUBSET run[r].dests,
             SourceSendsLast(r, Lost) \/ ReceiveLast(r, Lost)
      PROVE  Goal
  BY <1>1, <1>9 DEF SourceSendsLast, ReceiveLast, RunnableStep
<1>10. ASSUME \/ \E m \in Message : DropAtGone(m)
              \/ \E f \in Flows : StartFlow(f) \/ StopFlow(f)
              \/ UNCHANGED vars
       PROVE  Goal
  BY <1>1, <1>10 DEF DropAtGone, StartFlow, StopFlow, vars
<1> QED
  BY <1>2, <1>3, <1>4, <1>5, <1>6, <1>7, <1>8, <1>9, <1>10 DEF Next

(* Every step keeps the agreement of destinations and flows. *)
LEMMA StepEndInv ==
    ASSUME TopologyAgrees, StartedWhenKnown, IInv, EndInv, [Next]_vars
    PROVE  EndInv'
<1> USE ChainAssumption
<1>1. TypeOK /\ TypeOK'
  BY StepType DEF IInv
<1>2. \A r \in RunId : TakesUp(r) \/ Joins(r) \/ Serves(r)
  BY <1>1, StepServes
<1>3. StartsFit'
  <2>1. ASSUME NEW f \in Flows, NEW n \in Nodes, NEW from \in Starters(n),
               InFlight(StartMsg(f, n, from))'
        PROVE  Fits(f, n, from)
    <3>1. CASE InFlight(StartMsg(f, n, from))
      BY <3>1 DEF EndInv, StartsFit
    <3>2. CASE n = Sink[f] /\ from = <<Sink[f], 0>>
      <4>1. from \notin RunId
        BY <3>2, RunNumbers DEF RunId
      <4> QED
        BY <3>2, <4>1 DEF Fits, Path
    <3>3. ASSUME NEW k \in Nodes, Kind[k] # "source", f \in starting[k],
                 n = Up[k], from = <<k, launching[k]>>
          PROVE  Fits(f, n, from)
      <4>1. k \in Path(f)
        BY <3>3 DEF EndInv, StartsFit
      <4>2. Up[k] # k /\ Down[f][Up[k]] = k
        BY <3>3, <4>1 DEF TopologyAgrees
      <4> QED
        BY <3>3, <4>2 DEF Fits, Path
    <3> QED
      BY <1>1, <2>1, <3>1, <3>2, <3>3, StartMessageSent
  <2>2. ASSUME NEW n \in Nodes, NEW f \in starting'[n]
        PROVE  n \in Path(f)
    <3>1. \/ f \in starting[n]
          \/ f \in Flows /\ \E from \in Starters(n) : InFlight(StartMsg(f, n, from))
      BY <1>1, TaskSteps
    <3> QED
      BY <3>1 DEF EndInv, StartsFit, Fits
  <2> QED
    BY <2>1, <2>2 DEF StartsFit, Fits
<1>7. DestsAreDownstream'
  <2> SUFFICES ASSUME NEW r \in RunId, NEW d \in run'[r].dests
               PROVE  \E f \in run'[r].withUri : Down[f][r[1]] = d[1] /\ d[1] # r[1]
    BY DEF DestsAreDownstream
  <2>1. r[1] \in Nodes /\ r = <<r[1], r[2]>>
    BY DEF RunId
  <2>2. CASE TakesUp(r)
    <3>1. PICK f \in Flows : \E from \in Starters(r[1]) :
             /\ InFlight(StartMsg(f, r[1], from))
             /\ run'[r].dests = {from} \cap RunId
             /\ run'[r].withUri = Known[f]
      BY <2>2 DEF TakesUp
    <3>2. Fits(f, r[1], d) /\ d \in RunId
      BY <2>1, <3>1 DEF EndInv, StartsFit
    <3>3. f \in run'[r].withUri
      BY <3>1 DEF StartedWhenKnown
    <3> QED
      BY <3>2, <3>3 DEF Fits
  <2>3. CASE Joins(r)
    <3>1. PICK f \in Flows, from \in Starters(r[1]) :
             /\ InFlight(StartMsg(f, r[1], from))
             /\ from \in RunId
             /\ run'[r].dests \subseteq run[r].dests \cup {from}
             /\ run'[r].withUri = run[r].withUri \cup {f}
      BY <2>3 DEF Joins
    <3>2. Fits(f, r[1], from)
      BY <2>1, <3>1 DEF EndInv, StartsFit
    <3>4. \E g \in run'[r].withUri : Down[g][r[1]] = d[1] /\ d[1] # r[1]
      <4>1. CASE d = from
        BY <3>1, <3>2, <4>1 DEF Fits
      <4>2. CASE d \in run[r].dests
        BY <3>1, <4>2 DEF EndInv, DestsAreDownstream
      <4> QED
        BY <3>1, <4>1, <4>2
    <3> QED
      BY <3>4
  <2>4. CASE Serves(r)
    BY <2>4 DEF Serves, EndInv, DestsAreDownstream
  <2> QED
    BY <1>2, <2>2, <2>3, <2>4
<1> QED
  BY <1>3, <1>7 DEF EndInv

(* When the flows came in one work config, no list loses one. *)
LEMMA StepListInv ==
    ASSUME UploadedTogether, IInv, ListInv, [Next]_vars
    PROVE  ListInv'
<1> USE ChainAssumption
<1>1. TypeOK /\ TypeOK'
  BY StepType DEF IInv
<1>2. \A r \in RunId : TakesUp(r) \/ Joins(r) \/ Serves(r)
  BY <1>1, StepServes
<1>4. \A r \in RunId : ListsAll(run[r].flowList) => ListsAll(run'[r].flowList)
  <2> SUFFICES ASSUME NEW r \in RunId, ListsAll(run[r].flowList)
               PROVE  ListsAll(run'[r].flowList)
    OBVIOUS
  <2>1. CASE TakesUp(r)
    BY <2>1 DEF TakesUp, UploadedTogether
  <2>2. CASE Joins(r)
    <3>1. run[r].flowList \in Seq(Flows)
      BY <1>1 DEF TypeOK, Runnable
    <3> QED
      BY <2>2, <3>1, ReplaceFlowKeeps DEF Joins
  <2>3. CASE Serves(r)
    BY <2>3 DEF Serves
  <2> QED
    BY <1>2, <2>1, <2>2, <2>3
<1>5. \A r \in RunId : TakesUp(r) => ListsAll(run'[r].flowList)
  BY DEF TakesUp, UploadedTogether
<1>6. TasksListAll'
  <2> SUFFICES ASSUME NEW n \in Nodes
               PROVE  /\ task'[n] # NoRun => ListsAll(run'[<<n, task'[n]>>].flowList)
                      /\ launching'[n] # NoRun => ListsAll(run'[<<n, launching'[n]>>].flowList)
    BY DEF TasksListAll
  <2>1. /\ task[n] # NoRun => ListsAll(run[<<n, task[n]>>].flowList) /\ <<n, task[n]>> \in RunId
        /\ launching[n] # NoRun =>
              ListsAll(run[<<n, launching[n]>>].flowList) /\ <<n, launching[n]>> \in RunId
    BY <1>1, RunNumbers DEF ListInv, TasksListAll, RunId, TypeOK
  <2>2. /\ task'[n] \in {task[n], launching[n], NoRun}
        /\ \/ launching'[n] \in {launching[n], NoRun}
           \/ TakesUp(<<n, launching'[n]>>) /\ <<n, launching'[n]>> \in RunId
    BY <1>1, TaskSteps
  <2> QED
    BY <1>4, <1>5, <2>1, <2>2
<1>7. ASSUME NEW r \in RunId, run'[r].dests # {}
      PROVE  ListsAll(run'[r].flowList)
  <2>1. r[1] \in Nodes /\ r = <<r[1], r[2]>>
    BY DEF RunId
  <2>2. CASE TakesUp(r)
    BY <1>5, <2>2
  <2>3. CASE Joins(r)
    <3>1. ListsAll(run[r].flowList)
      BY <2>1, <2>3 DEF Joins, ListInv, TasksListAll
    <3> QED
      BY <1>4, <3>1
  <2>4. CASE Serves(r)
    BY <1>4, <1>7, <2>4 DEF Serves, ListInv
  <2> QED
    BY <1>2, <2>2, <2>3, <2>4
<1> QED
  BY <1>6, <1>7 DEF ListInv

LEMMA InitListInv == Init => ListInv
  BY DEF Init, ListInv, TasksListAll, Fresh

(* It holds initially. *)
LEMMA InitEndInv == Init => EndInv
<1> SUFFICES ASSUME Init PROVE EndInv
  OBVIOUS
<1>1. StartsFit
  BY StartMsgIsMessage DEF Init, StartsFit, InFlight
<1>2. DestsAreDownstream
  BY DEF Init, DestsAreDownstream, Fresh
<1> QED
  BY <1>1, <1>2 DEF EndInv

\* The flows in the list of a runnable, and the node of each destination that is
\* downstream on none of them: the flows that led to it have been displaced.
InList(r) == {run[r].flowList[i] : i \in 1 .. Len(run[r].flowList)}
Displaced(r, n) == \E f \in run[r].withUri \ InList(r) : Down[f][r[1]] = n

(* A runnable that leaves its end phase has told its destinations. *)
LEMMA StepTells ==
    ASSUME IInv, EndInv, [Next]_vars, NEW r \in RunId,
           run[r].pc = "ending", run'[r].pc # "ending", SawEnd(r),
           NEW d \in run[r].dests, ~Displaced(r, d[1])
    PROVE  InFlight(EndMsg(d[1]))'
<1>1. TypeOK /\ r[1] \in Nodes /\ run[r] \in Runnable
  BY DEF IInv, TypeOK, RunId
<1>2. ~TakesUp(r) /\ ~Joins(r)
  <2>1. runs[r[1]] \in Nat
    BY <1>1, RunNumbers, ChainAssumption DEF TypeOK
  <2> QED
    BY <2>1 DEF TakesUp, Joins, IInv, NotYetCreated
<1>3. Finish(r)
  BY <1>1, <1>2, StepServes DEF Serves
<1>4. PICK f \in run[r].withUri : Down[f][r[1]] = d[1] /\ d[1] # r[1]
  BY DEF EndInv, DestsAreDownstream
<1>5. f \in Flows
  BY <1>1 DEF Runnable
<1>7. d[1] \in DownStreams(r)
  BY <1>4 DEF DownStreams, Displaced, InList
<1>8. d[1] \in Nodes /\ EndMsg(d[1]) \in Message
  BY <1>1, EndMsgIsMessage DEF Runnable, RunId
<1>9. Exchange({}, {EndMsg(n) : n \in DownStreams(r)})
  BY <1>3 DEF Finish
<1>10. bus'[EndMsg(d[1])] = bus[EndMsg(d[1])] + 1 /\ bus[EndMsg(d[1])] \in Nat
  BY <1>1, <1>7, <1>8, <1>9 DEF Exchange, TypeOK
<1> QED
  BY <1>10 DEF InFlight

(* In every topology whose nodes agree about upstream and downstream, a runnable
   that has seen the end of the stream announces it to each node its data goes to,
   except one that it sends to for a flow that replaceFlow has displaced from the
   list of the runnable (sendEndMessageToDownstream, getDownStreamURIs). *)
TellsUnlessDisplaced ==
    [][\A r \in RunId :
          run[r].pc = "ending" /\ run'[r].pc # "ending" /\ SawEnd(r) =>
              \A d \in run[r].dests : InFlight(EndMsg(d[1]))' \/ Displaced(r, d[1])]_vars

(* However the flows were uploaded, started, stopped and joined, this holds: the
   displaced flows are the only ones whose nodes wait in vain. *)
THEOREM OnlyDisplacedAreNotTold ==
    ASSUME TopologyAgrees, StartedWhenKnown
    PROVE  Spec => TellsUnlessDisplaced
<1> DEFINE Told == \A r \in RunId :
                      run[r].pc = "ending" /\ run'[r].pc # "ending" /\ SawEnd(r) =>
                          \A d \in run[r].dests :
                              InFlight(EndMsg(d[1]))' \/ Displaced(r, d[1])
<1>1. IInv /\ EndInv /\ [Next]_vars => [Told]_vars
  BY StepTells
<1>2. IInv /\ EndInv /\ [Next]_vars => (IInv /\ EndInv)'
  BY StepIInv, StepEndInv
<1>3. Init => IInv /\ EndInv
  BY InitIInv, InitEndInv
<1>4. Spec => [][Told]_vars
  <2> HIDE DEF Told
  <2> QED
    BY <1>1, <1>2, <1>3, PTL DEF Spec
<1> QED
  BY <1>4 DEF TellsUnlessDisplaced

(* Flows of one work config displace each other never, so that there every node is
   told (Stream.replaceFlow). *)
COROLLARY DestinationsAreTold ==
    ASSUME TopologyAgrees, StartedWhenKnown, UploadedTogether
    PROVE  Spec => EveryDestinationIsTold
<1> DEFINE Told == \A r \in RunId :
                      run[r].pc = "ending" /\ run'[r].pc # "ending" /\ SawEnd(r) =>
                          \A d \in run[r].dests : InFlight(EndMsg(d[1]))'
           Inv == IInv /\ EndInv /\ ListInv
<1>1. Inv /\ [Next]_vars => [Told]_vars
  <2>1. ASSUME Inv, NEW r \in RunId, NEW d \in run[r].dests
        PROVE  ~Displaced(r, d[1])
    <3>1. ListsAll(run[r].flowList) /\ run[r].withUri \subseteq Flows
      BY <2>1 DEF ListInv, IInv, TypeOK, Runnable
    <3> QED
      BY <3>1 DEF Displaced, InList, ListsAll
  <2> QED
    BY <2>1, StepTells
<1>2. Inv /\ [Next]_vars => Inv'
  BY StepIInv, StepEndInv, StepListInv
<1>3. Init => Inv
  BY InitIInv, InitEndInv, InitListInv
<1>4. Spec => [][Told]_vars
  <2> HIDE DEF Told, Inv
  <2> QED
    BY <1>1, <1>2, <1>3, PTL DEF Spec
<1> QED
  BY <1>4 DEF EveryDestinationIsTold
-----------------------------------------------------------------------------
(* PacketLostTracker.                                                      *)

(* Division with remainder, and what it means for the slots of the buffer. *)

(* The quotient and the remainder of a natural number. *)
LEMMA DivMod ==
    ASSUME NEW w \in Nat \ {0}, NEW i \in Nat
    PROVE  /\ i % w \in 0 .. w - 1
           /\ i \div w \in Nat
           /\ i = (w * (i \div w)) + (i % w)
BY SMT

(* Two different ids of one window have different slots. *)
LEMMA ModInjective ==
    ASSUME NEW w \in Nat \ {0}, NEW i \in Nat, NEW j \in Nat, i < j, j < i + w
    PROVE  i % w # j % w
<1> SUFFICES ASSUME i % w = j % w
             PROVE  FALSE
  OBVIOUS
<1>1. PICK a \in Nat : i = (w * a) + (i % w)
  BY DivMod
<1>2. PICK b \in Nat : j = (w * b) + (j % w)
  BY DivMod
<1>3. i % w \in Int /\ w * a \in Int /\ w * b \in Int
  BY DivMod
<1>4. j - i = w * b - w * a
  BY <1>1, <1>2, <1>3
<1>5. w * b - w * a = w * (b - a)
  BY SMT
<1>6. b > a
  BY <1>4, <1>5, SMT
<1>7. w * (b - a) >= w
  BY <1>6, SMT
<1> QED
  BY <1>4, <1>5, <1>7, SMT

(* The id that enters the window gets the slot of the one that leaves it. *)
LEMMA ModNext ==
    ASSUME NEW w \in Nat \ {0}, NEW i \in Nat
    PROVE  (i + w) % w = i % w
<1> DEFINE r == i % w
           q == (i + w) % w
<1>1. PICK a \in Nat : i = (w * a) + r
  BY DivMod
<1>2. PICK b \in Nat : i + w = (w * b) + q
  <2>1. i + w \in Nat
    OBVIOUS
  <2> QED
    BY <2>1, DivMod
<1>3. r \in 0 .. w - 1 /\ q \in 0 .. w - 1
  <2>1. i + w \in Nat
    OBVIOUS
  <2> QED
    BY <2>1, DivMod
<1> HIDE DEF r, q
<1>4. q - r = w * ((a + 1) - b)
  BY <1>1, <1>2, <1>3, SMT
<1>5. CASE a + 1 > b
  <2>1. w * ((a + 1) - b) >= w
    BY <1>5, SMT
  <2> QED
    BY <2>1, <1>3, <1>4, SMT
<1>6. CASE a + 1 < b
  <2>1. w * (b - (a + 1)) >= w
    BY <1>6, SMT
  <2>2. w * (b - (a + 1)) = 0 - (w * ((a + 1) - b))
    BY SMT
  <2> QED
    BY <2>1, <2>2, <1>3, <1>4, SMT
<1>7. CASE a + 1 = b
  <2>1. q = r
    BY <1>3, <1>4, <1>7, SMT
  <2> QED
    BY <2>1 DEF q, r
<1> QED
  BY <1>5, <1>6, <1>7, SMT
-----------------------------------------------------------------------------
(* The inductive invariant.  LostIsExact needs to know what the slot that  *)
(* leaves the window says about its id, hence BufferShowsWindow; that in   *)
(* turn needs that no packet beyond the window has been taken in, so that  *)
(* the slot of the id that enters the window is right to be empty.         *)
TrackerIInv ==
    /\ TrackerTypeOK
    /\ BufferShowsWindow
    /\ LostIsExact
    /\ HighestIsInWindow
    /\ inTime = {} => maxRcvedPacketId = 0
    /\ arriving # None => minNonRcvedPacketId <= arriving
    /\ InstantRateIsFraction

(* The invariant holds before the first packet. *)
LEMMA TrackerInitIInv == WindowAssumption /\ TrackerInit => TrackerIInv
<1> SUFFICES ASSUME WindowAssumption, TrackerInit
             PROVE  TrackerIInv
  OBVIOUS
<1> USE DEF WindowAssumption, TrackerInit
<1>1. TrackerTypeOK
  BY DEF TrackerTypeOK, Slot, PacketId, NOT_RCVED, None
<1>2. BufferShowsWindow
  <2>1. ASSUME NEW i \in Window
        PROVE  buff[i % WindowSize] = NOT_RCVED
    <3>1. i \in Nat
      BY DEF Window
    <3>2. i % WindowSize \in Slot
      BY <3>1, DivMod DEF Slot
    <3> QED
      BY <3>2
  <2> QED
    BY <2>1 DEF BufferShowsWindow
<1>3. LostIsExact
  <2>1. Passed \ inTime = {}
    BY DEF Passed
  <2> QED
    BY <2>1, FS_EmptySet DEF LostIsExact
<1>4. HighestIsInWindow
  BY DEF HighestIsInWindow
<1>5. InstantRateIsFraction
  BY DEF InstantRateIsFraction, InstantRate
<1> QED
  BY <1>1, <1>2, <1>3, <1>4, <1>5 DEF TrackerIInv, None

(* The slot of the first id tells whether it has arrived. *)
LEMMA FirstSlot ==
    ASSUME WindowAssumption, TrackerIInv
    PROVE  /\ minNonRcvedPacketId % WindowSize \in Slot
           /\ buff[minNonRcvedPacketId % WindowSize] = NOT_RCVED
                 <=> minNonRcvedPacketId \notin inTime
<1> USE DEF WindowAssumption
<1>1. minNonRcvedPacketId \in Nat
  BY DEF TrackerIInv, TrackerTypeOK
<1>2. minNonRcvedPacketId \in Window
  BY <1>1 DEF Window
<1>3. minNonRcvedPacketId # NOT_RCVED
  BY <1>1 DEF NOT_RCVED
<1> QED
  BY <1>1, <1>2, <1>3, DivMod DEF TrackerIInv, BufferShowsWindow, Slot

(* One iteration of the loop keeps the invariant. *)
LEMMA SlideIInv == WindowAssumption /\ TrackerIInv /\ Slide => TrackerIInv'
<1> SUFFICES ASSUME WindowAssumption, TrackerIInv, Slide
             PROVE  TrackerIInv'
  OBVIOUS
<1> USE DEF WindowAssumption
<1> DEFINE m == minNonRcvedPacketId
           W == WindowSize
<1>1. /\ m \in Nat /\ m' = m + 1 /\ m' \in Nat
      /\ W \in Nat \ {0}
      /\ arriving \in PacketId /\ m + W <= arriving
      /\ inTime' = inTime /\ inTime \subseteq PacketId
      /\ buff \in [Slot -> PacketId \cup {NOT_RCVED}]
      /\ packetLostCounter \in Nat
  BY DEF TrackerIInv, TrackerTypeOK, Slide
<1>2. buff' = [buff EXCEPT ![m % W] = NOT_RCVED]
  <2>1. CASE buff[m % W] = NOT_RCVED
    BY <2>1, <1>1, FirstSlot DEF Slide
  <2>2. CASE buff[m % W] # NOT_RCVED
    BY <2>2 DEF Slide
  <2> QED
    BY <2>1, <2>2
<1>3. packetLostCounter' = packetLostCounter + (IF m \in inTime THEN 0 ELSE 1)
  BY <1>1, FirstSlot DEF Slide
<1>4. TrackerTypeOK'
  <2>1. buff' \in [Slot -> PacketId \cup {NOT_RCVED}]
    BY <1>1, <1>2
  <2>2. packetLostCounter' \in Nat
    BY <1>1, <1>3
  <2> QED
    BY <2>1, <2>2, <1>1 DEF TrackerIInv, TrackerTypeOK, Slide
<1>5. BufferShowsWindow'
  <2> SUFFICES ASSUME NEW i \in Window'
               PROVE  buff'[i % W] = IF i \in inTime THEN i ELSE NOT_RCVED
    BY <1>1 DEF BufferShowsWindow
  <2>1. i \in Nat /\ m < i /\ i <= m + W
    BY <1>1 DEF Window
  <2>2. CASE i = m + W
    <3>1. i % W = m % W
      BY <2>2, <1>1, ModNext
    <3>2. i \notin inTime
      BY <2>1, <2>2, <1>1 DEF TrackerIInv, HighestIsInWindow, TrackerTypeOK, PacketId
    <3> QED
      BY <3>1, <3>2, <1>1, <1>2, FirstSlot
  <2>3. CASE i < m + W
    <3>1. i % W # m % W
      BY <2>1, <2>3, <1>1, ModInjective
    <3>2. i % W \in Slot
      BY <2>1, <1>1, DivMod DEF Slot
    <3>3. i \in Window
      BY <2>1, <2>3, <1>1 DEF Window
    <3> QED
      BY <3>1, <3>2, <3>3, <1>1, <1>2 DEF TrackerIInv, BufferShowsWindow
  <2> QED
    BY <2>1, <2>2, <2>3, <1>1
<1>6. LostIsExact'
  <2>1. IsFiniteSet(Passed \ inTime)
    <3>1. IsFiniteSet(Passed)
      BY <1>1, FS_Interval DEF Passed
    <3> QED
      BY <3>1, FS_Difference
  <2>2. m \notin Passed \ inTime
    BY <1>1 DEF Passed
  <2>3. (Passed \ inTime)' = IF m \in inTime THEN Passed \ inTime
                             ELSE (Passed \ inTime) \cup {m}
    BY <1>1 DEF Passed
  <2>4. packetLostCounter = Cardinality(Passed \ inTime)
    BY DEF TrackerIInv, LostIsExact
  <2>5. CASE m \in inTime
    BY <2>3, <2>4, <2>5, <1>1, <1>3 DEF LostIsExact
  <2>6. CASE m \notin inTime
    <3>1. Cardinality((Passed \ inTime) \cup {m}) = Cardinality(Passed \ inTime) + 1
      BY <2>1, <2>2, FS_AddElement
    <3> QED
      BY <3>1, <2>3, <2>4, <2>6, <1>3 DEF LostIsExact
  <2> QED
    BY <2>5, <2>6
<1>7. HighestIsInWindow'
  BY <1>1 DEF TrackerIInv, HighestIsInWindow, Slide, TrackerTypeOK, PacketId
<1>8. InstantRateIsFraction'
  BY <1>1, <1>3 DEF TrackerIInv, InstantRateIsFraction, InstantRate, Slide, TrackerTypeOK
<1>9. /\ (inTime = {} => maxRcvedPacketId = 0)'
      /\ (arriving # None => minNonRcvedPacketId <= arriving)'
  BY <1>1 DEF TrackerIInv, Slide, PacketId
<1> QED
  BY <1>4, <1>5, <1>6, <1>7, <1>8, <1>9 DEF TrackerIInv

(* Taking a packet into the buffer keeps the invariant. *)
LEMMA StoreIInv == WindowAssumption /\ TrackerIInv /\ Store => TrackerIInv'
<1> SUFFICES ASSUME WindowAssumption, TrackerIInv, Store
             PROVE  TrackerIInv'
  OBVIOUS
<1> USE DEF WindowAssumption
<1> DEFINE m == minNonRcvedPacketId
           W == WindowSize
<1>1. /\ m \in Nat /\ m' = m
      /\ W \in Nat \ {0}
      /\ arriving \in PacketId /\ m <= arriving /\ arriving < m + W
      /\ inTime' = inTime \cup {arriving} /\ inTime \subseteq PacketId
      /\ buff \in [Slot -> PacketId \cup {NOT_RCVED}]
      /\ buff' = [buff EXCEPT ![arriving % W] = arriving]
      /\ packetLostCounter' = packetLostCounter
      /\ maxRcvedPacketId \in PacketId
      /\ maxRcvedPacketId' = IF arriving > maxRcvedPacketId THEN arriving
                             ELSE maxRcvedPacketId
      /\ arriving' = None
  BY DEF TrackerIInv, TrackerTypeOK, Store
<1>2. TrackerTypeOK'
  BY <1>1 DEF TrackerIInv, TrackerTypeOK, Store
<1>3. BufferShowsWindow'
  <2> SUFFICES ASSUME NEW i \in Window
               PROVE  buff'[i % W] = IF i \in inTime' THEN i ELSE NOT_RCVED
    BY <1>1 DEF BufferShowsWindow, Window
  <2>1. i \in Nat /\ m <= i /\ i < m + W
    BY <1>1 DEF Window
  <2>2. i % W \in Slot
    BY <2>1, <1>1, DivMod DEF Slot
  <2>3. CASE i = arriving
    BY <2>2, <2>3, <1>1
  <2>4. CASE i # arriving
    <3>1. arriving \in Nat
      BY <1>1 DEF PacketId
    <3>2. i < arriving \/ arriving < i
      BY <2>1, <2>4, <3>1
    <3>3. i % W # arriving % W
      <4>1. CASE i < arriving
        <5>1. arriving < i + W
          BY <2>1, <3>1, <1>1
        <5> QED
          BY <4>1, <5>1, <2>1, <3>1, <1>1, ModInjective
      <4>2. CASE arriving < i
        <5>1. i < arriving + W
          BY <2>1, <3>1, <1>1
        <5> QED
          BY <4>2, <5>1, <2>1, <3>1, <1>1, ModInjective
      <4> QED
        BY <3>2, <4>1, <4>2
    <3> QED
      BY <2>2, <2>4, <3>3, <1>1 DEF TrackerIInv, BufferShowsWindow
  <2> QED
    BY <2>3, <2>4
<1>4. LostIsExact'
  <2>1. (Passed \ inTime)' = Passed \ inTime
    BY <1>1 DEF Passed, PacketId
  <2> QED
    BY <2>1, <1>1 DEF TrackerIInv, LostIsExact
<1>5. HighestIsInWindow' /\ (inTime = {} => maxRcvedPacketId = 0)'
  <2>1. ASSUME NEW i \in inTime'
        PROVE  i <= maxRcvedPacketId'
    BY <2>1, <1>1 DEF TrackerIInv, HighestIsInWindow, PacketId
  <2>2. maxRcvedPacketId' \in inTime'
    BY <1>1 DEF TrackerIInv, HighestIsInWindow, PacketId
  <2>3. maxRcvedPacketId' < m + W
    BY <1>1 DEF TrackerIInv, HighestIsInWindow, PacketId
  <2> QED
    BY <2>1, <2>2, <2>3, <1>1 DEF HighestIsInWindow
<1>6. InstantRateIsFraction'
  BY DEF TrackerIInv, InstantRateIsFraction, InstantRate, Store
<1> QED
  BY <1>1, <1>2, <1>3, <1>4, <1>5, <1>6 DEF TrackerIInv

(* After a reset nothing has arrived and nothing is lost. *)
LEMMA ResetIInv == WindowAssumption /\ TrackerIInv /\ Reset => TrackerIInv'
<1> SUFFICES ASSUME WindowAssumption, TrackerIInv, Reset
             PROVE  TrackerIInv'
  OBVIOUS
<1> USE DEF WindowAssumption
<1>1. TrackerTypeOK'
  BY DEF TrackerIInv, TrackerTypeOK, Reset, Slot, PacketId
<1>2. BufferShowsWindow'
  <2>1. ASSUME NEW i \in Window'
        PROVE  buff'[i % WindowSize] = NOT_RCVED
    <3>1. i \in Nat
      BY DEF Window, Reset
    <3>2. i % WindowSize \in Slot
      BY <3>1, DivMod DEF Slot
    <3> QED
      BY <3>2 DEF Reset
  <2> QED
    BY <2>1 DEF BufferShowsWindow, Reset
<1>3. LostIsExact'
  <2>1. (Passed \ inTime)' = {}
    BY DEF Passed, Reset
  <2> QED
    BY <2>1, FS_EmptySet DEF LostIsExact, Reset
<1>4. HighestIsInWindow'
  BY DEF HighestIsInWindow, Reset
<1>5. InstantRateIsFraction'
  BY DEF TrackerIInv, TrackerTypeOK, InstantRateIsFraction, Reset
<1> QED
  BY <1>1, <1>2, <1>3, <1>4, <1>5 DEF TrackerIInv, Reset, None

(* Every step keeps the invariant. *)
LEMMA NextIInv == WindowAssumption /\ TrackerIInv /\ [TrackerNext]_trackerVars => TrackerIInv'
<1> SUFFICES ASSUME WindowAssumption, TrackerIInv, [TrackerNext]_trackerVars
             PROVE  TrackerIInv'
  OBVIOUS
<1>1. ASSUME NEW id \in PacketId, UpdatePacketLost(id)
      PROVE  TrackerIInv'
  <2>1. minNonRcvedPacketId \in Nat /\ id \in Nat
    BY DEF WindowAssumption, TrackerIInv, TrackerTypeOK, PacketId
  <2>2. TrackerTypeOK'
    BY <1>1 DEF TrackerIInv, TrackerTypeOK, UpdatePacketLost
  <2>3. (arriving # None => minNonRcvedPacketId <= arriving)'
    BY <1>1, <2>1 DEF UpdatePacketLost
  <2>4. BufferShowsWindow' /\ LostIsExact' /\ HighestIsInWindow'
    BY <1>1 DEF TrackerIInv, UpdatePacketLost, BufferShowsWindow, Window, LostIsExact,
                Passed, HighestIsInWindow
  <2>5. InstantRateIsFraction' /\ (inTime = {} => maxRcvedPacketId = 0)'
    BY <1>1 DEF TrackerIInv, UpdatePacketLost, InstantRateIsFraction, InstantRate
  <2> QED
    BY <2>2, <2>3, <2>4, <2>5 DEF TrackerIInv
<1>2. CASE GetInstantPacketLossRate
  <2>1. TrackerTypeOK'
    BY <1>2 DEF TrackerIInv, TrackerTypeOK, GetInstantPacketLossRate
  <2>2. BufferShowsWindow' /\ LostIsExact' /\ HighestIsInWindow'
    BY <1>2 DEF TrackerIInv, GetInstantPacketLossRate, BufferShowsWindow, Window,
                LostIsExact, Passed, HighestIsInWindow
  <2>3. InstantRateIsFraction'
    BY <1>2 DEF TrackerIInv, TrackerTypeOK, GetInstantPacketLossRate, InstantRateIsFraction,
                InstantRate
  <2> QED
    BY <1>2, <2>1, <2>2, <2>3 DEF TrackerIInv, GetInstantPacketLossRate
<1>3. CASE UNCHANGED trackerVars
  BY <1>3 DEF trackerVars, TrackerIInv, TrackerTypeOK, BufferShowsWindow, Window, LostIsExact, Passed,
              HighestIsInWindow, InstantRateIsFraction, InstantRate
<1> QED
  BY <1>1, <1>2, <1>3, SlideIInv, StoreIInv, ResetIInv DEF TrackerNext
-----------------------------------------------------------------------------
(* The tracker keeps its invariant, whatever arrives in whatever order. *)
THEOREM TrackerInvariant ==
    ASSUME WindowAssumption
    PROVE  TrackerSpec => []TrackerIInv
<1>1. TrackerInit => TrackerIInv
  BY TrackerInitIInv
<1>2. TrackerIInv /\ [TrackerNext]_trackerVars => TrackerIInv'
  BY NextIInv
<1> QED
  BY <1>1, <1>2, PTL DEF TrackerSpec

(* The counter of updatePacketLost is exact for every window size: it is the
   number of ids that left the window without a packet. *)
THEOREM LossesAreExact ==
    ASSUME WindowAssumption
    PROVE  TrackerSpec => []LostIsExact
<1>1. TrackerIInv => LostIsExact
  BY DEF TrackerIInv
<1> QED
  BY <1>1, TrackerInvariant, PTL

(* The ring buffer shows exactly the packets of the window that have arrived. *)
THEOREM BufferIsFaithful ==
    ASSUME WindowAssumption
    PROVE  TrackerSpec => []BufferShowsWindow
<1>1. TrackerIInv => BufferShowsWindow
  BY DEF TrackerIInv
<1> QED
  BY <1>1, TrackerInvariant, PTL

(* The rate that NodeReporter reads is a fraction, as long as nobody resets the
   tracker. *)
THEOREM RateIsFraction ==
    ASSUME WindowAssumption
    PROVE  TrackerSpec => []InstantRateIsFraction
<1>1. TrackerIInv => InstantRateIsFraction
  BY DEF TrackerIInv
<1> QED
  BY <1>1, TrackerInvariant, PTL

(* The highest id is the one of a packet that arrived, inside the window. *)
THEOREM HighestIsReceived ==
    ASSUME WindowAssumption
    PROVE  TrackerSpec => []HighestIsInWindow
<1>1. TrackerIInv => HighestIsInWindow
  BY DEF TrackerIInv
<1> QED
  BY <1>1, TrackerInvariant, PTL
=============================================================================
